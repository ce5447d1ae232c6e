------------------------------- MODULE Option -------------------------------
\* Option::None, wherever the code keeps an Option.
CONSTANT None
============================================================================
