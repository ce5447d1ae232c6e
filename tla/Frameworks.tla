----------------------------- MODULE Frameworks -----------------------------
(***************************************************************************)
(* What a framework makes of the way AutoNet starts it: where its server   *)
(* may listen.  None of this is AutoNet's; it is what project.rs counts on *)
(* when it prints a URL.                                                   *)
(***************************************************************************)
EXTENDS Plan

\* The arguments the framework's own program is given: those of the script
\* and, behind npm's separator, those of the command.
Arguments(facts, plan) ==
    LET passed == SubSeq(plan.command, IF facts.manager = "npm" THEN 5 ELSE 4,
                         Len(plan.command))
    IN Tokenize(facts.package.scripts[plan.command[3]])
         \o [i \in 1..Len(passed) |-> Word(passed[i])]

\* What a script sets in the environment of its program, over what it is given.
Assigned(facts, plan, name) ==
    LET script == facts.package.scripts[plan.command[3]]
    IN {script[i].value : i \in {j \in 1..(Program(script) - 1) : script[j].word = name}}

\* All a flag is given: a parser that sees one twice may use either.
Given(arguments, names) ==
    {ValueAt(arguments, i) : i \in {j \in 1..Len(arguments) : arguments[j].word \in names}}

OrElse(values, default) == IF values = {} THEN {default} ELSE values

\* Port 0 is any that is free.
Listening(port) == IF port = "0" THEN "another" ELSE port

\* The ports it may listen on; Vite moves to another unless it is strict.
PortsOf(facts, plan) ==
    LET recipe == Recipe[plan.kind]
        arguments == Arguments(facts, plan)
    IN IF "PORT" \in DOMAIN plan.env
         THEN OrElse(Assigned(facts, plan, "PORT"), plan.port)
         ELSE {Listening(port) :
                  port \in OrElse(Given(arguments, recipe.port_flags), recipe.default_port)}
                \cup (IF plan.kind \in {"Vite", "SvelteKit"}
                           /\ ~Contains(arguments, Word("--strictPort"))
                        THEN {"another"} ELSE {})

\* The hosts it may bind.
HostsOf(facts, plan, bind) ==
    IF "HOST" \in DOMAIN plan.env
      THEN OrElse(Assigned(facts, plan, "HOST"), bind)
      ELSE OrElse(Given(Arguments(facts, plan), Recipe[plan.kind].host_flags), "localhost")

=============================================================================
