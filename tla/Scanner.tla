------------------------------ MODULE Scanner ------------------------------
(***************************************************************************)
(* What `autonet check' reports of a project's files                       *)
(* (autonet-core/src/ipscan.rs and autonet-cli/src/check.rs).  A text is   *)
(* [generated, lines], a line [allow, tokens] and a token what it takes to *)
(* tell an address somebody wrote from a number shaped like one:           *)
(*   [family, scope, before, after, edge, cidr, versioned]                 *)
(* with its neighbours "word", "dot" or "other", whether its last octet is *)
(* 0 or 255, whether a range follows and whether `version' comes before.   *)
(***************************************************************************)
EXTENDS Integers, Sequences, Option

CONSTANT
    Opaque     \* a file over the size limit, with a NUL or not UTF-8

\* LOCKFILES and PROSE_EXTENSIONS: an address in them breaks no program.
Unchecked == {"lockfile", "prose"}
IsCheckedPath(kind) == kind \notin Unchecked

\* Dependencies and build output, which only a walk without Git has to skip.
IsSkippedDirectory(place) == place \in {"dependencies", "output"}

\* A trailing dot ends a sentence; a letter makes it part of a word.
V4Finding(t) ==
    /\ t.before \notin {"word", "dot"} /\ t.after # "word"
    /\ ~t.cidr
    /\ ~t.versioned
    /\ ~t.edge
    /\ t.scope \in {"private", "cgnat"}

V6Finding(t) ==
    /\ t.before \notin {"word", "dot"} /\ t.after \notin {"word", "dot"}
    /\ ~t.cidr
    /\ t.scope = "unique_local"

\* The tokens of one line that are reported.
ScanLine(text, line) ==
    IF text.lines[line].allow THEN {}
    ELSE {k \in DOMAIN text.lines[line].tokens :
            LET t == text.lines[line].tokens[k]
            IN  IF t.family = "v4" THEN V4Finding(t) ELSE V6Finding(t)}

\* A generated file is for having an address in it.
ScanText(text) ==
    IF text.generated THEN {}
    ELSE UNION {{<<line, k>> : k \in ScanLine(text, line)} : line \in DOMAIN text.lines}

\* record: what there is to report of a file, nothing of one that is not text.
Findings(text) == IF text \in {None, Opaque} THEN {} ELSE ScanText(text)

============================================================================
