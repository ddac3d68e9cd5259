----------------------------- MODULE MCAdapters -----------------------------
(***************************************************************************)
(* Two tests in two files, every adapter, every tree, and the registries   *)
(* of five families: what the suites' runs discover varies while listings  *)
(* discover the same; what the listings discover varies while runs are     *)
(* well scoped; vitest overrides that cannot list; pytest commands that    *)
(* name a path; markers and options of one command only.                   *)
(***************************************************************************)
EXTENDS Adapters

MCTest == {"t1", "t2"}
MCFile == {"f1", "f2"}
MCFileOf == [t \in MCTest |-> IF t = "t1" THEN "f1" ELSE "f2"]
MCIdOf == [t \in MCTest |-> t]

Same(S) == [c \in Command |-> S]
Pair(T, C) == [c \in Command |-> IF c = "test" THEN T ELSE C]
None == [s \in Suite |-> Same({})]
Reach(d, o) == [s \in Suite |-> IF s = "default" THEN d ELSE o]
Some == SUBSET MCFile
Owns == Some \ {{}}

Plain(k) ==
  [kind |-> k, overridden |-> FALSE, owned |-> {}, bare |-> FALSE, inline |-> {},
   reach |-> Reach(Same(MCFile), Same({})), drops |-> None, fixed |-> {}, odd |-> {}]

Over(k, own, d, o) ==
  [Plain(k) EXCEPT !.overridden = TRUE, !.owned = own, !.reach = Reach(d, o)]

Uncomposed ==
  {Plain(k) : k \in {"cargo", "gradle", "xctest", "exec"}}
    \cup {[Plain("cargo") EXCEPT !.inline = {"f2"}]}

Composes == {"pytest", "vitest"}

Runs ==
  {[Plain(k) EXCEPT !.reach = Reach(Same(D), Same({}))] : k \in Composes, D \in Some}
    \cup {Over(k, own, Same(D), Same(O)) :
            k \in Composes, own \in Owns, D \in Some, O \in Some}

Listings ==
  {[Plain(k) EXCEPT !.reach = Reach(Pair(MCFile, D), Same({}))] : k \in Composes, D \in Some}
    \cup {Over(k, own, Pair(MCFile \ own, D), Pair(own, O)) :
            k \in Composes, own \in Owns, D \in Some, O \in Some}

Bare ==
  {[Over("vitest", own, Same(MCFile \ own), Same(own)) EXCEPT !.bare = TRUE] :
     own \in Owns}

Scoped ==
  {[Over("pytest", own, Same(MCFile \ own), Same(O)) EXCEPT !.bare = TRUE, !.fixed = {"override"}] :
     own \in {{"f1"}, MCFile}, O \in {{"f1"}, MCFile}}
    \cup {[Plain("pytest") EXCEPT !.fixed = {"default"}, !.reach = Reach(Same(D), Same({}))] :
            D \in Some}

Marked ==
  {[Plain(k) EXCEPT !.drops = Reach(d, Same({}))] :
     k \in Composes, d \in {Pair({"t1"}, {}), Pair({}, {"t1"}), Pair({}, {"t2"})}}
    \cup {[Over(k, own, Same(MCFile), Same(MCFile)) EXCEPT !.drops = Reach(Same(MCTest \ T), Same(T))] :
            k \in Composes, own \in Owns, T \in SUBSET MCTest}
    \cup {[Plain("pytest") EXCEPT !.odd = {"default"}]}
    \cup {[Over("pytest", own, Same(MCFile \ own), Same(own)) EXCEPT !.odd = {"override"}] :
            own \in Owns}

MCRegistries == Uncomposed \cup Runs \cup Listings \cup Bare \cup Scoped \cup Marked
=============================================================================
