------------------------------- MODULE RunLedger -------------------------------
(***************************************************************************)
(* What `checks.json` promises over the life of a data directory, whatever *)
(* the process in front of it does: an abstract specification, which       *)
(* ChecksStore implements.                                                 *)
(*                                                                         *)
(* A project is unborn, perhaps pending (a request was refused for it, and *)
(* only memory has it), live, and then dead for good. A run enters the     *)
(* ledger once, with the results of its tests, and leaves with its project.*)
(***************************************************************************)
EXTENDS Naturals

CONSTANTS Projects, RunIds

VARIABLES
  status,  \* each project's
  ledger   \* the recorded runs: their project and their tests' outcomes

vars == <<status, ledger>>

Init ==
  /\ status = [p \in Projects |-> "unborn"]
  /\ ledger = [r \in {} |-> "none"]

\* A failed write leaves a project in memory, a kill takes it from there.
Unwritten ==
  /\ \A p \in Projects :
       \/ status'[p] = status[p]
       \/ status[p] = "unborn" /\ status'[p] = "pending"
       \/ status[p] = "pending" /\ status'[p] = "dead"
  /\ UNCHANGED ledger

\* Once healed, an open failure stays healed; no other outcome changes.
Healed(was, is) ==
  /\ DOMAIN is = DOMAIN was
  /\ \A t \in DOMAIN was : is[t] = was[t] \/ (was[t] = "open" /\ is[t] = "healed")

\* The file is replaced: projects are born and die, the runs of those that live
\* on are kept, and new runs belong to live projects.
Replaced ==
  /\ \A p \in Projects :
       \/ status'[p] = status[p]
       \/ status[p] \in {"unborn", "pending"} /\ status'[p] = "live"
       \/ status[p] \in {"pending", "live"} /\ status'[p] = "dead"
  /\ \A r \in DOMAIN ledger :
       IF status'[ledger[r].project] = "dead"
       THEN r \notin DOMAIN ledger'
       ELSE /\ r \in DOMAIN ledger'
            /\ ledger'[r].project = ledger[r].project
            /\ Healed(ledger[r].outcomes, ledger'[r].outcomes)
  /\ \A r \in DOMAIN ledger' : status'[ledger'[r].project] = "live"

Next == Unwritten \/ Replaced

Spec == Init /\ [][Next]_vars
=============================================================================
