---------------------------- MODULE RecordLedger ----------------------------
(***************************************************************************)
(* What every aggregate promises of each of its records, with no request   *)
(* in sight: the record is created once, in its initial status; each later *)
(* write is one edit, which keeps the status, or one advance along an edge *)
(* of the graph, and counts the version up by one; a deletion is final.    *)
(* Each of these leaves exactly one entry at the end of the record's       *)
(* trail, and an edit or an advance states in it the status that it        *)
(* replaced and the status that it left.  A deletion states the status the *)
(* deleter saw, which may be an old one but is one the record has had.     *)
(***************************************************************************)
EXTENDS Naturals, Sequences

CONSTANTS
    Statuses,
    Edges,     \* the allowed <<from, to>> pairs
    Initial,   \* the status in which the record is created
    Opening    \* phase, status and version at the start

VARIABLES
    ledger,    \* phase, status and version of the record
    trail      \* its entries, oldest first

ledgerVars == <<ledger, trail>>

LedgerInit == ledger = Opening /\ trail = <<>>

Post(phase, status, version) ==
    ledger' = [phase |-> phase, status |-> status, version |-> version]

Enter(action, before, after) ==
    trail' = Append(trail, [action |-> action, before |-> before, after |-> after])

\* What the status of the record has been so far.
Had == {Opening.status} \cup {trail[i].after : i \in DOMAIN trail}

Create ==
    /\ ledger.phase = "absent"
    /\ Post("live", Initial, 1)
    /\ Enter("create", "", Initial)

Edit ==
    /\ ledger.phase = "live"
    /\ Post("live", ledger.status, ledger.version + 1)
    /\ Enter("update", ledger.status, ledger.status)

Advance(to) ==
    /\ ledger.phase = "live"
    /\ <<ledger.status, to>> \in Edges
    /\ Post("live", to, ledger.version + 1)
    /\ Enter("transition", ledger.status, to)

Delete(seen) ==
    /\ ledger.phase = "live"
    /\ seen \in Had
    /\ Post("deleted", ledger.status, ledger.version)
    /\ Enter("delete", seen, "deleted")

LedgerNext ==
    \/ Create
    \/ Edit
    \/ \E s \in Statuses : Advance(s) \/ Delete(s)

LedgerSpec == LedgerInit /\ [][LedgerNext]_ledgerVars
=============================================================================
