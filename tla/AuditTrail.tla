----------------------------- MODULE AuditTrail ------------------------------
(***************************************************************************)
(* repository/security.go: what is read back from the audit entries while  *)
(* the services go on writing them: the history of one record, and the     *)
(* summary over a window of time, which takes one query per figure and no  *)
(* transaction around them.                                                *)
(***************************************************************************)
EXTENDS AuditedTransactions, FiniteSets

VARIABLE
    summary   \* the AuditSummary request in progress

trailVars == <<allVars, summary>>

NoSummary == [at |-> "none", total |-> 0, transitions |-> 0, actions |-> 0, moves |-> 0]

\* The window of a summary starts before it is asked for and takes in every
\* instant of the clock here; an entry that commits meanwhile lies in it.
InWindow == UNION {{x} \X DOMAIN stamps[x] : x \in Records}

Transitions == {e \in InWindow : audit[e[1]][e[2]].action = "transition"}

CountTotal ==
    /\ summary.at = "none"
    /\ summary' = [NoSummary EXCEPT !.at = "transitions", !.total = Cardinality(InWindow)]

\* Were the query to see what is not committed, it would count entries that
\* are rolled back.
CountTransitionsUncommitted ==
    /\ summary.at = "transitions"
    /\ summary' = [summary EXCEPT !.at = "actions",
          !.transitions = Cardinality(Transitions)
              + Cardinality({r \in Requests : tx[r].at = "logged" /\ req[r].op = "transition"})]

CountTransitions ==
    /\ summary.at = "transitions"
    /\ summary' = [summary EXCEPT !.at = "actions", !.transitions = Cardinality(Transitions)]

\* GROUP BY action: the sum of the groups, and the group of the transitions.
CountActions ==
    /\ summary.at = "actions"
    /\ summary' = [summary EXCEPT !.at = "reply", !.actions = Cardinality(InWindow),
                                  !.moves = Cardinality(Transitions)]

\* The answer is sent, or a query fails and the whole summary with it.
EndSummary == summary.at # "none" /\ summary' = NoSummary

SummarizeAudits ==
    \/ CountTotal
    \/ CountTransitions
    \/ CountActions
    \/ EndSummary

TrailInit == TxInit /\ summary = NoSummary

TrailNext ==
    \/ TxNext /\ UNCHANGED summary
    \/ SummarizeAudits /\ UNCHANGED allVars

TrailSpec == TrailInit /\ [][TrailNext]_trailVars /\ TxFairness

\* Without its DESC.
EntityHistoryOldestFirst(x, limit) ==
    LET n == IF Len(stamps[x]) < limit THEN Len(stamps[x]) ELSE limit IN
    {h \in [1 .. n -> DOMAIN stamps[x]] :
        /\ \A i, j \in 1 .. n : i < j => h[i] # h[j] /\ stamps[x][h[i]] <= stamps[x][h[j]]
        /\ \A k \in DOMAIN stamps[x] :
              (\A i \in 1 .. n : h[i] # k) => \A i \in 1 .. n : stamps[x][k] >= stamps[x][h[i]]}

\* ORDER BY created_at DESC LIMIT: the numbers of the entries in any order the
\* query may give them.
EntityHistory(x, limit) ==
    LET n == IF Len(stamps[x]) < limit THEN Len(stamps[x]) ELSE limit IN
    {h \in [1 .. n -> DOMAIN stamps[x]] :
        /\ \A i, j \in 1 .. n : i < j => h[i] # h[j] /\ stamps[x][h[i]] >= stamps[x][h[j]]
        /\ \A k \in DOMAIN stamps[x] :
              (\A i \in 1 .. n : h[i] # k) => \A i \in 1 .. n : stamps[x][k] <= stamps[x][h[i]]}

-----------------------------------------------------------------------------
(***************************************************************************)
(* README 45, 47: the history of a record on file reads as its story: as   *)
(* long as no two of its entries bear the same time, the newest one that   *)
(* is listed states the status the record has, and each states as its      *)
(* before the after of the next one down.                                  *)
(***************************************************************************)
TimesDiffer(x) == \A i, j \in DOMAIN stamps[x] : stamps[x][i] = stamps[x][j] => i = j

ReadsAsStory(limit) ==
    \A x \in Records :
        Live(x) /\ TimesDiffer(x) =>
            \A h \in EntityHistory(x, limit) :
                /\ 1 \in DOMAIN h => audit[x][h[1]].after = rows[x].status
                /\ \A i \in DOMAIN h \ {1} : audit[x][h[i - 1]].before = audit[x][h[i]].after

\* A history of the last two entries reads as a story: what EntityHistory lists
\* of a record (repository/security.go), cut off where its limit falls.
HistoryIsAStory == ReadsAsStory(2)

(***************************************************************************)
(* repository/security.go 60-88: the figures of a summary are counted one  *)
(* after the other while entries are added.  No later figure misses an     *)
(* entry that an earlier one counted.                                      *)
(***************************************************************************)
SummaryMissesNothing ==
    summary.at = "reply" =>
        summary.total <= summary.actions /\ summary.transitions <= summary.moves
=============================================================================
