------------------------------ MODULE SyncPull ------------------------------
(***************************************************************************)
(* The pull of the delta sync (sync.routes.js): a client asks for the rows *)
(* of a table that are newer than the serverTime of an answer it has had,  *)
(* while transactions that stamped their rows before are still to commit.  *)
(* The phone asks for all of them, since 0; its answers may get lost.      *)
(***************************************************************************)
EXTENDS Naturals, FiniteSets

CONSTANTS Keys, Writers,
          Limit,              \* rows of an answer
          MaxClock, MaxVersion \* bounds

VARIABLES rows,    \* committed: [at, version], at being updated_at
          stamped, \* by the transaction of each writer: [key, at], or NoWrite
          pull,    \* the pull under way
          copies,  \* versions that the client has
          mark,    \* the last serverTime that it was told
          clock,
          \* History, read by no action:
          late     \* rows that an answer may have passed over for good

pullVars == <<rows, stamped, pull, copies, mark, clock, late>>

Times == 0..MaxClock
Versions == 0..MaxVersion
NoWrite == [key |-> {}, at |-> 0]
NoPull == [step |-> "none", since |-> 0, got |-> {}]
Row == [key : Keys, at : Times, version : Versions]

ASSUME PullAssumption ==
    IsFiniteSet(Keys) /\ IsFiniteSet(Writers) /\ {Limit, MaxClock, MaxVersion} \subseteq Nat

PullTypeOK ==
    /\ rows \in [Keys -> [at : Times, version : Versions]] /\ copies \in [Keys -> Versions]
    /\ mark \in 0..clock /\ clock \in Times /\ late \subseteq Keys
    /\ pull.got \subseteq Row /\ Cardinality(pull.got) <= Limit

-----------------------------------------------------------------------------
(* The writers *)

\* The time is taken before the upsert, which may wait for another one; the clock
\* of the phone counts when it is ahead.
Stamp(w, k, at) ==
    /\ stamped[w] = NoWrite /\ at >= clock
    /\ rows[k].version + Cardinality({o \in Writers : stamped[o].key = {k}}) < MaxVersion
    /\ stamped' = [stamped EXCEPT ![w] = [key |-> {k}, at |-> at]]
    /\ UNCHANGED <<rows, pull, copies, mark, clock, late>>

CommitWrite(w) ==
    \E k \in stamped[w].key :
       /\ rows' = [rows EXCEPT ![k] = [at |-> stamped[w].at, version |-> @.version + 1]]
       /\ stamped' = [stamped EXCEPT ![w] = NoWrite]
       /\ late' = IF pull.step = "read" \/ stamped[w].at <= mark THEN late \cup {k} ELSE late
       /\ UNCHANGED <<pull, copies, mark, clock>>

RollBack(w) ==
    /\ stamped[w] # NoWrite /\ stamped' = [stamped EXCEPT ![w] = NoWrite]
    /\ UNCHANGED <<rows, pull, copies, mark, clock, late>>

-----------------------------------------------------------------------------
(* The pull *)

AskPull(since) ==
    /\ pull = NoPull /\ pull' = [step |-> "asked", since |-> since, got |-> {}]
    /\ UNCHANGED <<rows, stamped, copies, mark, clock, late>>

RowOf(k) == [key |-> k, at |-> rows[k].at, version |-> rows[k].version]
NewerByTwo(since) == {k \in Keys : rows[k].at > since + 1}
Newer(since) == {k \in Keys : rows[k].at > since}

\* ORDER BY updated_at LIMIT 500
ReadRows ==
    /\ pull.step = "asked"
    /\ \E S \in SUBSET Newer(pull.since) :
          /\ Cardinality(S) = Limit \/ (Cardinality(S) < Limit /\ S = Newer(pull.since))
          /\ \A k \in S, l \in Newer(pull.since) \ S : rows[k].at <= rows[l].at
          /\ pull' = [step |-> "read", since |-> pull.since, got |-> {RowOf(k) : k \in S}]
          /\ late' = late \cup (Newer(pull.since) \ S)
    /\ UNCHANGED <<rows, stamped, copies, mark, clock>>

\* serverTime is the time of the answer.
AnswerPull ==
    /\ pull.step = "read" /\ mark' = clock
    /\ copies' = [k \in Keys |-> IF \E r \in pull.got : r.key = k THEN (CHOOSE r \in pull.got : r.key = k).version ELSE copies[k]]
    /\ pull' = NoPull
    /\ UNCHANGED <<rows, stamped, clock, late>>

\* The request fails, or its answer is lost.
LosePull == /\ pull # NoPull /\ pull' = NoPull
            /\ UNCHANGED <<rows, stamped, copies, mark, clock, late>>

Later == /\ clock < MaxClock /\ clock' = clock + 1
         /\ UNCHANGED <<rows, stamped, pull, copies, mark, late>>

PullInit ==
    /\ rows = [k \in Keys |-> [at |-> 0, version |-> 0]] /\ stamped = [w \in Writers |-> NoWrite]
    /\ pull = NoPull /\ copies = [k \in Keys |-> 0] /\ mark = 0 /\ clock = 0 /\ late = {}

PullNext ==
    \/ \E w \in Writers : CommitWrite(w) \/ RollBack(w) \/ \E k \in Keys, at \in Times : Stamp(w, k, at)
    \/ \E since \in {0, mark} : AskPull(since)
    \/ ReadRows \/ AnswerPull \/ LosePull \/ Later

PullSpec == PullInit /\ [][PullNext]_pullVars

(* A client that goes on from serverTime lacks for good only a row that was
   committed after the pull had read the table, or stamped no later than the
   serverTime that the client knew when it was committed, or cut off by the
   limit (sync.routes.js 257-270, 331-332). *)
MissedRowsWereLate == \A k \in Keys : copies[k] # rows[k].version /\ rows[k].at <= mark => k \in late

=============================================================================
