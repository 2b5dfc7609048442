------------------------------- MODULE RangeScan -------------------------------
(***************************************************************************)
(* What a range read promises to those who read it: every consumer of one  *)
(* iterator sees the rows of the range from the first one on, in order,    *)
(* none twice and none skipped, whatever the other consumers do; it is     *)
(* told that the range has ended only after the last row, or after it has  *)
(* been told of an error.  Rows are numbered 1 .. total in the order of    *)
(* the scan.                                                               *)
(***************************************************************************)
EXTENDS Integers

CONSTANTS
  Loops,   \* consumers that run forEach, forEachBatch or toArray
  Calls    \* the calls of next, numbered in the order they are made

VARIABLES
  total,     \* rows of the range, the limit applied; any number, and it stays
  ordered,   \* are calls of next answered in the order they are made?  It stays
  got,       \* loop -> how many rows it has been given, always 1 .. got
  outcome,   \* loop -> "idle", "reading", or how it ended
  taken,     \* rows handed to calls of next
  answer     \* call of next -> Pending, its row, End or Error

Pending == 0
End == -1
Error == -2
Ends == {"end", "error", "stopped"}
svars == <<total, ordered, got, outcome, taken, answer>>

SInit ==
  /\ total \in Nat
  /\ ordered \in BOOLEAN
  /\ got = [c \in Loops |-> 0]
  /\ outcome = [c \in Loops |-> "idle"]
  /\ taken = 0
  /\ answer = [n \in Calls |-> Pending]

\* The loop starts, or is given the next rows: one, or a whole batch.
Give(c) ==
  /\ outcome[c] \in {"idle", "reading"}
  /\ \E n \in got[c] .. total : got' = [got EXCEPT ![c] = n]
  /\ outcome' = [outcome EXCEPT ![c] = "reading"]
  /\ UNCHANGED <<taken, answer>>

Finish(c) ==
  /\ outcome[c] = "reading"
  /\ \E how \in Ends :
       /\ how = "end" => got[c] = total
       /\ outcome' = [outcome EXCEPT ![c] = how]
  /\ UNCHANGED <<got, taken, answer>>

InTurn(n) == answer[n] = Pending /\ (ordered => \A m \in Calls : m < n => answer[m] # Pending)

ReplyRow(n) ==
  /\ InTurn(n)
  /\ taken < total
  /\ taken' = taken + 1
  /\ answer' = [answer EXCEPT ![n] = taken + 1]
  /\ UNCHANGED <<got, outcome>>

ReplyEnd(n) ==
  /\ InTurn(n)
  /\ taken = total \/ \E m \in Calls : answer[m] = Error
  /\ answer' = [answer EXCEPT ![n] = End]
  /\ UNCHANGED <<got, outcome, taken>>

ReplyError(n) ==
  /\ InTurn(n)
  /\ answer' = [answer EXCEPT ![n] = Error]
  /\ UNCHANGED <<got, outcome, taken>>

SNext ==
  /\ \/ \E c \in Loops : Give(c) \/ Finish(c)
     \/ \E n \in Calls : ReplyRow(n) \/ ReplyEnd(n) \/ ReplyError(n)
  /\ UNCHANGED <<total, ordered>>

ScanSpec == SInit /\ [][SNext]_svars
=============================================================================
