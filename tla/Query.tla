-------------------------------- MODULE Query --------------------------------
(***************************************************************************)
(* A read-only verb: it reads files, prints an answer and changes nothing. *)
(* A behaviour is one question put to one state of the files; what a        *)
(* property compares the answer with is those files, or other answers.     *)
(***************************************************************************)
EXTENDS Integers, Sequences, FiniteSets, SequencesExt, FiniteSetsExt, Functions, TLC

CONSTANTS
  Worlds,   \* the states of the files that are asked about
  Unset     \* an option that is not given

VARIABLES
  world,    \* what the verb reads
  query,    \* the verb and its arguments
  answer    \* "waiting", or a code and what is printed

query_vars == <<world, query, answer>>

\* Every command ends with an ErrorCode or with output.
ErrorCodes == {"InvalidInput", "NotFound", "Conflict", "IoError"}
Ok(v) == [code |-> "ok", value |-> v]
Error(code) == [code |-> code, value |-> "none"]

\* "?": the first error is the answer, and what was read goes on.
Then(read, Reply(_)) == IF read.code = "ok" THEN Reply(read.value) ELSE read

\* The elements of a sequence that are in a set, in their order.
Keep(s, S) == FlattenSeq([i \in DOMAIN s |-> IF s[i] \in S THEN <<s[i]>> ELSE <<>>])

Waiting == [code |-> "waiting", value |-> "none"]

Ask(subject, q, a) ==
  /\ world.subject = subject
  /\ answer.code = "waiting"
  /\ query' = q
  /\ answer' = a
  /\ UNCHANGED world

Answered(verb) == query.verb = verb /\ answer.code = "ok"

QueryInit ==
  /\ world \in Worlds
  /\ query = [verb |-> "none"]
  /\ answer = Waiting
=============================================================================
