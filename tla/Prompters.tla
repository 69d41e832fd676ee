----------------------------- MODULE Prompters -----------------------------
(***************************************************************************)
(* flexprompt: what a Dispatch of each built-in prompter returns.  A       *)
(* request is a record of an ID and its flags.  The answers are a function *)
(* on some of the IDs; an error returns none.  lines is what standard      *)
(* input still holds; "" is an empty line.                                 *)
(***************************************************************************)
EXTENDS Naturals, Sequences

CONSTANT NoDefault

(* An entry set in a map. *)
With(map, key, v) == [k \in DOMAIN map \cup {key} |-> IF k = key THEN v ELSE map[k]]

(* validateRequests. *)
ValidRequests(reqs) ==
  /\ \A i \in DOMAIN reqs : reqs[i].id # ""
  /\ \A i, j \in DOMAIN reqs : reqs[i].id = reqs[j].id => i = j

Ids(reqs) == {reqs[i].id : i \in DOMAIN reqs}
Required(reqs) == {reqs[i].id : i \in {j \in DOMAIN reqs : ~reqs[j].optional}}

Error(err, lines) == [err |-> err, answers |-> <<>>, lines |-> lines]
Answered(answers, lines) == [err |-> "none", answers |-> answers, lines |-> lines]

(* The map prompter looks an ID up as it is, the environment prompter      *)
(* under the name of its variable; here values has the IDs in either case. *)
DispatchValues(values, reqs, lines) ==
  IF ~ValidRequests(reqs) THEN Error("invalid", lines)
  ELSE IF Required(reqs) \subseteq DOMAIN values
    THEN Answered([id \in Ids(reqs) \cap DOMAIN values |-> values[id]], lines)
    ELSE Error("unavailable", lines)

(* What GetPrompter returns when SetPrompter was never called. *)
DispatchNone(reqs, lines) ==
  IF ~ValidRequests(reqs) THEN Error("invalid", lines)
  ELSE IF Required(reqs) = {} THEN Answered(<<>>, lines) ELSE Error("noprompter", lines)

-----------------------------------------------------------------------------
(* The CLI prompter: a line for each request, entered twice to confirm.    *)
Entered(req, line) ==
  IF line = "" /\ ~req.secret /\ req.default # NoDefault THEN req.default ELSE line

Ask(req, lines) ==
  IF lines = <<>> THEN Error("cancelled", lines)
  ELSE LET v    == Entered(req, Head(lines))
           rest == Tail(lines)
       IN  IF ~req.confirm \/ v = "" THEN Answered(v, rest)
           ELSE IF rest = <<>> THEN Error("cancelled", rest)
           ELSE IF Head(rest) # v THEN Error("mismatch", Tail(rest))
           ELSE Answered(v, Tail(rest))

AskNextPastTheEnd(soFar, req) ==
  LET asked == Ask(req, soFar.lines)
  IN  IF soFar.err # "none" \/ asked.err # "none" \/ asked.answers = "" THEN soFar
      ELSE [asked EXCEPT !.answers = With(soFar.answers, req.id, @)]

(* An empty entry is no value: nothing, if the request is optional. *)
AskNext(soFar, req) ==
  LET asked == Ask(req, soFar.lines)
  IN  IF soFar.err # "none" THEN soFar
      ELSE IF asked.err # "none" THEN asked
      ELSE IF asked.answers # "" THEN [asked EXCEPT !.answers = With(soFar.answers, req.id, @)]
      ELSE IF req.optional THEN [soFar EXCEPT !.lines = asked.lines]
      ELSE Error("unavailable", asked.lines)

DispatchCLI(reqs, lines) ==
  IF ~ValidRequests(reqs) THEN Error("invalid", lines)
  ELSE LET upTo[i \in 0 .. Len(reqs)] ==
             IF i = 0 THEN Answered(<<>>, lines) ELSE AskNext(upTo[i - 1], reqs[i])
       IN  upTo[Len(reqs)]

(* The reader of a Dispatch is not kept, and neither is what it has read   *)
(* ahead: on a pipe, that is everything there is (standard input never     *)
(* holds more than its buffer of 4096 bytes here).                         *)
LeftInInput(before, after) == IF after = before THEN before ELSE <<>>

(* The contract of Prompter.Dispatch: all required answers or an error.    *)
KeepsContract(reqs, result) ==
  IF result.err # "none" THEN result.answers = <<>>
  ELSE /\ ValidRequests(reqs)
       /\ Required(reqs) \subseteq DOMAIN result.answers
       /\ DOMAIN result.answers \subseteq Ids(reqs)
=============================================================================
