--------------------------- MODULE PublishDialog ---------------------------
(***************************************************************************)
(* What a server may expect of a publisher: the steps of the dialog in     *)
(* their order, each step that needs an answer of the server only after    *)
(* that answer, media only once it agreed to the publishing, and the end   *)
(* of the stream announced before it is deleted.                           *)
(***************************************************************************)
EXTENDS Naturals, Sequences

VARIABLES
  heard,    (* the number of steps of the dialog the server has heard      *)
  granted   (* the answers that let the dialog go on                       *)

dialogVars == <<heard, granted>>

Steps == <<"C0C1", "C2", "connect", "releaseStream", "FCPublish",
           "createStream", "publish", "media", "FCUnpublish", "deleteStream">>

Answers == {"S0S1", "S2", "connected", "stream", "published"}

(* The answer that must precede a step.                                    *)
Needs(step) ==
  CASE step = "C2"            -> {"S0S1"}
    [] step = "connect"       -> {"S2"}
    [] step = "releaseStream" -> {"connected"}
    [] step = "publish"       -> {"stream"}
    [] step = "media"         -> {"published"}
    [] OTHER                  -> {}

Init == heard = 0 /\ granted = {}

(* The step at place n.  Media may be left out or repeated.                *)
Hear(n) ==
  /\ \/ n = heard + 1
     \/ Steps[n] = "media" /\ heard = n
     \/ Steps[n] = "FCUnpublish" /\ heard = n - 2
  /\ Needs(Steps[n]) \subseteq granted
  /\ heard' = n

(* The server may answer in the step in which it hears.                    *)
Answer == granted' \in SUBSET Answers /\ granted \subseteq granted'

Next == Answer /\ ((\E n \in 1..Len(Steps) : Hear(n)) \/ UNCHANGED heard)

Spec == Init /\ [][Next]_dialogVars

=============================================================================
