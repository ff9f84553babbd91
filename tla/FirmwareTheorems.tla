-------------------------- MODULE FirmwareTheorems --------------------------
(***************************************************************************)
(* The update for every number of parts, of messages in transit and of     *)
(* repeated updates, with the one attempt per request that the code's SDO  *)
(* client makes (Attempts = 1).                                            *)
(*                                                                         *)
(* The argument.  A request that changes the device is the last one in     *)
(* transit, and so is its answer (ChangesLast): the tool only goes on from *)
(* it with that answer, and then nothing of the past is on its way any     *)
(* more.  So an acknowledgement that is taken belongs to the command it is *)
(* taken for (OwnChange), and each step finds the device as the command    *)
(* before has left it (DeviceAtStep).  A command still on its way when the *)
(* tool has given up finds it so too (Prepared).                           *)
(***************************************************************************)
EXTENDS FirmwareUpdate, TLAPS

Control == {"stop", "clear", "start", "confirm"}
Changing == Control \cup {"data", "end"}
Requests == {"swid", "status"} \cup Changing

ChangedObjects == {"control", "program"}
Replies ==
  [to : {"swid"}, what : {"swid", "abort"}]
    \cup [to : {"status"}, what : {"ok", "busy", "error", "abort"}]
    \cup [to : ChangedObjects, what : {"ack", "abort"}]

(* What is in transit, whatever the order.                                  *)
Coming == { requests[i] : i \in 1 .. Len(requests) }
Returning == { answers[i] : i \in 1 .. Len(answers) }

Counts == step \in 1 .. 14 /\ left \in 0 .. Parts /\ got \in 0 .. Parts

Types ==
  /\ asked \in Requests \cup {Nothing, "give up"}
  /\ result \in {"asking", "running", "success", "failed", "cancelled"}
  /\ program \in {"run", "stopped"}
  /\ memory \in {"old", "erasing", "erased", "partial", "new"}
  /\ flash \in {"ok", "busy", "error"}

Channels == requests \in Seq(Requests) /\ answers \in Seq(Replies)

ChangesLast ==
  /\ \A i \in 1 .. Len(requests) : requests[i] \in Changing => i = Len(requests)
  /\ \A i \in 1 .. Len(answers) :
       answers[i].to \in ChangedObjects => i = Len(answers) /\ requests = << >>

OwnChange ==
  Running =>
    /\ \A r \in Coming : r \in Changing => r = asked
    /\ \A a \in Returning : a.to \in ChangedObjects => asked \in Changing

AskedInStep ==
  Running =>
    /\ sent = (IF asked \in {Nothing, "give up"} THEN 0 ELSE 1)
    /\ asked = "stop" => step = 4
    /\ asked = "clear" => step = 5
    /\ asked = "data" => step = 7 /\ left > 0
    /\ asked = "end" => step = 7 /\ left = 0
    /\ asked = "start" => step = 10
    /\ asked = "confirm" => step = 13
    /\ asked = "give up" => step \in {2, 6, 8}

Prepared ==
  /\ "clear" \in Coming => program = "stopped"
  /\ "data" \in Coming => memory \in {"erased", "partial"} /\ flash = "ok" /\ got < Parts
  /\ "start" \in Coming => memory = "new"
  /\ memory = "erasing" => flash # "ok"

Acked == \E a \in Returning : a.what = "ack"

DeviceAtStep ==
  Running =>
    /\ step < 7 => left = Parts
    /\ step = 4 /\ Acked => program = "stopped"
    /\ step \in 5 .. 9 => program = "stopped"
    /\ step = 5 /\ Acked => memory \in {"erasing", "erased"} /\ got = 0
    /\ step = 6 => memory \in {"erasing", "erased"} /\ got = 0
    /\ step = 7 /\ asked # "end" =>
         flash = "ok" /\ memory = IF got = 0 THEN "erased" ELSE "partial"
    /\ step = 7 /\ asked \notin {"data", "end"} => got = Parts - left
    /\ step = 7 /\ asked = "data" =>
         /\ "data" \in Coming => got = Parts - left
         /\ Acked => got = Parts - left + 1
    /\ step = 7 /\ asked = "end" =>
         /\ got = Parts /\ memory \in {"partial", "new"}
         /\ Acked => (flash = "ok" => memory = "new")
    /\ step = 8 =>
         got = Parts /\ memory \in {"partial", "new"} /\ (flash = "ok" => memory = "new")
    /\ step \in {6, 8} => \A a \in Returning : a.what = "ok" => flash = "ok"
    /\ step > 8 => memory = "new"
    /\ step = 10 /\ Acked => program = "run"
    /\ step > 10 => program = "run"
    /\ step = 14 => requests = << >>

Ended ==
  /\ result = "asking" => requests = << >> /\ answers = << >>
  /\ result = "success" => requests = << >> /\ program = "run" /\ memory = "new"

Confirms ==
  /\ Running /\ step = 13 /\ Acked => confirmed
  /\ Running /\ step = 14 => confirmed
  /\ result = "success" => confirmed

Order == ChangesLast /\ OwnChange /\ AskedInStep
Device1 == Prepared /\ DeviceAtStep /\ Ended

IInv == Counts /\ Types /\ Channels /\ Order /\ Device1 /\ Confirms

-----------------------------------------------------------------------------
(* Sequences: the rest of one, and one that something may be added to.      *)
LEMMA RestOf ==
  ASSUME NEW S, NEW s \in Seq(S), NEW k \in 0 .. Len(s)
  PROVE  /\ SubSeq(s, k + 1, Len(s)) \in Seq(S)
         /\ Len(SubSeq(s, k + 1, Len(s))) = Len(s) - k
         /\ \A i \in 1 .. Len(s) - k : SubSeq(s, k + 1, Len(s))[i] = s[i + k]
  OBVIOUS

LEMMA FirstAndRest ==
  ASSUME NEW S, NEW s \in Seq(S), s # << >>
  PROVE  /\ Head(s) = s[1] /\ 1 \in 1 .. Len(s) /\ Head(s) \in S
         /\ Tail(s) \in Seq(S) /\ Len(Tail(s)) = Len(s) - 1
         /\ \A i \in 1 .. Len(s) - 1 : Tail(s)[i] = s[i + 1]
  OBVIOUS

LEMMA TransmitAdds ==
  ASSUME NEW S, NEW s \in Seq(S), NEW m \in S
  PROVE  /\ Transmit(s, m) \in Seq(S)
         /\ \/ Transmit(s, m) = s
            \/ /\ Len(Transmit(s, m)) = Len(s) + 1
               /\ Transmit(s, m)[Len(s) + 1] = m
               /\ \A i \in 1 .. Len(s) : Transmit(s, m)[i] = s[i]
  BY DEF Transmit

(* The script, step by step.                                                *)
LEMMA ScriptSteps ==
  /\ Len(Script) = 13
  /\ \A s \in {1, 9} : Script[s] = Read
  /\ Script[2] = Wait(FALSE)
  /\ \A s \in {6, 8} : Script[s] = Wait(TRUE)
  /\ \A s \in {3, 12} : Script[s] = Nmt
  /\ Script[4] = Write("stop") /\ Script[5] = Write("clear")
  /\ Script[10] = Write("start") /\ Script[13] = Write("confirm")
  /\ Script[7] = Download /\ Script[11] = Bootup
  BY DEF Script

LEMMA KindOfStep ==
  ASSUME Counts, NEW kinds, At(kinds)
  PROVE  /\ Running /\ step \in 1 .. 13
         /\ step \in {1, 9} => "read" \in kinds
         /\ step = 2 => "wait" \in kinds
         /\ step \in {6, 8} => "must" \in kinds
         /\ step \in {3, 12} => "send" \in kinds
         /\ step \in {4, 5, 10, 13} => "write" \in kinds
         /\ step = 7 => "download" \in kinds
         /\ step = 11 => "bootup" \in kinds
<1>1. Len(Script) = 13
  BY ScriptSteps
<1>2. Running /\ step <= 13 /\ Script[step].kind \in kinds
  BY <1>1 DEF At
<1>3. step \in 1 .. 13
  BY <1>2 DEF Counts
<1>. QED
  BY <1>2, <1>3, ScriptSteps DEF Read, Wait, Nmt, Write, Download, Bootup

LEMMA RequestOfStep ==
  ASSUME Counts
  PROVE  /\ step \in {1, 9} => Request = "swid"
         /\ step \in {2, 6, 8} => Request = "status"
         /\ step = 4 => Request = "stop"
         /\ step = 5 => Request = "clear"
         /\ step = 10 => Request = "start"
         /\ step = 13 => Request = "confirm"
         /\ step = 7 => Request = IF left = 0 THEN "end" ELSE "data"
<1>1. CASE step = 7
  <2>1. Script[7].kind = "download" /\ Script[7].req = "data"
    BY ScriptSteps DEF Download
  <2>. QED
    BY <1>1, <2>1 DEF Request
<1>2. CASE step # 7
  <2>1. step \in {1, 9} => Script[step].kind = "read" /\ Script[step].req = "swid"
    BY ScriptSteps DEF Read
  <2>2. step \in {2, 6, 8} => Script[step].kind # "download" /\ Script[step].req = "status"
    BY ScriptSteps DEF Wait
  <2>3. /\ step = 4 => Script[step].kind = "write" /\ Script[step].req = "stop"
        /\ step = 5 => Script[step].kind = "write" /\ Script[step].req = "clear"
        /\ step = 10 => Script[step].kind = "write" /\ Script[step].req = "start"
        /\ step = 13 => Script[step].kind = "write" /\ Script[step].req = "confirm"
    BY ScriptSteps DEF Write
  <2>. QED
    BY <1>2, <2>1, <2>2, <2>3 DEF Request
<1>. QED
  BY <1>1, <1>2

-----------------------------------------------------------------------------
(* The tool takes the next answer.                                          *)
LEMMA TakeChannels ==
  ASSUME Channels, ChangesLast,
         answers # << >>, answers' = Tail(answers), requests' = requests
  PROVE  /\ Channels' /\ ChangesLast'
         /\ Coming' = Coming /\ Returning' \subseteq Returning
         /\ Head(answers) \in Replies /\ Head(answers) \in Returning
         /\ Head(answers).to \in ChangedObjects =>
              requests = << >> /\ Coming' = {} /\ Returning' = {}
<1>1. /\ Head(answers) = answers[1] /\ 1 \in 1 .. Len(answers) /\ Head(answers) \in Replies
      /\ answers' \in Seq(Replies) /\ Len(answers') = Len(answers) - 1
      /\ \A i \in 1 .. Len(answers) - 1 : answers'[i] = answers[i + 1]
  BY FirstAndRest DEF Channels
<1>2. \A i \in 1 .. Len(answers') : i + 1 \in 1 .. Len(answers) /\ answers'[i] = answers[i + 1]
  BY <1>1 DEF Channels
<1>3. Channels'
  BY <1>1 DEF Channels
<1>4. ChangesLast'
  <2>1. ASSUME NEW i \in 1 .. Len(answers'), answers'[i].to \in ChangedObjects
        PROVE  i = Len(answers') /\ requests = << >>
    <3>1. i + 1 = Len(answers) /\ requests = << >>
      BY <1>2, <2>1 DEF ChangesLast
    <3>2. Len(answers) \in Nat /\ Len(answers') = Len(answers) - 1
      BY <1>1 DEF Channels
    <3>. QED
      BY <3>1, <3>2
  <2>. QED
    BY <2>1 DEF ChangesLast
<1>5. Coming' = Coming /\ Returning' \subseteq Returning /\ Head(answers) \in Returning
  BY <1>1, <1>2 DEF Coming, Returning
<1>6. ASSUME Head(answers).to \in ChangedObjects
      PROVE  requests = << >> /\ Coming' = {} /\ Returning' = {}
  <2>1. 1 = Len(answers) /\ requests = << >>
    BY <1>1, <1>6 DEF ChangesLast
  <2>2. Len(answers') = 0
    BY <1>1, <2>1
  <2>3. Returning' = {}
    BY <2>2 DEF Returning
  <2>4. Coming' = {}
    BY <2>1 DEF Coming
  <2>. QED
    BY <2>1, <2>3, <2>4
<1>. QED
  BY <1>1, <1>3, <1>4, <1>5, <1>6

(* A request is sent while no other change is on its way.                   *)
LEMMA AskChannels ==
  ASSUME Channels, ChangesLast,
         NEW r \in Requests, NEW k \in 0 .. Len(answers),
         \A c \in Coming : c \notin Changing,
         \A a \in Returning : a.to \notin ChangedObjects,
         requests' = Transmit(requests, r),
         answers' = SubSeq(answers, k + 1, Len(answers))
  PROVE  /\ Channels' /\ ChangesLast'
         /\ Coming' \subseteq Coming \cup {r} /\ Returning' \subseteq Returning
<1>1. /\ answers' \in Seq(Replies)
      /\ \A i \in 1 .. Len(answers') : i + k \in 1 .. Len(answers) /\ answers'[i] = answers[i + k]
  BY RestOf DEF Channels
<1>2. /\ requests' \in Seq(Requests)
      /\ \/ requests' = requests
         \/ /\ Len(requests') = Len(requests) + 1
            /\ requests'[Len(requests) + 1] = r
            /\ \A i \in 1 .. Len(requests) : requests'[i] = requests[i]
  <2>1. requests \in Seq(Requests)
    BY DEF Channels
  <2>2. /\ Transmit(requests, r) \in Seq(Requests)
        /\ \/ Transmit(requests, r) = requests
           \/ /\ Len(Transmit(requests, r)) = Len(requests) + 1
              /\ Transmit(requests, r)[Len(requests) + 1] = r
              /\ \A i \in 1 .. Len(requests) : Transmit(requests, r)[i] = requests[i]
    BY <2>1 DEF Transmit
  <2>. QED
    BY <2>2
<1>3. /\ \A i \in 1 .. Len(requests) : requests[i] \in Coming
      /\ \A i \in 1 .. Len(answers) : answers[i] \in Returning
  BY DEF Coming, Returning
<1>4. Returning' \subseteq Returning
  BY <1>1 DEF Returning
<1>5. \A i \in 1 .. Len(requests') :
        requests'[i] \in Coming \/ (requests'[i] = r /\ i = Len(requests'))
  BY <1>2, <1>3 DEF Channels
<1>6. Coming' \subseteq Coming \cup {r}
  BY <1>5 DEF Coming
<1>7. ChangesLast'
  BY <1>1, <1>3, <1>5 DEF ChangesLast
<1>. QED
  BY <1>1, <1>2, <1>4, <1>6, <1>7 DEF Channels

(* The device handles a request and answers.                                *)
LEMMA HandleChannels ==
  ASSUME Channels, ChangesLast, requests # << >>, NEW a \in Replies,
         a.to \in ChangedObjects <=> Head(requests) \in Changing,
         answers' = Transmit(answers, a), requests' = Tail(requests)
  PROVE  /\ Channels' /\ ChangesLast'
         /\ Head(requests) \in Coming /\ Coming' \subseteq Coming
         /\ Returning' \subseteq Returning \cup {a}
         /\ Head(requests) \in Changing => requests' = << >> /\ Coming' = {}
         /\ \A b \in Returning : b.to \notin ChangedObjects
<1>1. /\ Head(requests) = requests[1] /\ 1 \in 1 .. Len(requests)
      /\ requests' \in Seq(Requests) /\ Len(requests') = Len(requests) - 1
      /\ \A i \in 1 .. Len(requests) - 1 : requests'[i] = requests[i + 1]
  BY FirstAndRest DEF Channels
<1>2. /\ answers' \in Seq(Replies)
      /\ \/ answers' = answers
         \/ /\ Len(answers') = Len(answers) + 1
            /\ answers'[Len(answers) + 1] = a
            /\ \A i \in 1 .. Len(answers) : answers'[i] = answers[i]
  <2>1. answers \in Seq(Replies)
    BY DEF Channels
  <2>2. /\ Transmit(answers, a) \in Seq(Replies)
        /\ \/ Transmit(answers, a) = answers
           \/ /\ Len(Transmit(answers, a)) = Len(answers) + 1
              /\ Transmit(answers, a)[Len(answers) + 1] = a
              /\ \A i \in 1 .. Len(answers) : Transmit(answers, a)[i] = answers[i]
    BY <2>1 DEF Transmit
  <2>. QED
    BY <2>2
<1>3. \A i \in 1 .. Len(requests') : i + 1 \in 1 .. Len(requests) /\ requests'[i] = requests[i + 1]
  BY <1>1 DEF Channels
<1>4. Head(requests) \in Coming /\ Coming' \subseteq Coming
  BY <1>1, <1>3 DEF Coming
<1>5. \A i \in 1 .. Len(answers) : answers[i].to \notin ChangedObjects
  BY DEF ChangesLast
<1>6. \A i \in 1 .. Len(answers') :
        (\E j \in 1 .. Len(answers) : answers'[i] = answers[j])
          \/ (answers'[i] = a /\ i = Len(answers'))
  BY <1>2 DEF Channels
<1>7. Returning' \subseteq Returning \cup {a}
  BY <1>6 DEF Returning
<1>8. Head(requests) \in Changing => requests' = << >> /\ Coming' = {}
  <2>1. Head(requests) \in Changing => 1 = Len(requests)
    BY <1>1 DEF ChangesLast
  <2>2. Head(requests) \in Changing => Len(requests') = 0
    BY <1>1, <2>1
  <2>. QED
    BY <1>1, <2>2 DEF Coming
<1>9. ChangesLast'
  <2>1. ASSUME NEW i \in 1 .. Len(requests'), requests'[i] \in Changing
        PROVE  i = Len(requests')
    <3>1. i + 1 = Len(requests)
      BY <1>3, <2>1 DEF ChangesLast
    <3>2. Len(requests) \in Nat /\ Len(requests') = Len(requests) - 1
      BY <1>1 DEF Channels
    <3>. QED
      BY <3>1, <3>2
  <2>2. \A i \in 1 .. Len(answers') :
          answers'[i].to \in ChangedObjects => i = Len(answers') /\ requests' = << >>
    BY <1>5, <1>6, <1>8
  <2>. QED
    BY <2>1, <2>2 DEF ChangesLast
<1>10. \A b \in Returning : b.to \notin ChangedObjects
  BY <1>5 DEF Returning
<1>. QED
  BY <1>1, <1>2, <1>4, <1>7, <1>8, <1>9, <1>10 DEF Channels

(* A request is lost.  (A lost answer is one taken by nobody.)              *)
LEMMA LoseChannels ==
  ASSUME Channels, ChangesLast,
         requests # << >>, requests' = Tail(requests), answers' = answers
  PROVE  /\ Channels' /\ ChangesLast'
         /\ Coming' \subseteq Coming /\ Returning' = Returning
<1>1. /\ requests' \in Seq(Requests) /\ Len(requests') = Len(requests) - 1
      /\ \A i \in 1 .. Len(requests) - 1 : requests'[i] = requests[i + 1]
  BY FirstAndRest DEF Channels
<1>2. \A i \in 1 .. Len(requests') :
        i + 1 \in 1 .. Len(requests) /\ requests'[i] = requests[i + 1]
  BY <1>1 DEF Channels
<1>3. ASSUME NEW i \in 1 .. Len(requests'), requests'[i] \in Changing
      PROVE  i = Len(requests')
  <2>1. i + 1 = Len(requests)
    BY <1>2, <1>3 DEF ChangesLast
  <2>2. Len(requests) \in Nat /\ Len(requests') = Len(requests) - 1
    BY <1>1 DEF Channels
  <2>. QED
    BY <2>1, <2>2
<1>4. \A i \in 1 .. Len(answers) : answers[i].to \notin ChangedObjects
  BY DEF ChangesLast
<1>5. ChangesLast'
  BY <1>3, <1>4 DEF ChangesLast
<1>. QED
  BY <1>1, <1>2, <1>5 DEF Channels, Coming, Returning

(* Only an acknowledgement of a change is one.                              *)
LEMMA ReturningReplies ==
  ASSUME Channels
  PROVE  /\ Returning \subseteq Replies
         /\ \A a \in Returning : a.what = "ack" => a.to \in ChangedObjects
         /\ \A a \in Returning : a.what \in {"ok", "busy", "error"} => a.to = "status"
<1>1. Returning \subseteq Replies
  BY DEF Channels, Returning
<1>2. \A a \in Replies : /\ a.what = "ack" => a.to \in ChangedObjects
                         /\ a.what \in {"ok", "busy", "error"} => a.to = "status"
  BY DEF Replies, ChangedObjects
<1>. QED
  BY <1>1, <1>2

LEMMA EmptyChannel ==
  /\ requests = << >> => Coming = {}
  /\ answers = << >> => Returning = {}
  BY DEF Coming, Returning

LEMMA ObjectChanges ==
  ASSUME NEW r \in Requests
  PROVE  r \in Changing <=> Object(r) \in ChangedObjects
  BY DEF Requests, Changing, Control, Object, ChangedObjects

(* The answer to the request the tool has sent.                             *)
LEMMA AnswerTaken ==
  ASSUME Types, Channels, ChangesLast, NEW what, Answered(what), requests' = requests
  PROVE  /\ Channels' /\ ChangesLast' /\ Coming' = Coming /\ Returning' \subseteq Returning
         /\ asked \in Requests
         /\ \E a \in Returning : a.what = what
         /\ asked \in Changing => requests = << >> /\ Coming' = {} /\ Returning' = {}
<1>1. /\ asked \in Requests /\ answers # << >> /\ answers' = Tail(answers)
      /\ Head(answers).to = Object(asked) /\ Head(answers).what = what
  BY DEF Answered, Types
<1>2. /\ Channels' /\ ChangesLast' /\ Coming' = Coming /\ Returning' \subseteq Returning
      /\ Head(answers) \in Returning
      /\ Head(answers).to \in ChangedObjects =>
           requests = << >> /\ Coming' = {} /\ Returning' = {}
  BY <1>1, TakeChannels
<1>. QED
  BY <1>1, <1>2, ObjectChanges

LEMMA AnswerRaises ==
  ASSUME Channels, ChangesLast, Raises, requests' = requests
  PROVE  /\ Channels' /\ ChangesLast' /\ Coming' = Coming /\ Returning' \subseteq Returning
         /\ asked \notin {Nothing, "give up"}
<1>1. CASE UNCHANGED answers
  BY <1>1 DEF Raises, Channels, ChangesLast, Coming, Returning
<1>2. CASE answers # << >> /\ answers' = Tail(answers)
  BY <1>2, TakeChannels DEF Raises
<1>. QED
  BY <1>1, <1>2 DEF Raises

-----------------------------------------------------------------------------
(* In a step that changes nothing no change is on its way.                  *)
LEMMA NoChange ==
  ASSUME IInv, Running, step \notin {4, 5, 7, 10, 13} \/ asked \notin Changing
  PROVE  /\ asked \notin Changing
         /\ \A r \in Coming : r \notin Changing
         /\ \A a \in Returning : a.to \notin ChangedObjects
         /\ ~ Acked
<1>1. asked \notin Changing
  BY DEF IInv, Order, AskedInStep, Changing, Control
<1>2. /\ \A r \in Coming : r \notin Changing
      /\ \A a \in Returning : a.to \notin ChangedObjects
  BY <1>1 DEF IInv, Order, OwnChange
<1>3. ~ Acked
  BY <1>2, ReturningReplies DEF Acked, IInv
<1>. QED
  BY <1>1, <1>2, <1>3

(* The update ends without success: only a command still on its way has to  *)
(* find the device prepared.                                                *)
LEMMA StopIInv ==
  ASSUME IInv, result' \in {"failed", "cancelled"}, asked' \in {asked, Nothing},
         UNCHANGED <<step, left, requests, deviceVars>>,
         Channels', ChangesLast', Coming' = Coming
  PROVE  IInv'
<1>1. Counts' /\ Types'
  BY DEF IInv, Counts, Types, deviceVars
<1>2. Order'
  BY DEF Order, OwnChange, AskedInStep, Running
<1>3. Device1'
  BY DEF IInv, Device1, Prepared, DeviceAtStep, Ended, Running, deviceVars
<1>4. Confirms'
  BY DEF Confirms, Running
<1>. QED
  BY <1>1, <1>2, <1>3, <1>4 DEF IInv

(* The next step is begun with nothing of the last one on its way.          *)
LEMMA NextStepIInv ==
  ASSUME IInv, Running, step \in 1 .. 13, NextStep,
         UNCHANGED <<left, result, requests, deviceVars>>,
         Channels', ChangesLast', Coming' = Coming, Returning' \subseteq Returning,
         step \in {4, 5, 7, 10, 13} =>
           asked \in Changing /\ Acked /\ requests = << >> /\ Returning' = {},
         step = 7 => asked = "end",
         step \in {6, 8} => flash = "ok"
  PROVE  IInv'
<1>1. /\ \A r \in Coming' : r \notin Changing
      /\ \A a \in Returning' : a.to \notin ChangedObjects
  <2>1. CASE step \in {4, 5, 7, 10, 13}
    BY <2>1, EmptyChannel
  <2>2. CASE step \notin {4, 5, 7, 10, 13}
    BY <2>2, NoChange
  <2>. QED
    BY <2>1, <2>2
<1>2. ~ Acked'
  <2>1. \A a \in Returning' : a.what = "ack" => a.to \in ChangedObjects
    BY ReturningReplies DEF IInv
  <2>. QED
    BY <1>1, <2>1 DEF Acked
<1>3. /\ step' = step + 1 /\ asked' = Nothing /\ sent' = 0
      /\ Running' /\ result' = result /\ left' = left /\ requests' = requests
      /\ program' = program /\ memory' = memory /\ flash' = flash /\ got' = got
      /\ confirmed' = confirmed
  BY DEF NextStep, deviceVars, Running
<1>4. Counts'
  BY <1>3 DEF IInv, Counts
<1>5. Types'
  BY <1>3 DEF IInv, Types
<1>6. Order'
  BY <1>1, <1>3 DEF Order, OwnChange, AskedInStep, Nothing
<1>7. Prepared'
  BY <1>3 DEF IInv, Device1, Prepared
<1>8. Ended'
  BY <1>3 DEF Ended, Running
<1>9. DeviceAtStep'
  <2>1. "data" \notin Coming'
    BY <1>1 DEF Changing
  <2>2. CASE step \in {1, 2, 3}
    BY <1>2, <1>3, <2>2 DEF IInv, Device1, DeviceAtStep
  <2>3. CASE step \in {4, 5}
    BY <1>2, <1>3, <2>3 DEF IInv, Device1, DeviceAtStep
  <2>4. CASE step = 6
    BY <1>2, <1>3, <2>4 DEF IInv, Device1, DeviceAtStep, Prepared, Nothing, Counts
  <2>5. CASE step = 7
    BY <1>2, <1>3, <2>5 DEF IInv, Device1, DeviceAtStep
  <2>6. CASE step \in {8, 9, 10}
    BY <1>2, <1>3, <2>6 DEF IInv, Device1, DeviceAtStep
  <2>7. CASE step \in {11, 12, 13}
    BY <1>2, <1>3, <2>7 DEF IInv, Device1, DeviceAtStep
  <2>. QED
    BY <2>2, <2>3, <2>4, <2>5, <2>6, <2>7
<1>10. Confirms'
  <2>1. step = 13 => confirmed
    BY DEF IInv, Confirms
  <2>2. result # "success"
    BY DEF Running
  <2>3. step' = 14 => step = 13
    BY <1>3
  <2>. QED
    BY <1>2, <1>3, <2>1, <2>2, <2>3 DEF Confirms
<1>. QED
  BY <1>4, <1>5, <1>6, <1>7, <1>8, <1>9, <1>10 DEF IInv, Device1

-----------------------------------------------------------------------------
(* Everything is as an update needs it to begin.                            *)
LEMMA BeginIInv == IInv /\ Begin => IInv'
<1>. SUFFICES ASSUME IInv, Begin PROVE IInv'
  OBVIOUS
<1>1. requests = << >> /\ answers = << >>
  BY DEF Begin, IInv, Device1, Ended
<1>2. Coming' = {} /\ Returning' = {} /\ requests' = << >> /\ answers' = << >>
  BY <1>1, EmptyChannel DEF Begin, Coming, Returning
<1>3. /\ step' = 1 /\ asked' = Nothing /\ sent' = 0 /\ left' = Parts
      /\ result' = "running" /\ UNCHANGED <<program, memory, flash, got, confirmed>>
  BY DEF Begin, deviceVars
<1>4. Counts'
  BY <1>3, FirmwareAssumption DEF IInv, Counts
<1>5. Types' /\ Channels'
  <2>1. Types'
    BY <1>3 DEF IInv, Types
  <2>2. Channels'
    BY <1>2 DEF Channels
  <2>. QED
    BY <2>1, <2>2
<1>6. Order'
  BY <1>2, <1>3 DEF Order, ChangesLast, OwnChange, AskedInStep, Nothing
<1>7. Prepared' /\ Ended'
  BY <1>2, <1>3 DEF IInv, Device1, Prepared, Ended
<1>8. ~ Acked'
  BY <1>2 DEF Acked
<1>9. DeviceAtStep'
  BY <1>2, <1>3, <1>8 DEF DeviceAtStep
<1>10. Confirms'
  BY <1>3, <1>8 DEF Confirms
<1>. QED
  BY <1>4, <1>5, <1>6, <1>7, <1>9, <1>10 DEF IInv, Device1

(* A request is sent, which only happens with nothing else asked.           *)
LEMMA AskIInv ==
  ASSUME Attempts = 1, IInv, Ask
  PROVE  IInv'
<1>1. /\ At({"read", "wait", "must", "write", "download"})
      /\ asked # "give up" /\ sent < 1
      /\ asked' = Request /\ sent' = sent + 1
      /\ requests' = Transmit(requests, Request)
  <2>1. sent < IF asked = "data" THEN 1 ELSE Attempts
    BY DEF Ask, AskUpTo
  <2>. QED
    BY <2>1 DEF Ask, AskUpTo
<1>0. /\ step' = step /\ left' = left /\ result' = result /\ program' = program
      /\ memory' = memory /\ flash' = flash /\ got' = got /\ confirmed' = confirmed
  BY DEF Ask, AskUpTo, deviceVars
<1>2. PICK k \in 0 .. Len(answers) : answers' = SubSeq(answers, k + 1, Len(answers))
  <2>1. \E k \in 0 .. (IF sent = 0 THEN Len(answers) ELSE 0) :
          answers' = SubSeq(answers, k + 1, Len(answers))
    BY DEF Ask, AskUpTo
  <2>2. Len(answers) \in Nat
    BY DEF IInv, Channels
  <2>. QED
    BY <2>1, <2>2
<1>3. Running /\ step \in 1 .. 13 /\ step \notin {3, 11, 12}
  <2>1. /\ Running /\ step \in 1 .. 13
        /\ step \in {3, 12} => "send" \in {"read", "wait", "must", "write", "download"}
        /\ step = 11 => "bootup" \in {"read", "wait", "must", "write", "download"}
    BY <1>1, KindOfStep DEF IInv
  <2>. QED
    BY <2>1
<1>4. asked = Nothing /\ sent = 0
  <2>1. sent = IF asked \in {Nothing, "give up"} THEN 0 ELSE 1
    BY <1>3 DEF IInv, Order, AskedInStep
  <2>2. asked # "give up"
    BY <1>1
  <2>3. sent < 1
    BY <1>1
  <2>4. sent # 1
    BY <2>3
  <2>5. asked \in {Nothing, "give up"}
    BY <2>1, <2>4
  <2>. QED
    BY <2>1, <2>2, <2>5
<1>5. /\ \A r \in Coming : r \notin Changing
      /\ \A a \in Returning : a.to \notin ChangedObjects
      /\ ~ Acked
  BY <1>3, <1>4, NoChange DEF Changing, Control, Nothing
<1>6. /\ step \in {1, 9} => Request = "swid"
      /\ step \in {2, 6, 8} => Request = "status"
      /\ step = 4 => Request = "stop"
      /\ step = 5 => Request = "clear"
      /\ step = 10 => Request = "start"
      /\ step = 13 => Request = "confirm"
      /\ step = 7 => Request = IF left = 0 THEN "end" ELSE "data"
  BY RequestOfStep DEF IInv
<1>7. Request \in Requests
  BY <1>3, <1>6 DEF Requests, Changing, Control
<1>8. /\ Channels' /\ ChangesLast'
      /\ Coming' \subseteq Coming \cup {Request} /\ Returning' \subseteq Returning
  BY <1>1, <1>2, <1>5, <1>7, AskChannels DEF IInv, Order
<1>9. ~ Acked' /\ \A a \in Returning' : a.to \notin ChangedObjects
  BY <1>5, <1>8 DEF Acked
<1>10. Counts'
  BY <1>0 DEF IInv, Counts
<1>11. Types'
  BY <1>0, <1>1, <1>7 DEF IInv, Types
<1>12. Order'
  <2>1. Running' /\ step' = step /\ left' = left /\ asked' = Request
    BY <1>0, <1>1, <1>3 DEF Running
  <2>2. OwnChange'
    BY <1>5, <1>8, <1>9, <2>1 DEF OwnChange
  <2>3. sent' = 1
    <3>1. sent = 0 /\ sent' = sent + 1
      BY <1>1, <1>4
    <3>. QED
      BY <3>1
  <2>4. asked' \notin {Nothing, "give up"}
    BY <1>1, <1>7 DEF Requests, Changing, Control, Nothing
  <2>5. /\ step = 7 => asked' = IF left = 0 THEN "end" ELSE "data"
        /\ asked' = "stop" => step = 4
        /\ asked' = "clear" => step = 5
        /\ asked' = "start" => step = 10
        /\ asked' = "confirm" => step = 13
        /\ asked' \in {"data", "end"} => step = 7
    BY <1>3, <1>6, <2>1
  <2>6. /\ asked' = "data" => step = 7 /\ left > 0
        /\ asked' = "end" => step = 7 /\ left = 0
    <3>1. left \in Nat
      BY FirmwareAssumption DEF IInv, Counts
    <3>. QED
      BY <2>5, <3>1
  <2>7. AskedInStep'
    BY <2>1, <2>3, <2>4, <2>5, <2>6 DEF AskedInStep
  <2>. QED
    BY <1>8, <2>2, <2>7 DEF Order
<1>13. Prepared'
  <2>1. ASSUME "clear" \in Coming' PROVE program = "stopped"
    <3>1. Request = "clear"
      BY <1>5, <1>8, <2>1 DEF Changing, Control
    <3>2. step = 5
      BY <1>3, <1>6, <3>1
    <3>. QED
      BY <1>3, <3>2 DEF IInv, Device1, DeviceAtStep
  <2>2. ASSUME "start" \in Coming' PROVE memory = "new"
    <3>1. Request = "start"
      BY <1>5, <1>8, <2>2 DEF Changing, Control
    <3>2. step = 10
      BY <1>3, <1>6, <3>1
    <3>. QED
      BY <1>3, <3>2 DEF IInv, Device1, DeviceAtStep
  <2>3. ASSUME "data" \in Coming'
        PROVE  memory \in {"erased", "partial"} /\ flash = "ok" /\ got < Parts
    <3>1. Request = "data"
      BY <1>5, <1>8, <2>3 DEF Changing, Control
    <3>2. step = 7 /\ left # 0
      BY <1>3, <1>6, <3>1
    <3>3. flash = "ok" /\ memory \in {"erased", "partial"} /\ got = Parts - left
      BY <1>3, <1>4, <3>2 DEF IInv, Device1, DeviceAtStep, Nothing
    <3>4. left \in 0 .. Parts
      BY DEF IInv, Counts
    <3>5. got < Parts
      BY <3>2, <3>3, <3>4, FirmwareAssumption
    <3>. QED
      BY <3>3, <3>5
  <2>. QED
    BY <1>0, <2>1, <2>2, <2>3 DEF Prepared, IInv, Device1
<1>14. DeviceAtStep'
  <2>1. Running' /\ asked' = Request
    BY <1>0, <1>1, <1>3 DEF Running
  <2>2. CASE step # 7
    <3>1. asked' \notin {"data", "end"}
      BY <1>3, <1>6, <2>1, <2>2
    <3>. QED
      BY <1>0, <1>3, <1>8, <1>9, <2>1, <2>2, <3>1 DEF IInv, Device1, DeviceAtStep
  <2>3. CASE step = 7
    <3>1. flash = "ok" /\ memory = (IF got = 0 THEN "erased" ELSE "partial")
          /\ got = Parts - left
      BY <1>3, <1>4, <2>3 DEF IInv, Device1, DeviceAtStep, Nothing
    <3>2. asked' = IF left = 0 THEN "end" ELSE "data"
      BY <1>6, <2>1, <2>3
    <3>3. Parts \in Nat \ {0} /\ left \in 0 .. Parts
      BY FirmwareAssumption DEF IInv, Counts
    <3>4. left = 0 => got = Parts /\ memory = "partial"
      BY <3>1, <3>3
    <3>5. program = "stopped"
      BY <1>3, <2>3 DEF IInv, Device1, DeviceAtStep
    <3>6. asked' \in {"data", "end"} /\ (asked' = "end" => got = Parts /\ memory = "partial")
      BY <3>2, <3>4
    <3>. QED
      BY <1>0, <1>9, <2>1, <2>3, <3>1, <3>5, <3>6 DEF DeviceAtStep
  <2>. QED
    BY <2>2, <2>3
<1>15. Ended'
  BY <1>0, <1>3 DEF Ended, Running
<1>16. Confirms'
  BY <1>0, <1>3, <1>9 DEF IInv, Confirms, Running
<1>. QED
  BY <1>8, <1>10, <1>11, <1>12, <1>13, <1>14, <1>15, <1>16 DEF IInv, Device1

-----------------------------------------------------------------------------
(* try: read the software id; except: go on                                 *)
LEMMA ReadIInv ==
  ASSUME IInv, ReadSwid
  PROVE  IInv'
<1>1. Running /\ step \in {1, 9}
  BY KindOfStep DEF ReadSwid, IInv
<1>2. /\ NextStep /\ UNCHANGED <<left, result, requests, deviceVars>>
      /\ Answered("swid") \/ Raises
  BY DEF ReadSwid
<1>3. Channels' /\ ChangesLast' /\ Coming' = Coming /\ Returning' \subseteq Returning
  BY <1>2, AnswerTaken, AnswerRaises DEF IInv, Order
<1>. QED
  BY <1>1, <1>2, <1>3, NextStepIInv

(* One round of wait_for_flash_status_ok without "ok".                      *)
LEMMA StatusReadIInv ==
  ASSUME IInv, StatusRead
  PROVE  IInv'
<1>1. Running /\ step \in {2, 6, 8}
  <2>1. At({"wait", "must"})
    BY DEF StatusRead, StatusReadThen
  <2>. QED
    BY <2>1, KindOfStep DEF IInv
<1>0. asked' \in {Nothing, "give up"} /\ sent' = 0
  BY DEF StatusRead, StatusReadThen
<1>2. /\ step' = step /\ left' = left /\ result' = result /\ requests' = requests
      /\ program' = program /\ memory' = memory /\ flash' = flash /\ got' = got
      /\ confirmed' = confirmed
  BY DEF StatusRead, StatusReadThen, deviceVars
<1>3. Channels' /\ ChangesLast' /\ Coming' = Coming /\ Returning' \subseteq Returning
  <2>1. Answered("busy") \/ Answered("error") \/ Raises
    BY DEF StatusRead, StatusReadThen
  <2>. QED
    BY <1>2, <2>1, AnswerTaken, AnswerRaises DEF IInv, Order
<1>4. /\ \A r \in Coming' : r \notin Changing
      /\ \A a \in Returning' : a.to \notin ChangedObjects
      /\ ~ Acked'
  BY <1>1, <1>3, NoChange DEF Acked
<1>5. Counts'
  BY <1>2 DEF IInv, Counts
<1>6. Types'
  BY <1>0, <1>2 DEF IInv, Types
<1>7. Order'
  <2>1. AskedInStep'
    BY <1>0, <1>1, <1>2 DEF AskedInStep, Nothing
  <2>. QED
    BY <1>3, <1>4, <2>1 DEF Order, OwnChange
<1>8. Prepared'
  BY <1>2, <1>3 DEF IInv, Device1, Prepared
<1>9. DeviceAtStep'
  <2>1. CASE step = 2
    BY <1>1, <1>2, <2>1 DEF IInv, Device1, DeviceAtStep
  <2>2. CASE step = 6
    BY <1>1, <1>2, <1>3, <2>2 DEF IInv, Device1, DeviceAtStep
  <2>3. CASE step = 8
    BY <1>1, <1>2, <1>3, <2>3 DEF IInv, Device1, DeviceAtStep
  <2>. QED
    BY <1>1, <2>1, <2>2, <2>3
<1>10. result' # "success" /\ result' # "asking"
  BY <1>1, <1>2 DEF Running
<1>11. Ended' /\ Confirms'
  <2>1. Ended'
    BY <1>10 DEF Ended
  <2>2. step' # 13 /\ step' # 14
    BY <1>1, <1>2
  <2>. QED
    BY <1>10, <2>1, <2>2 DEF Confirms
<1>. QED
  BY <1>3, <1>5, <1>6, <1>7, <1>8, <1>9, <1>11 DEF IInv, Device1

(* "ok" in a step that waits for it is what the device has now.             *)
LEMMA StatusOkIInv ==
  ASSUME IInv, StatusOk
  PROVE  IInv'
<1>1. Running /\ step \in {2, 6, 8}
  BY KindOfStep DEF StatusOk, IInv
<1>2. NextStep /\ UNCHANGED <<left, result, requests, deviceVars>> /\ Answered("ok")
  BY DEF StatusOk
<1>3. /\ Channels' /\ ChangesLast' /\ Coming' = Coming /\ Returning' \subseteq Returning
      /\ \E a \in Returning : a.what = "ok"
  BY <1>2, AnswerTaken DEF IInv, Order
<1>4. step \in {6, 8} => flash = "ok"
  BY <1>1, <1>3 DEF IInv, Device1, DeviceAtStep
<1>. QED
  BY <1>1, <1>2, <1>3, <1>4, NextStepIInv

(* The time limit has passed.                                               *)
LEMMA StatusNotOkIInv ==
  ASSUME IInv, StatusNotOk
  PROVE  IInv'
<1>1. UNCHANGED <<requests, answers, deviceVars>>
  BY DEF StatusNotOk
<1>2. Channels' /\ ChangesLast' /\ Coming' = Coming /\ Returning' = Returning
  BY <1>1 DEF IInv, Order, Channels, ChangesLast, Coming, Returning
<1>3. CASE At({"wait"}) /\ NextStep /\ UNCHANGED <<left, result, online>>
  <2>1. Running /\ step = 2
    BY <1>3, KindOfStep DEF IInv
  <2>. QED
    BY <1>1, <1>2, <1>3, <2>1, NextStepIInv
<1>4. CASE At({"must"}) /\ Fails
  BY <1>1, <1>2, <1>4, StopIInv DEF Fails
<1>. QED
  BY <1>3, <1>4 DEF StatusNotOk

(* An acknowledgement is of the change that was asked for.                  *)
LEMMA AckTaken ==
  ASSUME IInv, Running, Answered("ack"), requests' = requests
  PROVE  /\ Channels' /\ ChangesLast' /\ Coming' = Coming /\ Returning' \subseteq Returning
         /\ asked \in Changing /\ Acked
         /\ requests = << >> /\ Coming' = {} /\ Returning' = {}
<1>1. /\ Channels' /\ ChangesLast' /\ Coming' = Coming /\ Returning' \subseteq Returning
      /\ \E a \in Returning : a.what = "ack"
      /\ asked \in Changing => requests = << >> /\ Coming' = {} /\ Returning' = {}
  BY AnswerTaken DEF IInv, Order
<1>2. Acked
  BY <1>1 DEF Acked
<1>3. asked \in Changing
  BY <1>2, NoChange
<1>. QED
  BY <1>1, <1>2, <1>3

(* ...raw = PROGRAM_CTRL_x returned.                                        *)
LEMMA WriteDoneIInv ==
  ASSUME IInv, WriteDone
  PROVE  IInv'
<1>1. Running /\ step \in {4, 5, 10, 13}
  BY KindOfStep DEF WriteDone, IInv
<1>2. NextStep /\ UNCHANGED <<left, result, requests, deviceVars>> /\ Answered("ack")
  BY DEF WriteDone
<1>3. /\ Channels' /\ ChangesLast' /\ Coming' = Coming /\ Returning' \subseteq Returning
      /\ asked \in Changing /\ Acked /\ requests = << >> /\ Returning' = {}
  BY <1>1, <1>2, AckTaken
<1>. QED
  BY <1>1, <1>2, <1>3, NextStepIInv

(* A part, or the end, of the download was acknowledged.                    *)
LEMMA DownloadedIInv ==
  ASSUME IInv, Downloaded
  PROVE  IInv'
<1>1. Running /\ step = 7
  BY KindOfStep DEF Downloaded, IInv
<1>2. UNCHANGED <<result, requests, deviceVars>> /\ Answered("ack")
  BY DEF Downloaded
<1>3. /\ Channels' /\ ChangesLast' /\ Coming' = Coming /\ Returning' \subseteq Returning
      /\ asked \in Changing /\ Acked
      /\ requests = << >> /\ Coming' = {} /\ Returning' = {}
  BY <1>1, <1>2, AckTaken
<1>4. asked \in {"data", "end"} /\ (asked = "data" => left > 0) /\ (asked = "end" => left = 0)
  <2>1. asked \in {"stop", "clear", "start", "confirm", "data", "end"}
    BY <1>3 DEF Changing, Control
  <2>2. /\ asked = "stop" => step = 4
        /\ asked = "clear" => step = 5
        /\ asked = "data" => left > 0
        /\ asked = "end" => left = 0
        /\ asked = "start" => step = 10
        /\ asked = "confirm" => step = 13
    BY <1>1 DEF IInv, Order, AskedInStep
  <2>. QED
    BY <1>1, <2>1, <2>2
<1>5. CASE left = 0 /\ left' = left /\ NextStep
  <2>1. asked = "end"
    <3>1. ~ (left > 0)
      BY <1>5
    <3>. QED
      BY <1>4, <3>1
  <2>. QED
    BY <1>1, <1>2, <1>3, <1>5, <2>1, NextStepIInv
<1>6. CASE left > 0 /\ left' = left - 1 /\ asked' = Nothing /\ sent' = 0 /\ step' = step
  <2>1. asked = "data"
    <3>1. left # 0
      BY <1>6
    <3>. QED
      BY <1>4, <3>1
  <2>2. /\ result' = result /\ requests' = requests /\ Running'
        /\ program' = program /\ memory' = memory /\ flash' = flash /\ got' = got
        /\ confirmed' = confirmed
    BY <1>1, <1>2 DEF deviceVars, Running
  <2>3. ~ Acked'
    BY <1>3 DEF Acked
  <2>4. left \in 0 .. Parts /\ got \in 0 .. Parts /\ Parts \in Nat
    BY FirmwareAssumption DEF IInv, Counts
  <2>5. Counts'
    BY <1>1, <1>6, <2>2, <2>4 DEF Counts
  <2>6. Types'
    BY <1>6, <2>2 DEF IInv, Types
  <2>7. Order'
    <3>1. AskedInStep'
      BY <1>6 DEF AskedInStep, Nothing
    <3>. QED
      BY <1>3, <3>1 DEF Order, OwnChange
  <2>8. Prepared'
    BY <1>3, <2>2 DEF IInv, Device1, Prepared
  <2>9. got = Parts - left'
    <3>1. got = Parts - left + 1
      BY <1>1, <1>3, <2>1 DEF IInv, Device1, DeviceAtStep
    <3>2. left' = left - 1
      BY <1>6
    <3>. QED
      BY <2>4, <3>1, <3>2
  <2>10. DeviceAtStep'
    <3>1. /\ program = "stopped" /\ flash = "ok"
          /\ memory = IF got = 0 THEN "erased" ELSE "partial"
      BY <1>1, <2>1 DEF IInv, Device1, DeviceAtStep
    <3>2. step' = 7 /\ asked' \notin {"data", "end"}
      BY <1>1, <1>6 DEF Nothing
    <3>. QED
      BY <2>2, <2>9, <3>1, <3>2 DEF DeviceAtStep
  <2>11. Ended'
    BY <1>1, <2>2 DEF Ended, Running
  <2>12. Confirms'
    BY <1>1, <1>6, <2>2 DEF Confirms, Running
  <2>. QED
    BY <1>3, <2>5, <2>6, <2>7, <2>8, <2>10, <2>11, <2>12 DEF IInv, Device1
<1>. QED
  BY <1>5, <1>6 DEF Downloaded

(* An exception ends the update.                                            *)
LEMMA RequestFailsIInv ==
  ASSUME IInv, RequestFails
  PROVE  IInv'
<1>1. Fails /\ Raises /\ UNCHANGED <<requests, deviceVars>>
  BY DEF RequestFails
<1>2. Channels' /\ ChangesLast' /\ Coming' = Coming
  BY <1>1, AnswerRaises DEF IInv, Order
<1>. QED
  BY <1>1, <1>2, StopIInv DEF Fails

(* NMT commands and the wait for the boot-up message.                       *)
LEMMA UnansweredIInv ==
  ASSUME IInv, Unanswered
  PROVE  IInv'
<1>1. UNCHANGED <<requests, answers, deviceVars>>
  BY DEF Unanswered
<1>2. Channels' /\ ChangesLast' /\ Coming' = Coming /\ Returning' = Returning
  BY <1>1 DEF IInv, Order, Channels, ChangesLast, Coming, Returning
<1>3. CASE At({"send", "bootup"}) /\ NextStep /\ UNCHANGED <<left, result, online>>
  <2>1. Running /\ step \in {3, 11, 12}
    BY <1>3, KindOfStep DEF IInv
  <2>. QED
    BY <1>1, <1>2, <1>3, <2>1, NextStepIInv
<1>4. CASE At({"send"}) /\ Fails
  BY <1>1, <1>2, <1>4, StopIInv DEF Fails
<1>. QED
  BY <1>3, <1>4 DEF Unanswered

(* "completed successfully"                                                 *)
LEMMA FinishIInv ==
  ASSUME IInv, Finish
  PROVE  IInv'
<1>1. Running /\ step = 14
  <2>1. Running /\ step > Len(Script)
    BY DEF Finish
  <2>2. Len(Script) = 13
    BY ScriptSteps
  <2>3. step > 13
    BY <2>1, <2>2
  <2>4. step = 14
    BY <2>3 DEF IInv, Counts
  <2>. QED
    BY <2>1, <2>4
<1>2. /\ result' = "success" /\ UNCHANGED <<step, asked, left, requests, answers>>
      /\ UNCHANGED <<program, memory, flash, got, confirmed>>
  BY DEF Finish, deviceVars
<1>3. Channels' /\ ChangesLast' /\ Coming' = Coming
  BY <1>2 DEF IInv, Order, Channels, ChangesLast, Coming
<1>4. Counts' /\ Types'
  BY <1>2 DEF IInv, Counts, Types
<1>5. Order'
  BY <1>2, <1>3 DEF Order, OwnChange, AskedInStep, Running
<1>6. Prepared'
  BY <1>2, <1>3 DEF IInv, Device1, Prepared
<1>7. DeviceAtStep'
  BY <1>2 DEF DeviceAtStep, Running
<1>8. Ended'
  <2>1. requests = << >> /\ program = "run" /\ memory = "new"
    BY <1>1 DEF IInv, Device1, DeviceAtStep
  <2>. QED
    BY <1>2, <2>1 DEF Ended
<1>9. Confirms'
  BY <1>1, <1>2 DEF IInv, Confirms, Running
<1>. QED
  BY <1>3, <1>4, <1>5, <1>6, <1>7, <1>8, <1>9 DEF IInv, Device1

-----------------------------------------------------------------------------
LEMMA InitIInv == Init => IInv
<1>. SUFFICES ASSUME Init PROVE IInv
  OBVIOUS
<1>1. /\ step = 1 /\ left = Parts /\ got = 0 /\ asked = Nothing /\ result = "asking"
      /\ requests = << >> /\ answers = << >>
      /\ program = "run" /\ memory = "old" /\ flash \in {"ok", "error"}
  BY DEF Init
<1>2. Coming = {} /\ Returning = {} /\ ~ Acked
  BY <1>1, EmptyChannel DEF Acked
<1>3. Counts
  BY <1>1, FirmwareAssumption DEF Counts
<1>4. Types
  BY <1>1 DEF Types
<1>5. Channels
  BY <1>1 DEF Channels
<1>6. Order
  BY <1>1 DEF Order, ChangesLast, OwnChange, AskedInStep, Running
<1>7. Device1
  BY <1>1, <1>2 DEF Device1, Prepared, DeviceAtStep, Ended, Running
<1>8. Confirms
  BY <1>1 DEF Confirms, Running
<1>. QED
  BY <1>3, <1>4, <1>5, <1>6, <1>7, <1>8 DEF IInv

(* The update is given up: not begun, or ended by Ctrl-C.                   *)
LEMMA GivenUpIInv ==
  ASSUME IInv, Cancel \/ Interrupted
  PROVE  IInv'
<1>1. /\ result' \in {"failed", "cancelled"} /\ asked' \in {asked, Nothing}
      /\ UNCHANGED <<step, left, requests, answers, deviceVars>>
  BY DEF Cancel, Interrupted
<1>2. Channels' /\ ChangesLast' /\ Coming' = Coming
  BY <1>1 DEF IInv, Order, Channels, ChangesLast, Coming
<1>. QED
  BY <1>1, <1>2, StopIInv

(* The network is closed; time goes on; or nothing happens.                 *)
LEMMA QuietIInv ==
  ASSUME IInv, Disconnect \/ TimePasses \/ UNCHANGED vars
  PROVE  IInv'
<1>1. UNCHANGED <<step, asked, sent, left, result, requests, answers, deviceVars>>
  BY DEF Disconnect, TimePasses, vars, toolVars
<1>2. Counts' /\ Types'
  BY <1>1 DEF IInv, Counts, Types, deviceVars
<1>3. Channels' /\ Order'
  BY <1>1 DEF IInv, Channels, Order, ChangesLast, OwnChange, AskedInStep, Running,
              Coming, Returning
<1>4. Device1'
  BY <1>1 DEF IInv, Device1, Prepared, DeviceAtStep, Ended, Running, Acked, Coming,
              Returning, deviceVars
<1>5. Confirms'
  BY <1>1 DEF IInv, Confirms, Running, Acked, Returning, deviceVars
<1>. QED
  BY <1>2, <1>3, <1>4, <1>5 DEF IInv

(* The tool and the device are as they were, and less is on its way.        *)
LEMMA LessInTransit ==
  ASSUME IInv, UNCHANGED <<toolVars, deviceVars>>,
         Channels', ChangesLast', Coming' \subseteq Coming, Returning' \subseteq Returning,
         requests = << >> => requests' = << >>,
         requests = << >> /\ answers = << >> => answers' = << >>
  PROVE  IInv'
<1>1. /\ step' = step /\ left' = left /\ asked' = asked /\ sent' = sent /\ result' = result
      /\ program' = program /\ memory' = memory /\ flash' = flash /\ got' = got
      /\ confirmed' = confirmed /\ (Running' <=> Running)
  BY DEF toolVars, deviceVars, Running
<1>2. Acked' => Acked
  BY DEF Acked
<1>3. Counts' /\ Types'
  BY <1>1 DEF IInv, Counts, Types
<1>4. Order'
  BY <1>1 DEF IInv, Order, OwnChange, AskedInStep
<1>5. Prepared' /\ Ended'
  BY <1>1 DEF IInv, Device1, Prepared, Ended
<1>6. DeviceAtStep'
  BY <1>1, <1>2 DEF IInv, Device1, DeviceAtStep
<1>7. Confirms'
  BY <1>1, <1>2 DEF IInv, Confirms
<1>. QED
  BY <1>3, <1>4, <1>5, <1>6, <1>7 DEF IInv, Device1

(* A request or an answer is lost.                                          *)
LEMMA LostIInv ==
  ASSUME IInv, Lost
  PROVE  IInv'
<1>1. UNCHANGED <<toolVars, deviceVars>>
  BY DEF Lost
<1>2. CASE requests # << >> /\ requests' = Tail(requests) /\ UNCHANGED answers
  <2>1. /\ Channels' /\ ChangesLast' /\ Coming' \subseteq Coming
        /\ Returning' = Returning
    BY <1>2, LoseChannels DEF IInv, Order
  <2>. QED
    BY <1>1, <1>2, <2>1, LessInTransit
<1>3. CASE answers # << >> /\ answers' = Tail(answers) /\ UNCHANGED requests
  <2>1. /\ Channels' /\ ChangesLast' /\ Coming' = Coming
        /\ Returning' \subseteq Returning
    BY <1>3, TakeChannels DEF IInv, Order
  <2>. QED
    BY <1>1, <1>3, <2>1, LessInTransit
<1>. QED
  BY <1>2, <1>3 DEF Lost

(* The device has erased its memory, or checked what was downloaded.        *)
LEMMA FlashIInv ==
  ASSUME IInv, FlashDone
  PROVE  IInv'
<1>1. /\ flash = "busy" /\ flash' \in {"ok", "error"}
      /\ flash' = "error" => memory' = memory
      /\ flash' = "ok" =>
           memory' = CASE memory = "erasing" -> "erased"
                       [] memory = "partial" /\ got = Parts -> "new"
                       [] OTHER -> memory
  BY DEF FlashDone
<1>2. /\ step' = step /\ left' = left /\ asked' = asked /\ sent' = sent /\ result' = result
      /\ requests' = requests /\ answers' = answers
      /\ program' = program /\ got' = got /\ confirmed' = confirmed /\ (Running' <=> Running)
  BY DEF FlashDone, toolVars, Running
<1>3. Coming' = Coming /\ Returning' = Returning /\ (Acked' <=> Acked)
  BY <1>2 DEF Coming, Returning, Acked
<1>4. /\ memory = "new" => memory' = "new"
      /\ memory \in {"erasing", "erased"} => memory' \in {"erasing", "erased"}
      /\ memory \in {"partial", "new"} => memory' \in {"partial", "new"}
      /\ memory' = "erasing" => flash' # "ok"
      /\ memory \in {"partial", "new"} /\ got = Parts /\ flash' = "ok" => memory' = "new"
      /\ memory' \in {memory, "erased", "new"}
  BY <1>1
<1>5. Counts'
  BY <1>2 DEF IInv, Counts
<1>6. Types'
  BY <1>1, <1>2, <1>4 DEF IInv, Types
<1>7. Channels' /\ Order'
  BY <1>2, <1>3 DEF IInv, Channels, Order, ChangesLast, OwnChange, AskedInStep
<1>8. Prepared' /\ Ended'
  BY <1>1, <1>2, <1>3, <1>4 DEF IInv, Device1, Prepared, Ended
<1>9. DeviceAtStep'
  <2>1. CASE step < 7
    BY <1>1, <1>2, <1>3, <1>4, <2>1 DEF IInv, Device1, DeviceAtStep
  <2>2. CASE step = 7
    BY <1>1, <1>2, <1>3, <1>4, <2>2 DEF IInv, Device1, DeviceAtStep
  <2>3. CASE step > 7
    BY <1>1, <1>2, <1>3, <1>4, <2>3 DEF IInv, Device1, DeviceAtStep
  <2>. QED
    BY <2>1, <2>2, <2>3 DEF IInv, Counts
<1>10. Confirms'
  BY <1>2, <1>3 DEF IInv, Confirms
<1>. QED
  BY <1>5, <1>6, <1>7, <1>8, <1>9, <1>10 DEF IInv, Device1

-----------------------------------------------------------------------------
(* The device refuses a request, or answers one that only reads.            *)
LEMMA AnswersOnlyIInv ==
  ASSUME IInv, requests # << >>, NEW a \in Replies,
         UNCHANGED <<toolVars, deviceVars>>,
         a.what # "ack", a.what = "ok" => flash = "ok",
         Channels', ChangesLast', Coming' \subseteq Coming,
         Returning' \subseteq Returning \cup {a},
         a.to \in ChangedObjects => Head(requests) \in Coming /\ Head(requests) \in Changing
  PROVE  IInv'
<1>1. /\ step' = step /\ left' = left /\ asked' = asked /\ sent' = sent /\ result' = result
      /\ program' = program /\ memory' = memory /\ flash' = flash /\ got' = got
      /\ confirmed' = confirmed /\ (Running' <=> Running)
  BY DEF toolVars, deviceVars, Running
<1>2. Acked' => Acked
  BY DEF Acked
<1>3. Counts' /\ Types'
  BY <1>1 DEF IInv, Counts, Types
<1>4. Order'
  <2>1. AskedInStep'
    BY <1>1 DEF IInv, Order, AskedInStep
  <2>2. OwnChange'
    BY <1>1 DEF IInv, Order, OwnChange
  <2>. QED
    BY <2>1, <2>2 DEF Order
<1>5. Prepared' /\ Ended'
  BY <1>1 DEF IInv, Device1, Prepared, Ended
<1>6. DeviceAtStep'
  <2>1. (\A b \in Returning : b.what = "ok" => flash = "ok")
          => (\A b \in Returning' : b.what = "ok" => flash' = "ok")
    BY <1>1
  <2>2. step # 14 \/ ~ Running
    BY DEF IInv, Device1, DeviceAtStep
  <2>. QED
    BY <1>1, <1>2, <2>1, <2>2 DEF IInv, Device1, DeviceAtStep
<1>7. Confirms'
  BY <1>1, <1>2 DEF IInv, Confirms
<1>. QED
  BY <1>3, <1>4, <1>5, <1>6, <1>7 DEF IInv, Device1

(* The device does what it was told, for which it was prepared.             *)
LEMMA PerformsIInv ==
  ASSUME IInv, requests # << >>, UNCHANGED toolVars,
         NEW r \in Changing, r \in Coming, Perform(r),
         Channels', ChangesLast', Coming' = {}, requests' = << >>,
         NEW a \in Replies, a.what = "ack",
         Returning' \subseteq Returning \cup {a},
         \A b \in Returning : b.to \notin ChangedObjects
  PROVE  IInv'
<1>1. /\ step' = step /\ left' = left /\ asked' = asked /\ sent' = sent /\ result' = result
      /\ (Running' <=> Running)
  BY DEF toolVars, Running
<1>2. \A b \in Returning' : b.what = "ok" => b \in Returning
  OBVIOUS
<1>3. Running => asked = r
  BY DEF IInv, Order, OwnChange
<1>4. result \notin {"asking", "success"} /\ (Running => step # 14)
  BY DEF IInv, Device1, Ended, DeviceAtStep
<1>5. Order'
  <2>1. AskedInStep'
    BY <1>1 DEF IInv, Order, AskedInStep
  <2>2. OwnChange'
    BY <1>1, <1>3 DEF IInv, Order, OwnChange
  <2>. QED
    BY <2>1, <2>2 DEF Order
<1>6. Ended'
  BY <1>1, <1>4 DEF Ended
<1>7. r \in {"stop", "clear", "start", "confirm", "data", "end"}
  BY DEF Changing, Control
<1>8. CASE r = "stop"
  <2>1. program' = "stopped" /\ UNCHANGED <<memory, flash, got, confirmed>>
    BY <1>8 DEF Perform
  <2>2. Running => step = 4
    BY <1>3, <1>8 DEF IInv, Order, AskedInStep
  <2>3. Counts' /\ Types'
    BY <1>1, <2>1 DEF IInv, Counts, Types
  <2>4. Prepared'
    BY <2>1 DEF IInv, Device1, Prepared
  <2>5. DeviceAtStep'
    BY <1>1, <2>1, <2>2 DEF IInv, Device1, DeviceAtStep
  <2>6. Confirms'
    BY <1>1, <1>4, <2>2 DEF Confirms
  <2>. QED
    BY <1>5, <1>6, <2>3, <2>4, <2>5, <2>6 DEF IInv, Device1
<1>9. CASE r = "clear"
  <2>1. /\ memory' = "erasing" /\ flash' = "busy" /\ got' = 0
        /\ program' = program
    BY <1>9 DEF Perform
  <2>2. Running => step = 5
    BY <1>3, <1>9 DEF IInv, Order, AskedInStep
  <2>3. Counts'
    BY <1>1, <2>1, FirmwareAssumption DEF IInv, Counts
  <2>4. Types'
    BY <1>1, <2>1 DEF IInv, Types
  <2>5. Prepared'
    BY <2>1 DEF Prepared
  <2>6. DeviceAtStep'
    BY <1>1, <2>1, <2>2 DEF IInv, Device1, DeviceAtStep
  <2>7. Confirms'
    BY <1>1, <1>4, <2>2 DEF Confirms
  <2>. QED
    BY <1>5, <1>6, <2>3, <2>4, <2>5, <2>6, <2>7 DEF IInv, Device1
<1>10. CASE r = "data"
  <2>1. /\ memory \in {"erased", "partial"} /\ flash = "ok" /\ got < Parts
    BY <1>10 DEF IInv, Device1, Prepared
  <2>2. /\ memory' = "partial" /\ got' = got + 1
        /\ program' = program /\ flash' = flash
    BY <1>10, <2>1 DEF Perform
  <2>3. Running => step = 7 /\ got = Parts - left /\ program = "stopped"
    BY <1>3, <1>10 DEF IInv, Order, AskedInStep, Device1, DeviceAtStep
  <2>4. got \in 0 .. Parts /\ left \in 0 .. Parts /\ Parts \in Nat
    BY FirmwareAssumption DEF IInv, Counts
  <2>5. got' \in 0 .. Parts /\ got' # 0 /\ (Running => got' = Parts - left + 1)
    BY <2>1, <2>2, <2>3, <2>4
  <2>6. Counts'
    BY <1>1, <2>5 DEF IInv, Counts
  <2>7. Types'
    BY <1>1, <2>2 DEF IInv, Types
  <2>8. Prepared'
    BY <2>2 DEF Prepared
  <2>9. DeviceAtStep'
    BY <1>1, <1>3, <1>10, <2>1, <2>2, <2>3, <2>5 DEF DeviceAtStep
  <2>10. Confirms'
    BY <1>1, <1>4, <2>3 DEF Confirms
  <2>. QED
    BY <1>5, <1>6, <2>6, <2>7, <2>8, <2>9, <2>10 DEF IInv, Device1
<1>11. CASE r = "end"
  <2>1. /\ flash' = "busy"
        /\ program' = program /\ memory' = memory /\ got' = got
    BY <1>11 DEF Perform
  <2>2. Running => step = 7 /\ asked = "end"
    BY <1>3, <1>11 DEF IInv, Order, AskedInStep
  <2>3. Counts' /\ Types'
    <3>1. Counts'
      BY <1>1, <2>1 DEF IInv, Counts
    <3>2. Types'
      BY <1>1, <2>1 DEF IInv, Types
    <3>. QED
      BY <3>1, <3>2
  <2>4. Prepared'
    BY <2>1 DEF Prepared
  <2>5. DeviceAtStep'
    BY <1>1, <2>1, <2>2 DEF IInv, Device1, DeviceAtStep
  <2>6. Confirms'
    BY <1>1, <1>4, <2>2 DEF Confirms
  <2>. QED
    BY <1>5, <1>6, <2>3, <2>4, <2>5, <2>6 DEF IInv, Device1
<1>12. CASE r = "start"
  <2>1. program' = "run" /\ memory' = memory /\ flash' = flash /\ got' = got
    BY <1>12 DEF Perform
  <2>2. Running => step = 10
    BY <1>3, <1>12 DEF IInv, Order, AskedInStep
  <2>3. Counts' /\ Types'
    <3>1. Counts'
      BY <1>1, <2>1 DEF IInv, Counts
    <3>2. Types'
      BY <1>1, <2>1 DEF IInv, Types
    <3>. QED
      BY <3>1, <3>2
  <2>4. Prepared'
    BY <2>1 DEF IInv, Device1, Prepared
  <2>5. DeviceAtStep'
    BY <1>1, <2>1, <2>2 DEF IInv, Device1, DeviceAtStep
  <2>6. Confirms'
    BY <1>1, <1>4, <2>2 DEF Confirms
  <2>. QED
    BY <1>5, <1>6, <2>3, <2>4, <2>5, <2>6 DEF IInv, Device1
<1>13. CASE r = "confirm"
  <2>1. /\ program' = program /\ memory' = memory /\ flash' = flash /\ got' = got
        /\ confirmed' = (program = "run")
    BY <1>13 DEF Perform
  <2>2. Running => step = 13 /\ program = "run"
    <3>1. Running => step = 13
      BY <1>3, <1>13 DEF IInv, Order, AskedInStep
    <3>2. Running /\ step = 13 => program = "run"
      BY DEF IInv, Device1, DeviceAtStep
    <3>. QED
      BY <3>1, <3>2
  <2>3. Counts' /\ Types'
    <3>1. Counts'
      BY <1>1, <2>1 DEF IInv, Counts
    <3>2. Types'
      BY <1>1, <2>1 DEF IInv, Types
    <3>. QED
      BY <3>1, <3>2
  <2>4. Prepared'
    BY <2>1 DEF IInv, Device1, Prepared
  <2>5. DeviceAtStep'
    BY <1>1, <2>1, <2>2 DEF IInv, Device1, DeviceAtStep
  <2>6. Confirms'
    BY <1>1, <1>4, <2>1, <2>2 DEF Confirms
  <2>. QED
    BY <1>5, <1>6, <2>3, <2>4, <2>5, <2>6 DEF IInv, Device1
<1>. QED
  BY <1>7, <1>8, <1>9, <1>10, <1>11, <1>12, <1>13

LEMMA HandlesIInv ==
  ASSUME IInv, DeviceHandles
  PROVE  IInv'
<1>. DEFINE r == Head(requests)
<1>1. requests # << >> /\ requests' = Tail(requests) /\ UNCHANGED toolVars
  BY DEF DeviceHandles
<1>2. r \in Requests
  BY <1>1, FirstAndRest DEF IInv, Channels
<1>3. r \in Changing <=> Object(r) \in ChangedObjects
  BY <1>2, ObjectChanges
<1>4. ASSUME NEW what, [to |-> Object(r), what |-> what] \in Replies,
             answers' = Transmit(answers, [to |-> Object(r), what |-> what])
      PROVE  /\ Channels' /\ ChangesLast' /\ r \in Coming /\ Coming' \subseteq Coming
             /\ Returning' \subseteq Returning \cup {[to |-> Object(r), what |-> what]}
             /\ r \in Changing => requests' = << >> /\ Coming' = {}
             /\ \A b \in Returning : b.to \notin ChangedObjects
  <2>. DEFINE a == [to |-> Object(r), what |-> what]
  <2>1. a \in Replies /\ (a.to \in ChangedObjects <=> r \in Changing)
    BY <1>3, <1>4
  <2>. HIDE DEF a
  <2>2. answers' = Transmit(answers, a)
    BY <1>4 DEF a
  <2>. QED
    BY <1>1, <2>1, <2>2, HandleChannels DEF IInv, Order, a
<1>5. CASE Perform(r) /\ answers' = Transmit(answers, [to |-> Object(r), what |-> AnswerTo(r)])
  <2>1. CASE r \in Changing
    <3>1. AnswerTo(r) = "ack"
      BY <2>1 DEF AnswerTo, Changing, Control
    <3>2. [to |-> Object(r), what |-> "ack"] \in Replies
      BY <1>3, <2>1 DEF Replies
    <3>. QED
      BY <1>1, <1>4, <1>5, <2>1, <3>1, <3>2, PerformsIInv
  <2>2. CASE r = "swid"
    <3>1. AnswerTo(r) = "swid" /\ Object(r) = "swid"
      BY <2>2 DEF AnswerTo, Object
    <3>2. [to |-> "swid", what |-> "swid"] \in Replies
      BY DEF Replies
    <3>3. UNCHANGED deviceVars
      BY <1>5, <2>2 DEF Perform
    <3>. QED
      BY <1>1, <1>3, <1>4, <1>5, <3>1, <3>2, <3>3, AnswersOnlyIInv
  <2>3. CASE r = "status"
    <3>1. AnswerTo(r) = flash /\ Object(r) = "status"
      BY <2>3 DEF AnswerTo, Object
    <3>2. flash \in {"ok", "busy", "error"}
      BY DEF IInv, Types
    <3>3. [to |-> "status", what |-> flash] \in Replies /\ flash # "ack"
      BY <3>2 DEF Replies
    <3>4. UNCHANGED deviceVars
      BY <1>5, <2>3 DEF Perform
    <3>. QED
      BY <1>1, <1>3, <1>4, <1>5, <3>1, <3>3, <3>4, AnswersOnlyIInv
  <2>. QED
    BY <1>2, <2>1, <2>2, <2>3 DEF Requests
<1>6. CASE answers' = Transmit(answers, [to |-> Object(r), what |-> "abort"])
             /\ UNCHANGED deviceVars
  <2>1. [to |-> Object(r), what |-> "abort"] \in Replies
    BY <1>2 DEF Replies, Requests, Changing, Control, Object, ChangedObjects
  <2>. QED
    BY <1>1, <1>3, <1>4, <1>6, <2>1, AnswersOnlyIInv
<1>. QED
  BY <1>5, <1>6 DEF DeviceHandles

-----------------------------------------------------------------------------
LEMMA NextIInv ==
  ASSUME Attempts = 1, IInv, [Next]_vars
  PROVE  IInv'
<1>1. CASE Begin
  BY <1>1, BeginIInv
<1>2. CASE Cancel \/ Interrupted
  BY <1>2, GivenUpIInv
<1>3. CASE ToolStep
  BY <1>3, AskIInv, ReadIInv, StatusReadIInv, StatusOkIInv, StatusNotOkIInv, WriteDoneIInv,
     DownloadedIInv, RequestFailsIInv, UnansweredIInv, FinishIInv, QuietIInv DEF ToolStep
<1>4. CASE TimePasses \/ UNCHANGED vars
  BY <1>4, QuietIInv
<1>5. CASE Device
  BY <1>5, HandlesIInv, FlashIInv, LostIInv DEF Device
<1>. QED
  BY <1>1, <1>2, <1>3, <1>4, <1>5 DEF Next

(* The inductive invariant: every change of the device is on its way        *)
(* alone, and finds the device as the step before left it.                  *)
THEOREM SpecIInv == ASSUME Attempts = 1 PROVE Spec => []IInv
<1>1. Init => IInv
  BY InitIInv
<1>2. IInv /\ [Next]_vars => IInv'
  BY NextIInv
<1>. QED
  BY <1>1, <1>2, PTL DEF Spec

(* A part of the new program that the device gets late, from a request the  *)
(* tool has given up, is still written to completely erased memory.         *)
THEOREM NothingCorrupted == ASSUME Attempts = 1 PROVE Spec => []WritesOnlyErased
<1>1. IInv => WritesOnlyErased
  BY DEF IInv, Types, WritesOnlyErased
<1>. QED
  BY <1>1, SpecIInv, PTL

(* The message of success is never printed for an answer to something else: *)
(* the new program is in place, started and confirmed.                      *)
THEOREM SuccessIsReal == ASSUME Attempts = 1 PROVE Spec => []SuccessMeansConfirmed
<1>1. IInv => SuccessMeansConfirmed
  <2>. SUFFICES ASSUME IInv, result = "success"
                PROVE  program = "run" /\ memory = "new" /\ confirmed
    BY DEF SuccessMeansConfirmed
  <2>1. program = "run" /\ memory = "new"
    BY DEF IInv, Device1, Ended
  <2>2. confirmed
    BY DEF IInv, Confirms
  <2>. QED
    BY <2>1, <2>2
<1>. QED
  BY <1>1, SpecIInv, PTL

(* A command is only performed as prepared, also one that arrives after the *)
(* tool gave up.                                                            *)
LEMMA PerformsPrepared ==
  ASSUME IInv, NEW r \in Coming, r \in Requests, Perform(r)
  PROVE  /\ memory' = "erasing" /\ memory # "erasing" => program = "stopped"
         /\ program' = "run" /\ program # "run" => memory = "new"
<1>1. CASE r \in {"swid", "status"}
  BY <1>1 DEF Perform, deviceVars
<1>2. CASE r \in {"stop", "end", "confirm"}
  BY <1>2 DEF Perform
<1>3. CASE r = "clear"
  BY <1>3 DEF Perform, IInv, Device1, Prepared
<1>4. CASE r = "data"
  <2>1. memory' # "erasing" /\ program' = program
    BY <1>4 DEF Perform
  <2>. QED
    BY <2>1
<1>5. CASE r = "start"
  BY <1>5 DEF Perform, IInv, Device1, Prepared
<1>. QED
  BY <1>1, <1>2, <1>3, <1>4, <1>5 DEF Requests, Changing, Control

(* The memory is erased only under a stopped program, and only a complete   *)
(* program is started, also by commands that arrive after the tool gave up. *)
THEOREM ChangesPrepared ==
  ASSUME Attempts = 1 PROVE Spec => ErasesStoppedStartsComplete
<1>1. IInv /\ [Next]_vars =>
        [/\ memory' = "erasing" /\ memory # "erasing" => program = "stopped"
         /\ program' = "run" /\ program # "run" => memory = "new"]_vars
  <2>. SUFFICES ASSUME IInv, [Next]_vars
                PROVE  /\ memory' = "erasing" /\ memory # "erasing" => program = "stopped"
                       /\ program' = "run" /\ program # "run" => memory = "new"
    OBVIOUS
  <2>1. CASE UNCHANGED deviceVars
    BY <2>1 DEF deviceVars
  <2>2. CASE DeviceHandles
    <3>1. Head(requests) \in Coming /\ Head(requests) \in Requests
      <4>1. requests # << >>
        BY <2>2 DEF DeviceHandles
      <4>. QED
        BY <4>1, FirstAndRest DEF IInv, Channels, Coming
    <3>2. Perform(Head(requests)) \/ UNCHANGED deviceVars
      BY <2>2 DEF DeviceHandles
    <3>. QED
      BY <2>1, <3>1, <3>2, PerformsPrepared
  <2>3. CASE FlashDone
    BY <2>3 DEF FlashDone
  <2>4. CASE UNCHANGED vars
    BY <2>1, <2>4 DEF vars
  <2>5. Begin \/ Cancel \/ ToolStep \/ TimePasses \/ Interrupted \/ Lost
          => UNCHANGED deviceVars
    BY DEF Begin, Cancel, ToolStep, Ask, AskUpTo, ReadSwid, StatusRead, StatusReadThen,
           StatusOk, StatusNotOk, WriteDone, Downloaded, RequestFails, Unanswered, Finish,
           Disconnect, TimePasses, Interrupted, Lost
  <2>. QED
    BY <2>1, <2>2, <2>3, <2>4, <2>5 DEF Next, Device
<1>. QED
  BY <1>1, SpecIInv, PTL DEF Spec, ErasesStoppedStartsComplete
=============================================================================
