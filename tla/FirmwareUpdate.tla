--------------------------- MODULE FirmwareUpdate ---------------------------
(***************************************************************************)
(* flash_firmware of co-firmware-update.py and of co.py: the script that   *)
(* stops a CANopen device's program, clears its memory, downloads a new    *)
(* program, starts and confirms it, over SDO requests that may be lost,    *)
(* refused, or answered after the tool stopped waiting.  The one ends      *)
(* with its update and closes its network; the other goes back to the menu *)
(* and may be told to flash again.                                         *)
(*                                                                         *)
(* The tool.  The script is straight-line code, so it is a sequence of     *)
(* steps; an exception in any step ends it.                                *)
(*   tool     "script" or "menu"                                           *)
(*   runs     updates begun                                                *)
(*   step     number of the step being done                                *)
(*   asked    the request an answer is awaited for, or Nothing             *)
(*   sent     how often it was sent, 0 while none is awaited               *)
(*   late     end_time of wait_for_flash_status_ok has passed              *)
(*   left     parts of the binary not yet written                          *)
(*   result   "asking" before the user's "y", "running", "success",        *)
(*            "failed" or "cancelled"                                      *)
(*   online   the CAN network is connected                                 *)
(*                                                                         *)
(* The device (external) answers requests in order.                        *)
(*   requests, answers   in transit in either direction                    *)
(*   program  "run" or "stopped"; memory: what the program memory holds;   *)
(*   flash    object 0x1F57; got: parts received; confirmed                *)
(***************************************************************************)
EXTENDS Integers, Sequences

CONSTANTS
  Parts,                   \* parts of the binary (reads of 512 bytes)
  Attempts,                \* sdo.MAX_RETRIES: how often a request is sent
  MaxTransit,              \* bound: messages in transit each way
  MaxRuns                  \* bound: updates from one menu

ASSUME FirmwareAssumption == {Parts, Attempts, MaxTransit, MaxRuns} \subseteq Nat \ {0}

VARIABLES tool, runs, step, asked, sent, late, left, result, online,
          requests, answers, program, memory, flash, got, confirmed

mode == <<tool, runs>>
toolVars == <<mode, step, asked, sent, late, left, result, online>>
deviceVars == <<program, memory, flash, got, confirmed>>
vars == <<toolVars, requests, answers, deviceVars>>

Nothing == "nothing"

Read == [kind |-> "read", req |-> "swid"]                \* exceptions swallowed
Wait(must) == [kind |-> IF must THEN "must" ELSE "wait", req |-> "status"]
Nmt == [kind |-> "send", req |-> Nothing]
Write(cmd) == [kind |-> "write", req |-> cmd]
Download == [kind |-> "download", req |-> "data"]
Bootup == [kind |-> "bootup", req |-> Nothing]

Script ==
  << Read, Wait(FALSE), Nmt, Write("stop"), Write("clear"), Wait(TRUE),
     Download, Wait(TRUE), Read, Write("start"), Bootup, Nmt, Write("confirm") >>

Init ==
  /\ tool \in {"script", "menu"} /\ runs = 0
  /\ step = 1 /\ asked = Nothing /\ sent = 0
  /\ late = FALSE
  /\ left = Parts
  /\ result = "asking" /\ online = (tool = "menu")
  /\ requests = << >> /\ answers = << >>
  /\ program = "run" /\ memory = "old" /\ flash \in {"ok", "error"}
  /\ got = 0 /\ confirmed = FALSE

-----------------------------------------------------------------------------
(* The tool.                                                                *)

Running == result = "running"

At(kinds) == Running /\ step <= Len(Script) /\ Script[step].kind \in kinds

NextStep ==
  /\ UNCHANGED mode
  /\ step' = step + 1
  /\ asked' = Nothing /\ sent' = 0
  /\ late' = FALSE

Fails ==
  /\ result' = "failed"
  /\ asked' = Nothing
  /\ UNCHANGED <<mode, step, sent, late, left, online>>

(* The file is there and the user says yes.  From the menu the update may   *)
(* be begun again, with a new node object; the prompts take longer than     *)
(* anything is on its way.                                                  *)
Begin ==
  /\ \/ result = "asking"
     \/ tool = "menu" /\ online /\ ~ Running /\ requests = << >> /\ answers = << >>
  /\ runs < MaxRuns /\ runs' = runs + 1
  /\ step' = 1 /\ asked' = Nothing /\ sent' = 0 /\ late' = FALSE /\ left' = Parts
  /\ result' = "running" /\ online' = TRUE
  /\ UNCHANGED <<tool, requests, answers, deviceVars>>

(* No file, no interface, no "y", or no connection.                         *)
Cancel ==
  /\ tool = "script" /\ result = "asking"
  /\ result' \in {"cancelled", "failed"}
  /\ UNCHANGED <<mode, step, asked, sent, late, left, online, requests, answers, deviceVars>>

(* What the current step asks for next; a download ends with "end".         *)
Request ==
  IF Script[step].kind = "download" /\ left = 0 THEN "end" ELSE Script[step].req

(* The object a request is for: four commands are written to the same one,  *)
(* and an answer names the object, not the command.                         *)
Object(req) ==
  IF req \in {"stop", "clear", "start", "confirm"} THEN "control"
  ELSE IF req \in {"data", "end"} THEN "program" ELSE req

(* What does not fit in transit any more is lost.                           *)
Transmit(channel, message) ==
  IF Len(channel) < MaxTransit THEN Append(channel, message) ELSE channel

(* An SDO request is sent, and once more when no answer came within         *)
(* RESPONSE_TIMEOUT and attempts are left.  Answers that came too late for  *)
(* an earlier request are discarded if they are already here.               *)
AskUpTo(attempts) ==
  /\ At({"read", "wait", "must", "write", "download"})
  /\ asked # "give up"
  /\ sent < IF asked = "data" THEN 1 ELSE attempts
  /\ asked' = Request /\ sent' = sent + 1
  /\ requests' = Transmit(requests, Request)
  /\ \E k \in 0 .. (IF sent = 0 THEN Len(answers) ELSE 0) :
        answers' = SubSeq(answers, k + 1, Len(answers))
  /\ UNCHANGED <<mode, step, late, left, result, online, deviceVars>>

AsksTwice == AskUpTo(Attempts + 1)                       \* mutant

Ask == AskUpTo(Attempts)

(* The next answer is taken for the answer.  One for another object, or an  *)
(* abort, raises; so does a timeout, which leaves the answer on its way.    *)
Answered(what) ==
  /\ asked \notin {Nothing, "give up"}
  /\ answers # << >>
  /\ LET a == Head(answers) IN a.to = Object(asked) /\ a.what = what
  /\ answers' = Tail(answers)

Raises ==
  /\ asked \notin {Nothing, "give up"}
  /\ \/ UNCHANGED answers
     \/ /\ answers # << >>
        /\ LET a == Head(answers) IN a.to # Object(asked) \/ a.what = "abort"
        /\ answers' = Tail(answers)

(* try: read the software id; except: go on                                 *)
ReadSwid ==
  /\ At({"read"})
  /\ Answered("swid") \/ Raises
  /\ NextStep
  /\ UNCHANGED <<left, result, online, requests, deviceVars>>

(* wait_for_flash_status_ok: one round of its loop ...                      *)
StatusReadThen(next) ==
  /\ At({"wait", "must"})
  /\ Answered("busy") \/ Answered("error") \/ Raises
  /\ asked' = next /\ sent' = 0
  /\ UNCHANGED <<mode, step, late, left, result, online, requests, deviceVars>>

PollsForEver == StatusReadThen(Nothing)                  \* mutant

StatusRead == StatusReadThen(IF late THEN "give up" ELSE Nothing)

StatusOk ==
  /\ At({"wait", "must"})
  /\ Answered("ok")
  /\ NextStep
  /\ UNCHANGED <<left, result, online, requests, deviceVars>>

TimePasses ==
  /\ At({"wait", "must"})
  /\ ~ late
  /\ late' = TRUE
  /\ UNCHANGED <<mode, step, asked, sent, left, result, online, requests, answers, deviceVars>>

OnlyWarns ==                                             \* mutant
  /\ asked = "give up" /\ At({"wait", "must"}) /\ NextStep
  /\ UNCHANGED <<left, result, online, requests, answers, deviceVars>>

(* ... and its end without "ok": only a warning the first time, a           *)
(* ValueError after clearing and downloading.                               *)
StatusNotOk ==
  /\ asked = "give up"
  /\ \/ At({"wait"}) /\ NextStep /\ UNCHANGED <<left, result, online>>
     \/ At({"must"}) /\ Fails
  /\ UNCHANGED <<requests, answers, deviceVars>>

(* ...raw = PROGRAM_CTRL_x                                                  *)
WriteDone ==
  /\ At({"write"})
  /\ Answered("ack")
  /\ NextStep
  /\ UNCHANGED <<left, result, online, requests, deviceVars>>

(* outfile.write(chunk), and the end of the "with" block.                   *)
Downloaded ==
  /\ At({"download"})
  /\ Answered("ack")
  /\ \/ left > 0 /\ left' = left - 1 /\ asked' = Nothing /\ sent' = 0 /\ UNCHANGED <<mode, step, late>>
     \/ left = 0 /\ left' = left /\ NextStep
  /\ UNCHANGED <<result, online, requests, deviceVars>>

IgnoresErrors ==                                         \* mutant
  /\ At({"write"}) /\ Raises /\ NextStep
  /\ UNCHANGED <<left, result, online, requests, deviceVars>>

RequestFails ==
  /\ At({"write", "download"})
  /\ Raises
  /\ Fails
  /\ UNCHANGED <<requests, deviceVars>>

(* An NMT command is sent, which raises only when the bus is down; the      *)
(* wait for the boot-up message goes on whether one came or not.            *)
Unanswered ==
  /\ \/ At({"send", "bootup"}) /\ NextStep /\ UNCHANGED <<left, result, online>>
     \/ At({"send"}) /\ Fails
  /\ UNCHANGED <<requests, answers, deviceVars>>

Finish ==
  /\ Running /\ step > Len(Script)
  /\ result' = "success"
  /\ UNCHANGED <<mode, step, asked, sent, late, left, online, requests, answers, deviceVars>>

(* Ctrl-C in any step; in co.py main() ends with it.                        *)
Interrupted ==
  /\ Running
  /\ result' = "failed" /\ asked' = Nothing
  /\ online' = (tool = "script")
  /\ UNCHANGED <<mode, step, sent, late, left, requests, answers, deviceVars>>

(* finally: network.disconnect()                                            *)
Disconnect ==
  /\ tool = "script" /\ ~ Running /\ online
  /\ online' = FALSE
  /\ UNCHANGED <<mode, step, asked, sent, late, left, result, requests, answers, deviceVars>>

ToolStep ==
  \/ Ask \/ ReadSwid \/ StatusRead \/ StatusOk \/ StatusNotOk \/ WriteDone
  \/ Downloaded \/ RequestFails \/ Unanswered \/ Finish \/ Disconnect

-----------------------------------------------------------------------------
(* The device and the bus.                                                  *)

Perform(req) ==
  CASE req = "stop" ->
         program' = "stopped" /\ UNCHANGED <<memory, flash, got, confirmed>>
    [] req = "clear" ->
         memory' = "erasing" /\ flash' = "busy" /\ got' = 0 /\ confirmed' = FALSE
         /\ UNCHANGED program
    [] req = "data" ->
         /\ got' = got + 1
         /\ memory' = IF memory \in {"erased", "partial"} THEN "partial" ELSE "corrupt"
         /\ UNCHANGED <<program, flash, confirmed>>
    [] req = "end" ->
         flash' = "busy" /\ UNCHANGED <<program, memory, got, confirmed>>
    [] req = "start" ->
         program' = "run" /\ UNCHANGED <<memory, flash, got, confirmed>>
    [] req = "confirm" ->
         confirmed' = (program = "run") /\ UNCHANGED <<program, memory, flash, got>>
    [] OTHER -> UNCHANGED deviceVars

AnswerTo(req) ==
  CASE req = "swid" -> "swid" [] req = "status" -> flash [] OTHER -> "ack"

DeviceHandles ==
  /\ requests # << >>
  /\ LET r == Head(requests)
     IN \/ Perform(r) /\ answers' = Transmit(answers, [to |-> Object(r), what |-> AnswerTo(r)])
        \/ answers' = Transmit(answers, [to |-> Object(r), what |-> "abort"]) /\ UNCHANGED deviceVars
  /\ requests' = Tail(requests)
  /\ UNCHANGED toolVars

FlashDone ==
  /\ flash = "busy"
  /\ \/ flash' = "error" /\ UNCHANGED memory
     \/ /\ flash' = "ok"
        /\ memory' = CASE memory = "erasing" -> "erased"
                       [] memory = "partial" /\ got = Parts -> "new"
                       [] OTHER -> memory
  /\ UNCHANGED <<program, got, confirmed, toolVars, requests, answers>>

Lost ==
  /\ \/ requests # << >> /\ requests' = Tail(requests) /\ UNCHANGED answers
     \/ answers # << >> /\ answers' = Tail(answers) /\ UNCHANGED requests
  /\ UNCHANGED <<toolVars, deviceVars>>

Device == DeviceHandles \/ FlashDone \/ Lost

Next == Begin \/ Cancel \/ ToolStep \/ TimePasses \/ Interrupted \/ Device

(* Every call of the tool returns after at most its timeout, and time goes  *)
(* on.  The device owes nothing.                                            *)
Spec == Init /\ [][Next]_vars /\ WF_vars(ToolStep) /\ WF_vars(TimePasses)

-----------------------------------------------------------------------------
(* Nothing is written to memory that is not completely erased.              *)
WritesOnlyErased == memory # "corrupt"

(* However late or lost the answers are, the program memory is erased only  *)
(* while no program runs from it, and only a program that is completely     *)
(* there is started.                                                        *)
ErasesStoppedStartsComplete ==
  [][/\ memory' = "erasing" /\ memory # "erasing" => program = "stopped"
     /\ program' = "run" /\ program # "run" => memory = "new"]_vars

(* "Firmware update completed successfully!" and "Flash completed           *)
(* successfully!" are printed only when the new program was started and     *)
(* confirmed.                                                               *)
SuccessMeansConfirmed ==
  result = "success" => program = "run" /\ memory = "new" /\ confirmed

(* An update ends whatever the device does, and the tool that is only for   *)
(* updates gives back the network.                                          *)
ToolEnds == []<>(~ Running /\ (tool = "script" => ~ online))
=============================================================================
