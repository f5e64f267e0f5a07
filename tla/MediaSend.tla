------------------------------ MODULE MediaSend ------------------------------
(***************************************************************************)
(* The part of processOne that DeliveryWorker takes as its two steps       *)
(* "prepare" and "sending": prepareAttachments, which carries each medium  *)
(* of a message from Telegram to MAX, and sendWithAttachmentWarmup, which  *)
(* repeats the send while MAX says that an attachment is not ready.  Under *)
(* them the two clients: any call may time out, MAX may answer anything,   *)
(* and the body of a download is read while MAX is being asked.            *)
(***************************************************************************)
EXTENDS Naturals, Sequences

CONSTANT Fields    \* the fields of a Telegram message that may be set

ASSUME FieldsAreKnown ==
    Fields \subseteq {"photo", "document", "video", "audio", "voice", "animation"}

Warmups == 3    \* the delays of sendWithAttachmentWarmup: 2, 4 and 8 seconds

(* extractOutboundMedia: one medium per field that is set, in this order. *)
MediaOf(set) ==
    LET Only(f) == IF f \in set THEN <<f>> ELSE <<>>
    IN  Only("photo") \o Only("document") \o Only("video")
        \o Only("audio") \o Only("voice") \o Only("animation")

AttachmentType(f) ==
    CASE f = "photo" -> "image"
      [] f = "video" -> "video"
      [] f = "audio" -> "audio"
      [] OTHER       -> "file"

Attachments == [of : Fields, type : {"image", "video", "audio", "file"},
                whole : BOOLEAN, token : BOOLEAN]

(* How a call of MAX ends if not with a 2xx: a status, perhaps with the    *)
(* words attachment.not.ready in the body, or no answer that can be used.  *)
Errors == [status : {"429", "5xx", "4xx"}, notReady : BOOLEAN]
          \cup {[status |-> "none", notReady |-> FALSE]}
NoAnswer == [status |-> "none", notReady |-> FALSE]

IsAttachmentNotReadyError(e) == e.status # "none" /\ e.notReady

IsTemporarySendError(e) ==
    e.status \in {"none", "429", "5xx"} \/ IsAttachmentNotReadyError(e)

VARIABLES media,      \* the media of the message
          pc,         \* the next thing the goroutine does
          next,       \* the medium at work
          body,       \* the file Telegram sends: closed, open, or cut off by the client's timeout
          prefetched, \* MAX gave a token together with the upload URL
          uploaded,   \* the attachments so far
          waits,      \* warm-up delays so far
          result

mediaVars == <<media, next, body, prefetched, uploaded>>

(* History. *)
VARIABLES accepted,   \* how often MAX accepted the message in this pass
          carried     \* the attachments it had then

historyVars == <<accepted, carried>>

vars == <<mediaVars, pc, waits, result, historyVars>>

TypeOK ==
    /\ media \in Seq(Fields)
    /\ pc \in {"download", "requestURL", "upload", "send", "accepted", "warm", "over", "dead"}
    /\ next \in 1 .. Len(media) + 1
    /\ pc \in {"requestURL", "upload"} => next <= Len(media)
    /\ body \in {"closed", "open", "cut"}
    /\ prefetched \in BOOLEAN
    /\ uploaded \in Seq(Attachments) /\ carried \in Seq(Attachments)
    /\ waits \in 0 .. Warmups
    /\ result \in {"none", "success", "temporary_error", "permanent_error"}
    /\ accepted \in Nat

Init ==
    /\ \E set \in SUBSET Fields : media = MediaOf(set)
    /\ pc = "download"
    /\ next = 1
    /\ body = "closed"
    /\ prefetched = FALSE
    /\ uploaded = <<>>
    /\ waits = 0
    /\ result = "none"
    /\ accepted = 0
    /\ carried = <<>>

(* The pass is over, and processOne calls retry. *)
FailWith(e) ==
    /\ pc' = "over"
    /\ result' = IF IsTemporarySendError(e) THEN "temporary_error" ELSE "permanent_error"
    /\ UNCHANGED historyVars

-----------------------------------------------------------------------------
(* prepareAttachments. *)

(* getFile and the request for the file itself. *)
Download ==
    /\ pc = "download" /\ next <= Len(media)
    /\ pc' = "requestURL"
    /\ body' = "open"
    /\ UNCHANGED <<media, next, prefetched, uploaded, waits, result, historyVars>>

(* Whatever Telegram says, its errors are not APIErrors. *)
DownloadFails ==
    /\ pc = "download" /\ next <= Len(media)
    /\ FailWith(NoAnswer)
    /\ UNCHANGED <<mediaVars, waits>>

AllPrepared ==
    /\ pc = "download" /\ next > Len(media)
    /\ pc' = "send"
    /\ UNCHANGED <<mediaVars, waits, result, historyVars>>

(* The six seconds of the Telegram client include the reading of the body, *)
(* which waits for MAX to give an upload URL.                              *)
BodyTimesOut ==
    /\ body = "open"
    /\ body' = "cut"
    /\ UNCHANGED <<media, pc, next, prefetched, uploaded, waits, result, historyVars>>

RequestUploadURL ==
    /\ pc = "requestURL"
    /\ pc' = "upload"
    /\ prefetched' \in BOOLEAN
    /\ UNCHANGED <<media, next, body, uploaded, waits, result, historyVars>>

CloseBody == body' = "closed" /\ UNCHANGED <<media, next, prefetched, uploaded>>

RequestUploadURLFails ==
    /\ pc = "requestURL"
    /\ \E e \in Errors : FailWith(e)
    /\ CloseBody
    /\ UNCHANGED waits

CutBodyIsEnd_M == FALSE

(* The body is copied into the request first; an error there ends the pass.*)
CutBodyIsError == body = "cut"

StoreUpload(token) ==
    /\ uploaded' = Append(uploaded, [of |-> media[next], type |-> AttachmentType(media[next]),
                                     whole |-> body = "open", token |-> token])
    /\ body' = "closed"
    /\ next' = next + 1
    /\ pc' = "download"
    /\ UNCHANGED <<media, prefetched, waits, result, historyVars>>

(* The answer, a JSON object, may bring a token of its own. *)
UploadFile ==
    /\ pc = "upload" /\ ~CutBodyIsError
    /\ \E own \in BOOLEAN : StoreUpload(own \/ prefetched)

(* A null in its place leaves a nil map, and storing the prefetched token  *)
(* in it panics: the whole process dies.                                   *)
UploadAnsweredNull ==
    /\ pc = "upload" /\ ~CutBodyIsError
    /\ IF prefetched
       THEN pc' = "dead" /\ UNCHANGED <<mediaVars, waits, result, historyVars>>
       ELSE StoreUpload(FALSE)

UploadFileLeaks_M ==
    /\ pc = "upload"
    /\ \E e \in Errors : FailWith(e)
    /\ UNCHANGED <<mediaVars, waits>>

UploadFileFails ==
    /\ pc = "upload"
    /\ \E e \in IF CutBodyIsError THEN {NoAnswer} ELSE Errors : FailWith(e)
    /\ CloseBody
    /\ UNCHANGED waits

-----------------------------------------------------------------------------
(* sendWithAttachmentWarmup. *)

MaxAccepts ==
    /\ pc = "send"
    /\ pc' = "accepted"
    /\ accepted' = accepted + 1
    /\ carried' = uploaded
    /\ UNCHANGED <<mediaVars, waits, result>>

RepeatOnceMore_M(e) == IsAttachmentNotReadyError(e) /\ uploaded # <<>> /\ waits <= Warmups

RepeatOn(e) == IsAttachmentNotReadyError(e) /\ uploaded # <<>> /\ waits < Warmups

MaxRefuses ==
    /\ pc = "send"
    /\ \E e \in Errors :
          IF RepeatOn(e)
          THEN pc' = "warm" /\ UNCHANGED <<result, historyVars>>
          ELSE FailWith(e)
    /\ UNCHANGED <<mediaVars, waits>>

WarmupUncounted_M ==
    /\ pc = "warm"
    /\ pc' = "send"
    /\ UNCHANGED <<mediaVars, waits, result, historyVars>>

Warmup ==
    /\ pc = "warm"
    /\ pc' = "send"
    /\ waits' = waits + 1
    /\ UNCHANGED <<mediaVars, result, historyVars>>

WarmupStoppedQuietly_M ==
    /\ pc = "warm"
    /\ pc' = "over"
    /\ result' = "success"
    /\ UNCHANGED <<mediaVars, waits, historyVars>>

(* SIGTERM during a delay: ctx.Err(). *)
WarmupStopped ==
    /\ pc = "warm"
    /\ FailWith(NoAnswer)
    /\ UNCHANGED <<mediaVars, waits>>

ReplyArrives ==
    /\ pc = "accepted"
    /\ pc' = "over"
    /\ result' = "success"
    /\ UNCHANGED <<mediaVars, waits, historyVars>>

ReplyLostRepeated_M ==
    /\ pc = "accepted"
    /\ IF waits < Warmups
       THEN pc' = "warm" /\ UNCHANGED <<result, historyVars>>
       ELSE FailWith(NoAnswer)
    /\ UNCHANGED <<mediaVars, waits>>

ReplyLost ==
    /\ pc = "accepted"
    /\ FailWith(NoAnswer)
    /\ UNCHANGED <<mediaVars, waits>>

-----------------------------------------------------------------------------
Step ==
    \/ Download \/ DownloadFails \/ AllPrepared
    \/ RequestUploadURL \/ RequestUploadURLFails
    \/ UploadFile \/ UploadAnsweredNull \/ UploadFileFails
    \/ MaxAccepts \/ MaxRefuses
    \/ Warmup \/ WarmupStopped
    \/ ReplyArrives \/ ReplyLost

Finished == pc \in {"over", "dead"} /\ UNCHANGED vars

Next == Step \/ BodyTimesOut \/ Finished

Spec == Init /\ [][Next]_vars

(* Both clients have timeouts, and the delays end. *)
FairSpec == Spec /\ WF_vars(Step)

-----------------------------------------------------------------------------
(* Properties. *)

(* Within one pass MAX accepts the message at most once: the warm-up       *)
(* repeats the send after a refusal, never after an answer that was lost.  *)
AcceptedOnce == accepted <= 1

(* What MAX accepts carries every medium of the message, in order, whole   *)
(* and as what it is; a medium that failed fails the pass.                 *)
NothingLeftOut ==
    accepted > 0 =>
        /\ Len(carried) = Len(media)
        /\ \A i \in DOMAIN media :
              /\ carried[i].of = media[i] /\ carried[i].type = AttachmentType(media[i])
              /\ carried[i].whole

(* A file Telegram is sending is held open only while it is being passed   *)
(* on: no way out of prepareAttachments leaves one behind.                 *)
BodiesAreClosed == body # "closed" => pc \in {"requestURL", "upload", "dead"}

(* A pass ends, and the goroutine is free again. *)
PassEnds == <>(pc \in {"over", "dead"})

Run == INSTANCE OneRun
    WITH step <- CASE pc \in {"download", "requestURL", "upload"} -> "prepare"
                   [] pc \in {"send", "warm"}                     -> "sending"
                   [] pc = "accepted"                             -> "replying"
                   [] OTHER                                       -> pc,
         outcome <- result,
         taken <- accepted > 0

(* processOne is what DeliveryWorker takes it to be. *)
ImplementsOneRun == Run!RSpec
==============================================================================
