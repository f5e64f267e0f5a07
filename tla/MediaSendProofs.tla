--------------------------- MODULE MediaSendProofs ---------------------------
(***************************************************************************)
(* What one pass of processOne does, for any set of media, however often   *)
(* and in whatever way the calls of the two clients fail.                  *)
(***************************************************************************)
EXTENDS MediaSend, SequenceTheorems, TLAPS

LEMMA MediaAreFields ==
    ASSUME NEW set \in SUBSET Fields
    PROVE  MediaOf(set) \in Seq(Fields)
  <1> DEFINE Only(f) == IF f \in set THEN <<f>> ELSE <<>>
  <1>1. \A f : Only(f) \in Seq(Fields)
    OBVIOUS
  <1> HIDE DEF Only
  <1>2. \A s, t \in Seq(Fields) : s \o t \in Seq(Fields)
    BY ConcatProperties
  <1>3. /\ Only("photo") \o Only("document") \in Seq(Fields)
        /\ Only("photo") \o Only("document") \o Only("video") \in Seq(Fields)
    BY <1>1, <1>2
  <1>4. Only("photo") \o Only("document") \o Only("video") \o Only("audio") \in Seq(Fields)
    BY <1>1, <1>2, <1>3
  <1>5. Only("photo") \o Only("document") \o Only("video") \o Only("audio") \o Only("voice")
          \in Seq(Fields)
    BY <1>1, <1>2, <1>4
  <1>6. Only("photo") \o Only("document") \o Only("video") \o Only("audio") \o Only("voice")
          \o Only("animation") \in Seq(Fields)
    BY <1>1, <1>2, <1>5
  <1> QED
    BY <1>6 DEF MediaOf, Only

(* What has been uploaded so far are the first media of the message. *)
Carries(atts, n) ==
    /\ atts \in Seq(Attachments) /\ Len(atts) = n
    /\ \A i \in 1 .. n :
          atts[i].of = media[i] /\ atts[i].type = AttachmentType(media[i]) /\ atts[i].whole

InUpload == pc \in {"requestURL", "upload"}
Sending  == pc \in {"send", "accepted", "warm"}

(* TypeOK with what ties the parts of a pass together. *)
PassInv ==
    /\ TypeOK
    /\ body # "closed" => InUpload \/ pc = "dead"
    /\ InUpload => body # "closed"
    /\ Carries(uploaded, next - 1)
    /\ Sending => next = Len(media) + 1
    /\ pc \in {"download", "requestURL", "upload", "send", "warm"} => accepted = 0
    /\ pc = "accepted" => accepted = 1
    /\ pc = "warm" => waits < Warmups
    /\ accepted \in {0, 1}
    /\ accepted = 1 => carried = uploaded /\ next = Len(media) + 1

LEMMA PassInit == Init => PassInv
  <1> SUFFICES ASSUME Init PROVE PassInv
    OBVIOUS
  <1>1. media \in Seq(Fields) /\ Len(media) \in Nat
    BY MediaAreFields, LenProperties DEF Init
  <1>2. uploaded = <<>> /\ uploaded \in Seq(Attachments) /\ Len(uploaded) = 0
    BY DEF Init
  <1>3. TypeOK
    <2>1. next = 1 /\ next \in 1 .. Len(media) + 1
      BY <1>1 DEF Init
    <2>2. waits \in 0 .. Warmups /\ accepted \in Nat
      BY DEF Init, Warmups
    <2>3. carried = uploaded
      BY DEF Init
    <2> QED
      BY <1>1, <1>2, <2>1, <2>2, <2>3 DEF Init, TypeOK
  <1> QED
    BY <1>1, <1>2, <1>3 DEF Init, PassInv, Carries, InUpload, Sending

(* A pass that ends: processOne has the error. *)
LEMMA FailKeeps ==
    ASSUME PassInv, NEW e, FailWith(e), UNCHANGED waits,
           \/ UNCHANGED mediaVars /\ ~InUpload /\ pc # "dead"
           \/ CloseBody
    PROVE  PassInv'
  <1> USE DEF FailWith, mediaVars, CloseBody, historyVars
  <1>1. /\ pc' = "over" /\ result' \in {"temporary_error", "permanent_error"}
        /\ body' \in {"closed", "open", "cut"} /\ (body' # "closed" => body = body' /\ ~InUpload)
        /\ UNCHANGED <<media, next, prefetched, uploaded, waits, accepted, carried>>
    BY DEF PassInv, TypeOK
  <1>2. TypeOK'
    BY <1>1 DEF PassInv, TypeOK
  <1>3. Carries(uploaded, next - 1)'
    BY <1>1 DEF PassInv, Carries
  <1> QED
    BY <1>1, <1>2, <1>3 DEF PassInv, InUpload, Sending

LEMMA AttachmentFits ==
    ASSUME PassInv, pc = "upload", body = "open", NEW t \in BOOLEAN, StoreUpload(t)
    PROVE  PassInv'
  <1> DEFINE a == [of |-> media[next], type |-> AttachmentType(media[next]),
                   whole |-> body = "open", token |-> t]
  <1>1. /\ media \in Seq(Fields) /\ Len(media) \in Nat /\ next \in 1 .. Len(media)
        /\ uploaded \in Seq(Attachments) /\ Len(uploaded) = next - 1
    BY DEF PassInv, TypeOK, Carries
  <1>2. media[next] \in Fields /\ AttachmentType(media[next]) \in {"image", "video", "audio", "file"}
    BY <1>1 DEF AttachmentType
  <1>3. a \in Attachments
    BY <1>2 DEF Attachments
  <1>4. /\ uploaded' = Append(uploaded, a) /\ next' = next + 1 /\ body' = "closed"
        /\ pc' = "download"
        /\ UNCHANGED <<media, prefetched, waits, result, accepted, carried>>
    BY DEF StoreUpload, historyVars
  <1>a. a.of = media[next] /\ a.type = AttachmentType(media[next]) /\ a.whole
    OBVIOUS
  <1> HIDE DEF a
  <1>5. /\ uploaded' \in Seq(Attachments) /\ Len(uploaded') = next
        /\ \A i \in 1 .. Len(uploaded) : uploaded'[i] = uploaded[i]
        /\ uploaded'[next] = a
    BY <1>1, <1>3, <1>4, AppendProperties
  <1>6. Carries(uploaded, next - 1)'
    <2>1. ASSUME NEW i \in 1 .. next
          PROVE  uploaded'[i].of = media[i] /\ uploaded'[i].type = AttachmentType(media[i])
                 /\ uploaded'[i].whole
      <3>1. CASE i = next
        BY <3>1, <1>5, <1>a
      <3>2. CASE i # next
        BY <3>2, <1>1, <1>5 DEF PassInv, Carries
      <3> QED
        BY <3>1, <3>2
    <2>2. next' - 1 = next
      BY <1>1, <1>4
    <2> QED
      BY <2>1, <2>2, <1>4, <1>5 DEF Carries, AttachmentType
  <1>7. TypeOK'
    BY <1>1, <1>4, <1>5 DEF PassInv, TypeOK
  <1> QED
    BY <1>4, <1>6, <1>7 DEF PassInv, InUpload, Sending

LEMMA PassStep == PassInv /\ [Next]_vars => PassInv'
  <1> SUFFICES ASSUME PassInv, [Next]_vars PROVE PassInv'
    OBVIOUS
  <1> USE DEF mediaVars, historyVars
  <1>0. next \in Nat /\ Len(media) \in Nat /\ waits \in Nat
    BY DEF PassInv, TypeOK, Warmups
  <1> DEFINE Same == UNCHANGED <<media, next, uploaded, accepted, carried>>
  <1>1. ASSUME Same, TypeOK', body' # "closed" <=> InUpload',
               Sending' => next = Len(media) + 1,
               pc' \in {"download", "requestURL", "upload", "send", "warm"} => accepted = 0,
               pc' = "accepted" => accepted = 1,
               pc' = "warm" => waits' < Warmups
        PROVE  PassInv'
    <2>1. Carries(uploaded, next - 1)'
      BY <1>1 DEF PassInv, Carries
    <2> QED
      BY <1>1, <2>1 DEF PassInv
  <1>2. CASE Download
    BY <1>0, <1>1, <1>2 DEF Download, PassInv, TypeOK, InUpload, Sending
  <1>3. CASE DownloadFails
    BY <1>3, FailKeeps DEF DownloadFails, InUpload
  <1>4. CASE AllPrepared
    BY <1>0, <1>1, <1>4 DEF AllPrepared, PassInv, TypeOK, InUpload, Sending
  <1>5. CASE RequestUploadURL
    BY <1>0, <1>1, <1>5 DEF RequestUploadURL, PassInv, TypeOK, InUpload, Sending
  <1>6. CASE RequestUploadURLFails
    BY <1>6, FailKeeps DEF RequestUploadURLFails
  <1>7. CASE UploadFile
    <2>1. pc = "upload" /\ body = "open"
      BY <1>7 DEF UploadFile, CutBodyIsError, PassInv, TypeOK, InUpload
    <2>2. PICK own \in BOOLEAN : StoreUpload(own \/ prefetched)
      BY <1>7 DEF UploadFile
    <2>3. (own \/ prefetched) \in BOOLEAN
      OBVIOUS
    <2> QED
      BY <2>1, <2>2, <2>3, AttachmentFits
  <1>8. CASE UploadAnsweredNull
    <2>1. pc = "upload" /\ body = "open"
      BY <1>8 DEF UploadAnsweredNull, CutBodyIsError, PassInv, TypeOK, InUpload
    <2>2. CASE prefetched
      <3>1. pc' = "dead" /\ UNCHANGED <<mediaVars, waits, result, historyVars>>
        BY <1>8, <2>2 DEF UploadAnsweredNull
      <3>2. TypeOK'
        BY <3>1 DEF PassInv, TypeOK
      <3>3. Carries(uploaded, next - 1)'
        BY <3>1 DEF PassInv, Carries
      <3> QED
        BY <3>1, <3>2, <3>3 DEF PassInv, InUpload, Sending
    <2>3. CASE ~prefetched
      BY <1>8, <2>1, <2>3, AttachmentFits DEF UploadAnsweredNull
    <2> QED
      BY <2>2, <2>3
  <1>9. CASE UploadFileFails
    BY <1>9, FailKeeps DEF UploadFileFails
  <1>10. CASE MaxAccepts
    <2>1. TypeOK'
      BY <1>10 DEF MaxAccepts, PassInv, TypeOK
    <2>2. Carries(uploaded, next - 1)'
      BY <1>10 DEF MaxAccepts, PassInv, Carries
    <2> QED
      BY <1>10, <2>1, <2>2 DEF MaxAccepts, PassInv, InUpload, Sending
  <1>11. CASE MaxRefuses
    <2>1. PICK e \in Errors :
            IF RepeatOn(e) THEN pc' = "warm" /\ UNCHANGED <<result, historyVars>> ELSE FailWith(e)
      BY <1>11 DEF MaxRefuses
    <2>2. CASE RepeatOn(e)
      BY <1>0, <1>1, <1>11, <2>1, <2>2 DEF MaxRefuses, RepeatOn, PassInv, TypeOK, InUpload, Sending
    <2>3. CASE ~RepeatOn(e)
      BY <1>11, <2>1, <2>3, FailKeeps DEF MaxRefuses, InUpload
    <2> QED
      BY <2>2, <2>3
  <1>12. CASE Warmup
    <2>1. TypeOK'
      BY <1>12 DEF Warmup, Warmups, PassInv, TypeOK
    <2> QED
      BY <1>1, <1>12, <2>1 DEF Warmup, PassInv, InUpload, Sending
  <1>13. CASE WarmupStopped
    BY <1>13, FailKeeps DEF WarmupStopped, InUpload
  <1>14. CASE ReplyArrives
    <2>1. TypeOK'
      BY <1>14 DEF ReplyArrives, PassInv, TypeOK
    <2> QED
      BY <1>1, <1>14, <2>1 DEF ReplyArrives, PassInv, InUpload, Sending
  <1>15. CASE ReplyLost
    BY <1>15, FailKeeps DEF ReplyLost, InUpload
  <1>16. CASE BodyTimesOut
    <2>1. TypeOK'
      BY <1>16 DEF BodyTimesOut, PassInv, TypeOK
    <2>2. Carries(uploaded, next - 1)'
      BY <1>16 DEF BodyTimesOut, PassInv, Carries
    <2> QED
      BY <1>16, <2>1, <2>2 DEF BodyTimesOut, PassInv, InUpload, Sending
  <1>17. CASE UNCHANGED vars
    <2>1. /\ UNCHANGED <<media, next, body, prefetched, uploaded>>
          /\ UNCHANGED <<pc, waits, result, accepted, carried>>
      BY <1>17 DEF vars
    <2>2. TypeOK'
      BY <2>1 DEF PassInv, TypeOK
    <2>3. Carries(uploaded, next - 1)'
      BY <2>1 DEF PassInv, Carries
    <2> QED
      BY <2>1, <2>2, <2>3 DEF PassInv, InUpload, Sending
  <1> QED
    BY <1>2, <1>3, <1>4, <1>5, <1>6, <1>7, <1>8, <1>9, <1>10, <1>11, <1>12, <1>13, <1>14, <1>15,
       <1>16, <1>17 DEF Next, Step, Finished

(* The reachable states satisfy PassInv. *)
LEMMA PassInvariant == Spec => []PassInv
  BY PassInit, PassStep, PTL DEF Spec

(* Every reachable state of a pass is well typed. *)
THEOREM PassTypeCorrect == Spec => []TypeOK
  <1>1. PassInv => TypeOK
    BY DEF PassInv
  <1> QED
    BY <1>1, PassInvariant, PTL

(* A pass has MAX accept the message once at most (the warm-up loop of     *)
(* sendWithAttachmentWarmup), whatever MAX answers.                        *)
THEOREM SendsOnce == Spec => []AcceptedOnce
  <1>1. PassInv => AcceptedOnce
    BY DEF PassInv, AcceptedOnce
  <1> QED
    BY <1>1, PassInvariant, PTL

(* A message MAX accepted carries each of its media, whole and in order    *)
(* (prepareAttachments, uploadFile).                                       *)
THEOREM SendsAll == Spec => []NothingLeftOut
  <1>1. PassInv => NothingLeftOut
    <2> SUFFICES ASSUME PassInv, accepted > 0
                 PROVE  /\ Len(carried) = Len(media)
                        /\ \A i \in DOMAIN media :
                              /\ carried[i].of = media[i]
                              /\ carried[i].type = AttachmentType(media[i])
                              /\ carried[i].whole
      BY DEF NothingLeftOut
    <2>1. accepted = 1
      BY DEF PassInv
    <2>2. /\ carried = uploaded /\ next = Len(media) + 1 /\ Carries(uploaded, next - 1)
          /\ media \in Seq(Fields)
      BY <2>1 DEF PassInv, TypeOK
    <2>3. Len(media) \in Nat /\ DOMAIN media = 1 .. Len(media)
      BY <2>2, LenProperties
    <2> QED
      BY <2>2, <2>3 DEF Carries
  <1> QED
    BY <1>1, PassInvariant, PTL

(* No way out of prepareAttachments leaves the body of a download open.    *)
THEOREM ClosesBodies == Spec => []BodiesAreClosed
  <1>1. PassInv => BodiesAreClosed
    BY DEF PassInv, BodiesAreClosed, InUpload
  <1> QED
    BY <1>1, PassInvariant, PTL

-----------------------------------------------------------------------------
(* The refinement of OneRun. *)

LEMMA RunInit == Init => Run!RInit
  BY DEF Init, Run!RInit

(* What FailWith says, without the errors. *)
LEMMA FailReports ==
    ASSUME NEW e, FailWith(e)
    PROVE  pc' = "over" /\ result' \in Run!RFailures /\ accepted' = accepted
  BY DEF FailWith, Run!RFailures, historyVars

LEMMA LostIsTemporary ==
    ASSUME FailWith(NoAnswer)
    PROVE  pc' = "over" /\ result' = "temporary_error" /\ accepted' = accepted
  BY DEF FailWith, IsTemporarySendError, NoAnswer, historyVars

LEMMA RunStep == PassInv /\ [Next]_vars => [Run!RNext]_(Run!rvars)
  <1> SUFFICES ASSUME PassInv, [Next]_vars PROVE [Run!RNext]_(Run!rvars)
    OBVIOUS
  <1> USE DEF Run!rvars, historyVars, mediaVars
  <1>1. accepted \in {0, 1}
    BY DEF PassInv
  <1>2. CASE Download
    BY <1>2 DEF Download
  <1>3. CASE DownloadFails
    BY <1>3, FailReports DEF DownloadFails, Run!RNext, Run!MediaFails
  <1>4. CASE AllPrepared
    BY <1>4 DEF AllPrepared, Run!RNext, Run!Send
  <1>5. CASE RequestUploadURL
    BY <1>5 DEF RequestUploadURL
  <1>6. CASE RequestUploadURLFails
    BY <1>6, FailReports DEF RequestUploadURLFails, Run!RNext, Run!MediaFails
  <1>7. CASE UploadFile
    BY <1>7 DEF UploadFile, StoreUpload
  <1>8. CASE UploadAnsweredNull
    BY <1>8 DEF UploadAnsweredNull, StoreUpload, Run!RNext, Run!ProcessDies
  <1>9. CASE UploadFileFails
    BY <1>9, FailReports DEF UploadFileFails, Run!RNext, Run!MediaFails
  <1>10. CASE MaxAccepts
    BY <1>1, <1>10 DEF MaxAccepts, Run!RNext, Run!MaxAccepts
  <1>11. CASE MaxRefuses
    <2>1. PICK e \in Errors :
            IF RepeatOn(e) THEN pc' = "warm" /\ UNCHANGED <<result, historyVars>> ELSE FailWith(e)
      BY <1>11 DEF MaxRefuses
    <2>2. CASE RepeatOn(e)
      BY <1>11, <2>1, <2>2 DEF MaxRefuses
    <2>3. CASE ~RepeatOn(e)
      BY <1>11, <2>1, <2>3, FailReports DEF MaxRefuses, Run!RNext, Run!MaxRefuses
    <2> QED
      BY <2>2, <2>3
  <1>12. CASE Warmup
    BY <1>12 DEF Warmup
  <1>13. CASE WarmupStopped
    BY <1>13, FailReports DEF WarmupStopped, Run!RNext, Run!MaxRefuses
  <1>14. CASE ReplyArrives
    BY <1>14 DEF ReplyArrives, Run!RNext, Run!ReplyArrives
  <1>15. CASE ReplyLost
    BY <1>15, LostIsTemporary DEF ReplyLost, Run!RNext, Run!ReplyLost
  <1>16. CASE BodyTimesOut
    BY <1>16 DEF BodyTimesOut
  <1>17. CASE UNCHANGED vars
    BY <1>17 DEF vars
  <1> QED
    BY <1>2, <1>3, <1>4, <1>5, <1>6, <1>7, <1>8, <1>9, <1>10, <1>11, <1>12, <1>13, <1>14, <1>15,
       <1>16, <1>17 DEF Next, Step, Finished

(* A pass of processOne, with all it does for media, is one of the passes  *)
(* of which DeliveryWorker is built.                                       *)
THEOREM PassIsOneRun == Spec => ImplementsOneRun
  BY RunInit, RunStep, PassInvariant, PTL DEF Spec, ImplementsOneRun, Run!RSpec
=============================================================================
