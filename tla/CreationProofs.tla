--------------------------- MODULE CreationProofs ---------------------------
(***************************************************************************)
(* Proofs about Creation.tla and Voice.tla, for any requests, keys, uploads *)
(* and number of faults.                                                   *)
(***************************************************************************)
EXTENDS Voice, TLAPS

(* What the pcs say of the database and of the key. *)
ProgressInv ==
  /\ \A r \in Request :
       /\ req[r].pc = "unsent" => req[r].key = NoKey
       /\ r \in stored => req[r].pc \in {"committed", "answered", "failed"}
       /\ alive /\ req[r].pc = "committed" => r \in stored
       /\ req[r].pc = "flushed" => alive
       /\ req[r].pc = "fetching" => req[r].key # NoKey
       /\ alive /\ req[r].pc = "fetching"
            => req[r].found \in stored /\ req[req[r].found].key = req[r].key

(* A settled key is in Redis from its first answer to its expiry, and a    *)
(* request sent after that answer always finds it.                         *)
SettledInv ==
  /\ \A r \in Request :
       req[r].pc \in {"fetching", "answered"} /\ req[r].key \notin lapsed \cup {NoKey}
         => idem[req[r].key] # Nothing
  /\ \A r \in settled :
       /\ req[r].pc # "unsent" /\ req[r].key # NoKey
       /\ Answered(req[r].key)
       /\ alive /\ req[r].key \notin lapsed
            => /\ req[r].pc \notin {"creating", "flushed", "committed"}
               /\ r \notin stored

IInv ==
  TypeOK /\ ProgressInv /\ SettledInv /\ AnswersAreStored /\ KeysNameStored
    /\ NothingForTheDeleted

-----------------------------------------------------------------------------
(* The first states: nothing is sent, stored or remembered. *)
LEMMA InitIInv == Init => IInv
BY KeyAssumption, NothingAssumption, FaultsAssumption
   DEF Init, IInv, Unsent, Running, Answered, TypeOK, ProgressInv, SettledInv, AnswersAreStored, KeysNameStored, NothingForTheDeleted

(* A new request: settled only if its key is answered, hence in Redis. *)
LEMMA SendIInv ==
  ASSUME IInv, NEW r \in Request, NEW k \in Key \cup {NoKey}, Send(r, k)
  PROVE  IInv'
<1>1. TypeOK'
  BY FaultsAssumption DEF IInv, TypeOK, Running, Send
<1>2. ProgressInv'
  BY KeyAssumption, NothingAssumption
     DEF IInv, TypeOK, Running, ProgressInv, KeysNameStored, Send
<1>3. SettledInv'
  BY KeyAssumption, NothingAssumption
     DEF IInv, TypeOK, Running, ProgressInv, SettledInv, KeysNameStored, Answered, Send
<1>4. AnswersAreStored' /\ KeysNameStored' /\ NothingForTheDeleted'
  BY KeyAssumption, NothingAssumption
     DEF IInv, TypeOK, Running, ProgressInv, AnswersAreStored, KeysNameStored,
         NothingForTheDeleted, Send
<1> QED BY <1>1, <1>2, <1>3, <1>4 DEF IInv

(* A refused request leaves the database alone. *)
LEMMA RefuseIInv ==
  ASSUME IInv, NEW r \in Request, Refuse(r)
  PROVE  IInv'
<1>1. TypeOK'
  BY FaultsAssumption DEF IInv, TypeOK, Running, Refuse, Goto
<1>2. ProgressInv'
  BY KeyAssumption, NothingAssumption
     DEF IInv, TypeOK, Running, ProgressInv, KeysNameStored, Refuse, Goto
<1>3. SettledInv'
  BY KeyAssumption, NothingAssumption
     DEF IInv, TypeOK, Running, ProgressInv, SettledInv, KeysNameStored, Answered,
         Refuse, Goto
<1>4. AnswersAreStored' /\ KeysNameStored' /\ NothingForTheDeleted'
  BY KeyAssumption, NothingAssumption
     DEF IInv, TypeOK, Running, ProgressInv, AnswersAreStored, KeysNameStored,
         NothingForTheDeleted, Refuse, Goto
<1> QED BY <1>1, <1>2, <1>3, <1>4 DEF IInv

(* The lookup: a settled request finds its key. *)
LEMMA LookUpIInv ==
  ASSUME IInv, NEW r \in Request, LookUp(r)
  PROVE  IInv'
<1>1. TypeOK'
  <2>1. Found(r) \in Request \cup {Nothing}
    BY DEF IInv, TypeOK, Found
  <2>2. req' \in [Request -> [pc : Running \cup {"unsent", "refused", "answered", "failed"},
                              key : Key \cup {NoKey}, found : Request \cup {Nothing}]]
    <3> DEFINE p == IF Found(r) = Nothing THEN "creating" ELSE "fetching"
    <3>1. req' = [req EXCEPT ![r].pc = p, ![r].found = Found(r)]
      BY DEF LookUp
    <3>2. p \in Running
      BY DEF Running
    <3> HIDE DEF p
    <3> QED BY <2>1, <3>1, <3>2 DEF IInv, TypeOK
  <2> QED BY <2>2 DEF IInv, TypeOK, LookUp
<1>2. ProgressInv'
  BY KeyAssumption, NothingAssumption
     DEF IInv, TypeOK, Running, ProgressInv, KeysNameStored, LookUp, Found
<1>3. SettledInv'
  BY KeyAssumption, NothingAssumption
     DEF IInv, TypeOK, Running, ProgressInv, SettledInv, KeysNameStored, Answered,
         LookUp, Found
<1>4. AnswersAreStored' /\ KeysNameStored' /\ NothingForTheDeleted'
  BY KeyAssumption, NothingAssumption
     DEF IInv, TypeOK, Running, ProgressInv, AnswersAreStored, KeysNameStored,
         NothingForTheDeleted, LookUp, Found
<1> QED BY <1>1, <1>2, <1>3, <1>4 DEF IInv

(* The fetch: what a key names is there while the user is. *)
LEMMA FetchIInv ==
  ASSUME IInv, NEW r \in Request, Fetch(r)
  PROVE  IInv'
<1>1. TypeOK'
  BY FaultsAssumption DEF IInv, TypeOK, Running, Fetch, Goto
<1>2. ProgressInv'
  BY KeyAssumption, NothingAssumption
     DEF IInv, TypeOK, Running, ProgressInv, KeysNameStored, Fetch, Goto
<1>3. SettledInv'
  BY KeyAssumption, NothingAssumption
     DEF IInv, TypeOK, Running, ProgressInv, SettledInv, KeysNameStored, Answered,
         Fetch, Goto
<1>4. AnswersAreStored' /\ KeysNameStored' /\ NothingForTheDeleted'
  BY KeyAssumption, NothingAssumption
     DEF IInv, TypeOK, Running, ProgressInv, AnswersAreStored, KeysNameStored,
         NothingForTheDeleted, Fetch, Goto
<1> QED BY <1>1, <1>2, <1>3, <1>4 DEF IInv

(* The flush: only of a request that found no key. *)
LEMMA FlushIInv ==
  ASSUME IInv, NEW r \in Request, Flush(r)
  PROVE  IInv'
<1>1. TypeOK'
  BY FaultsAssumption DEF IInv, TypeOK, Running, Flush, Goto
<1>2. ProgressInv'
  BY KeyAssumption, NothingAssumption
     DEF IInv, TypeOK, Running, ProgressInv, KeysNameStored, Flush, Goto
<1>3. SettledInv'
  BY KeyAssumption, NothingAssumption
     DEF IInv, TypeOK, Running, ProgressInv, SettledInv, KeysNameStored, Answered,
         Flush, Goto
<1>4. AnswersAreStored' /\ KeysNameStored' /\ NothingForTheDeleted'
  BY KeyAssumption, NothingAssumption
     DEF IInv, TypeOK, Running, ProgressInv, AnswersAreStored, KeysNameStored,
         NothingForTheDeleted, Flush, Goto
<1> QED BY <1>1, <1>2, <1>3, <1>4 DEF IInv

(* The flush for a deleted user. *)
LEMMA FlushRaisesIInv ==
  ASSUME IInv, NEW r \in Request, FlushRaises(r)
  PROVE  IInv'
<1>1. TypeOK'
  BY FaultsAssumption DEF IInv, TypeOK, Running, FlushRaises, Goto
<1>2. ProgressInv'
  BY KeyAssumption, NothingAssumption
     DEF IInv, TypeOK, Running, ProgressInv, KeysNameStored, FlushRaises, Goto
<1>3. SettledInv'
  BY KeyAssumption, NothingAssumption
     DEF IInv, TypeOK, Running, ProgressInv, SettledInv, KeysNameStored, Answered,
         FlushRaises, Goto
<1>4. AnswersAreStored' /\ KeysNameStored' /\ NothingForTheDeleted'
  BY KeyAssumption, NothingAssumption
     DEF IInv, TypeOK, Running, ProgressInv, AnswersAreStored, KeysNameStored,
         NothingForTheDeleted, FlushRaises, Goto
<1> QED BY <1>1, <1>2, <1>3, <1>4 DEF IInv

(* A creation refused for what it names. *)
LEMMA RefuseNamedIInv ==
  ASSUME IInv, NEW r \in Request, RefuseNamed(r)
  PROVE  IInv'
<1>1. TypeOK'
  BY FaultsAssumption DEF IInv, TypeOK, Running, RefuseNamed, Goto
<1>2. ProgressInv'
  BY KeyAssumption, NothingAssumption
     DEF IInv, TypeOK, Running, ProgressInv, KeysNameStored, RefuseNamed, Goto
<1>3. SettledInv'
  BY KeyAssumption, NothingAssumption
     DEF IInv, TypeOK, Running, ProgressInv, SettledInv, KeysNameStored, Answered,
         RefuseNamed, Goto
<1>4. AnswersAreStored' /\ KeysNameStored' /\ NothingForTheDeleted'
  BY KeyAssumption, NothingAssumption
     DEF IInv, TypeOK, Running, ProgressInv, AnswersAreStored, KeysNameStored,
         NothingForTheDeleted, RefuseNamed, Goto
<1> QED BY <1>1, <1>2, <1>3, <1>4 DEF IInv

(* A rolled back creation. *)
LEMMA CreateRaisesIInv ==
  ASSUME IInv, NEW r \in Request, CreateRaises(r)
  PROVE  IInv'
<1>1. TypeOK'
  BY FaultsAssumption DEF IInv, TypeOK, Running, CreateRaises, Goto, Fault
<1>2. ProgressInv'
  BY KeyAssumption, NothingAssumption
     DEF IInv, TypeOK, Running, ProgressInv, KeysNameStored, CreateRaises, Goto, Fault
<1>3. SettledInv'
  BY KeyAssumption, NothingAssumption
     DEF IInv, TypeOK, Running, ProgressInv, SettledInv, KeysNameStored, Answered,
         CreateRaises, Goto, Fault
<1>4. AnswersAreStored' /\ KeysNameStored' /\ NothingForTheDeleted'
  BY KeyAssumption, NothingAssumption
     DEF IInv, TypeOK, Running, ProgressInv, AnswersAreStored, KeysNameStored,
         NothingForTheDeleted, CreateRaises, Goto, Fault
<1> QED BY <1>1, <1>2, <1>3, <1>4 DEF IInv

(* The commit of a request that is not settled. *)
LEMMA CommitIInv ==
  ASSUME IInv, NEW r \in Request, Commit(r)
  PROVE  IInv'
<1>1. TypeOK'
  BY FaultsAssumption DEF IInv, TypeOK, Running, Commit, Goto
<1>2. ProgressInv'
  BY KeyAssumption, NothingAssumption
     DEF IInv, TypeOK, Running, ProgressInv, KeysNameStored, Commit, Goto
<1>3. SettledInv'
  BY KeyAssumption, NothingAssumption
     DEF IInv, TypeOK, Running, ProgressInv, SettledInv, KeysNameStored, Answered,
         Commit, Goto
<1>4. AnswersAreStored' /\ KeysNameStored' /\ NothingForTheDeleted'
  BY KeyAssumption, NothingAssumption
     DEF IInv, TypeOK, Running, ProgressInv, AnswersAreStored, KeysNameStored,
         NothingForTheDeleted, Commit, Goto
<1> QED BY <1>1, <1>2, <1>3, <1>4 DEF IInv

(* A committed creation that is not answered. *)
LEMMA AfterwardsRaisesIInv ==
  ASSUME IInv, NEW r \in Request, AfterwardsRaises(r)
  PROVE  IInv'
<1>1. TypeOK'
  BY FaultsAssumption DEF IInv, TypeOK, Running, AfterwardsRaises, Goto, Fault
<1>2. ProgressInv'
  BY KeyAssumption, NothingAssumption
     DEF IInv, TypeOK, Running, ProgressInv, KeysNameStored, AfterwardsRaises, Goto, Fault
<1>3. SettledInv'
  BY KeyAssumption, NothingAssumption
     DEF IInv, TypeOK, Running, ProgressInv, SettledInv, KeysNameStored, Answered,
         AfterwardsRaises, Goto, Fault
<1>4. AnswersAreStored' /\ KeysNameStored' /\ NothingForTheDeleted'
  BY KeyAssumption, NothingAssumption
     DEF IInv, TypeOK, Running, ProgressInv, AnswersAreStored, KeysNameStored,
         NothingForTheDeleted, AfterwardsRaises, Goto, Fault
<1> QED BY <1>1, <1>2, <1>3, <1>4 DEF IInv

(* The key and the answer name the same stored notification. *)
LEMMA RememberIInv ==
  ASSUME IInv, NEW r \in Request, Remember(r)
  PROVE  IInv'
<1>1. TypeOK'
  BY FaultsAssumption DEF IInv, TypeOK, Running, Remember, Remembered
<1>2. ProgressInv'
  BY KeyAssumption, NothingAssumption
     DEF IInv, TypeOK, Running, ProgressInv, KeysNameStored, Remember, Remembered
<1>3. SettledInv'
  BY KeyAssumption, NothingAssumption
     DEF IInv, TypeOK, Running, ProgressInv, SettledInv, KeysNameStored, Answered,
         Remember, Remembered
<1>4. AnswersAreStored' /\ KeysNameStored' /\ NothingForTheDeleted'
  BY KeyAssumption, NothingAssumption
     DEF IInv, TypeOK, Running, ProgressInv, AnswersAreStored, KeysNameStored,
         NothingForTheDeleted, Remember, Remembered
<1> QED BY <1>1, <1>2, <1>3, <1>4 DEF IInv

(* An expired key no longer settles anything. *)
LEMMA KeyExpiresIInv ==
  ASSUME IInv, NEW k \in Key, KeyExpires(k)
  PROVE  IInv'
<1>1. TypeOK'
  BY FaultsAssumption DEF IInv, TypeOK, Running, KeyExpires
<1>2. ProgressInv'
  BY KeyAssumption, NothingAssumption
     DEF IInv, TypeOK, Running, ProgressInv, KeysNameStored, KeyExpires
<1>3. SettledInv'
  BY KeyAssumption, NothingAssumption
     DEF IInv, TypeOK, Running, ProgressInv, SettledInv, KeysNameStored, Answered,
         KeyExpires
<1>4. AnswersAreStored' /\ KeysNameStored' /\ NothingForTheDeleted'
  BY KeyAssumption, NothingAssumption
     DEF IInv, TypeOK, Running, ProgressInv, AnswersAreStored, KeysNameStored,
         NothingForTheDeleted, KeyExpires
<1> QED BY <1>1, <1>2, <1>3, <1>4 DEF IInv

(* The deletion empties the database, with no creation under way. *)
LEMMA DeleteUserIInv ==
  ASSUME IInv, DeleteUser
  PROVE  IInv'
<1>1. TypeOK'
  BY FaultsAssumption DEF IInv, TypeOK, Running, DeleteUser
<1>2. ProgressInv'
  BY KeyAssumption, NothingAssumption
     DEF IInv, TypeOK, Running, ProgressInv, KeysNameStored, DeleteUser
<1>3. SettledInv'
  BY KeyAssumption, NothingAssumption
     DEF IInv, TypeOK, Running, ProgressInv, SettledInv, KeysNameStored, Answered,
         DeleteUser
<1>4. AnswersAreStored' /\ KeysNameStored' /\ NothingForTheDeleted'
  BY KeyAssumption, NothingAssumption
     DEF IInv, TypeOK, Running, ProgressInv, AnswersAreStored, KeysNameStored,
         NothingForTheDeleted, DeleteUser
<1> QED BY <1>1, <1>2, <1>3, <1>4 DEF IInv

(* A restart only fails requests. *)
LEMMA RestartIInv ==
  ASSUME IInv, Restart
  PROVE  IInv'
<1>1. TypeOK'
  BY FaultsAssumption DEF IInv, TypeOK, Running, Restart, Fault
<1>2. ProgressInv'
  BY KeyAssumption, NothingAssumption
     DEF IInv, TypeOK, Running, ProgressInv, KeysNameStored, Restart, Fault
<1>3. SettledInv'
  <2>1. \A q \in Request : /\ req'[q].key = req[q].key
                           /\ req'[q].pc \in {req[q].pc, "failed"}
                           /\ req[q].pc \notin Running => req'[q].pc = req[q].pc
    BY DEF IInv, TypeOK, Restart
  <2>2. \A q \in Request : Answered(req[q].key) => Answered(req[q].key)'
    BY <2>1 DEF IInv, TypeOK, Running, Answered
  <2> QED BY <2>1, <2>2 DEF IInv, TypeOK, SettledInv, Restart
<1>4. AnswersAreStored' /\ KeysNameStored' /\ NothingForTheDeleted'
  BY KeyAssumption, NothingAssumption
     DEF IInv, TypeOK, Running, ProgressInv, AnswersAreStored, KeysNameStored,
         NothingForTheDeleted, Restart, Fault
<1> QED BY <1>1, <1>2, <1>3, <1>4 DEF IInv

(* The invariant is inductive: every request, the deletion, the expiry of  *)
(* a key and a restart preserve it.                                        *)
LEMMA StepIInv == IInv /\ [Next]_vars => IInv'
<1> SUFFICES ASSUME IInv, [Next]_vars PROVE IInv'
  OBVIOUS
<1>1. ASSUME NEW r \in Request, Serve(r) PROVE IInv'
  BY <1>1, RefuseIInv, LookUpIInv, FetchIInv, FlushIInv, FlushRaisesIInv,
     RefuseNamedIInv, CreateRaisesIInv, CommitIInv, AfterwardsRaisesIInv, RememberIInv DEF Serve
<1>2. CASE UNCHANGED vars
  BY <1>2 DEF vars, IInv, TypeOK, Running, ProgressInv, SettledInv, Answered,
              AnswersAreStored, KeysNameStored, NothingForTheDeleted
<1> QED
  BY <1>1, <1>2, SendIInv, KeyExpiresIInv, DeleteUserIInv, RestartIInv DEF Next

(* What the pcs say of the database and of the key holds in every state,   *)
(* for any requests and keys.                                              *)
THEOREM Inductive == Spec => []IInv
BY InitIInv, StepIInv, PTL DEF Spec

(* The types, for any requests, keys and faults. *)
THEOREM TypeCorrect == Spec => []TypeOK
<1>1. IInv => TypeOK
  BY DEF IInv
<1> QED BY <1>1, Inductive, PTL

(* create_notification with a key that has been answered with creates      *)
(* nothing while the key lives.                                            *)
THEOREM SettledCreateNothing == Spec => []SettledKeysCreateNothing
<1>1. IInv => SettledKeysCreateNothing
  BY DEF IInv, SettledInv, SettledKeysCreateNothing, Created
<1> QED BY <1>1, Inductive, PTL

(* Every answer is a stored notification, created for the same key. *)
THEOREM AnswersStored == Spec => []AnswersAreStored
<1>1. IInv => AnswersAreStored
  BY DEF IInv
<1> QED BY <1>1, Inductive, PTL

(* A key in Redis never names a notification that was not committed. *)
THEOREM KeysStored == Spec => []KeysNameStored
<1>1. IInv => KeysNameStored
  BY DEF IInv
<1> QED BY <1>1, Inductive, PTL

(* Answers and keys name stored notifications of their own key. *)
THEOREM NamesStored == Spec => []NamesAreStored
<1>1. AnswersAreStored /\ KeysNameStored => NamesAreStored
  BY DEF NamesAreStored
<1> QED BY <1>1, AnswersStored, KeysStored, PTL

(* No creation outlives the deletion of its user. *)
THEOREM DeletedHaveNothing == Spec => []NothingForTheDeleted
<1>1. IInv => NothingForTheDeleted
  BY DEF IInv
<1> QED BY <1>1, Inductive, PTL

-----------------------------------------------------------------------------
(* Voice.tla is Creation.tla with the audio: what is proved of requests    *)
(* holds while they synthesize, upload and attach.                         *)
LEMMA VoicedStep == VoicedNext => [Next]_vars
<1>1. ASSUME NEW r \in Request, VoiceBlock(r) PROVE [Next]_vars
  <2>1. CASE Enters(r)
    BY <2>1 DEF Enters, Serve, Next
  <2>2. CASE RefuseAudio(r)
    BY <2>2 DEF RefuseAudio, Serve, Next
  <2>3. CASE Synthesized(r) \/ EngineFails(r) \/ Put(r) \/ Sign(r) \/ Looks(r) \/ Stat(r)
    BY <2>3 DEF Synthesized, EngineFails, Put, Sign, Looks, Stat
  <2> QED
    BY <1>1, <2>1, <2>2, <2>3 DEF VoiceBlock
<1>2. ASSUME NEW r \in Request, Elsewhere(r) PROVE [Next]_vars
  BY <1>2 DEF Elsewhere, AfterBlock, Serve, Next
<1>3. ASSUME NEW u \in Upload, RequestUpload(u) \/ UploadArrives(u) PROVE [Next]_vars
  BY <1>3 DEF RequestUpload, UploadArrives
<1>4. CASE DeleteUserAndRows
  BY <1>4 DEF DeleteUserAndRows, Next
<1> QED
  BY <1>1, <1>2, <1>3, <1>4 DEF VoicedNext, Next

(* The requests of Voice.tla are those of Creation.tla. *)
THEOREM VoicedCreates == VoicedSpec => Spec
<1>1. VoicedInit => Init
  BY DEF VoicedInit
<1>2. [VoicedNext]_<<vars, voiceVars>> => [Next]_vars
  <2>1. UNCHANGED <<vars, voiceVars>> => [Next]_vars
    OBVIOUS
  <2> QED
    BY <2>1, VoicedStep
<1> QED
  BY <1>1, <1>2, PTL DEF VoicedSpec, Spec

(* Where a request is in the voice block says what its audio is: nothing   *)
(* before the block; what is to be signed has been put, and what was put   *)
(* is signed; what is to be looked at is the user's, uploads are signed    *)
(* when the block is left, and what is left can be heard.                  *)
BlockInv(r) ==
  /\ req[r].pc \in {"unsent", "sent", "fetching", "creating"}
       => stage[r] = "ready" /\ voice[r] = Text
  /\ r \in stored => stage[r] = "ready"
  /\ stage[r] = "sign" => r \in objects
  /\ r \in objects /\ stage[r] # "sign" => stage[r] = "ready" /\ voice[r].audio = r
  /\ stage[r] = "stat" /\ req[r].pc = "flushed" => named[r] \in rows \ Foreign
  /\ stage[r] \in {"attach", "stat"} <=>
       voice[r].source = "agent_audio" /\ ~Signed(voice[r])
  /\ Fallback /\ stage[r] = "ready" /\ voice[r].source # "text" => Audible(voice[r])

AudioInv(r) ==
  Signed(voice[r]) =>
    /\ voice[r].audio \in objects
    /\ alive => voice[r].audio \in {r} \cup (rows \ Foreign)

(* Without faults nothing turns a server_tts request away. *)
LastsInv(r) ==
  faults = 0 /\ voice[r].source = "server_tts"
    => req[r].pc \in {"flushed", "committed", "answered"}

VoicedInv ==
  /\ IInv /\ VoicedTypeOK
  /\ \A r \in Request : BlockInv(r) /\ AudioInv(r) /\ LastsInv(r)

LEMMA InitVoicedInv == VoicedInit => VoicedInv
<1> SUFFICES ASSUME VoicedInit PROVE VoicedInv
  OBVIOUS
<1>1. IInv
  BY InitIInv DEF VoicedInit
<1>2. VoicedTypeOK
  BY UploadAssumption DEF VoicedInit, VoicedTypeOK, Text, Sources, Stages
<1>3. ASSUME NEW r \in Request PROVE BlockInv(r) /\ AudioInv(r) /\ LastsInv(r)
  BY UploadAssumption DEF VoicedInit, Init, Unsent, Text, BlockInv, AudioInv, LastsInv, Signed
<1> QED
  BY <1>1, <1>2, <1>3 DEF VoicedInv

(* A step of a request that leaves the audio alone. *)
LEMMA AloneVoicedInv ==
  ASSUME VoicedInv, IInv', UNCHANGED voiceVars, alive' = alive, NEW r \in Request,
         req'[r].pc \in {"unsent", "sent", "fetching", "creating"}
           => req[r].pc \in {"unsent", "sent", "fetching", "creating"},
         r \in stored' => stage[r] = "ready",
         req'[r].pc = "flushed" => req[r].pc = "flushed",
         LastsInv(r)'
  PROVE  (BlockInv(r) /\ AudioInv(r) /\ LastsInv(r))'
<1>1. UNCHANGED <<stage, voice, named, rows, objects>>
  BY DEF voiceVars
<1>2. BlockInv(r)'
  BY <1>1 DEF VoicedInv, BlockInv, Audible, Signed, Text
<1>3. AudioInv(r)'
  BY <1>1 DEF VoicedInv, AudioInv, Signed
<1> QED
  BY <1>2, <1>3

(* Creation's steps outside the block, and a refusal in it. *)
LEMMA OutsideVoicedInv ==
  ASSUME VoicedInv, IInv', UNCHANGED voiceVars,
         \/ \E r \in Request :
              \/ RefuseAudio(r) \/ Elsewhere(r)
              \/ \E k \in Key \cup {NoKey} : Send(r, k)
         \/ \E k \in Key : KeyExpires(k)
         \/ Restart
  PROVE  VoicedInv'
<1>0. /\ UNCHANGED <<stage, voice, named, rows, objects>> /\ faults \in Nat
      /\ req \in [Request -> [pc : Running \cup {"unsent", "refused", "answered", "failed"},
                              key : Key \cup {NoKey}, found : Request \cup {Nothing}]]
      /\ stored \subseteq Request
  BY FaultsAssumption DEF VoicedInv, IInv, TypeOK, voiceVars
<1>t. VoicedTypeOK'
  BY <1>0 DEF VoicedInv, VoicedTypeOK
<1>s. ASSUME \A q \in Request :
               /\ req'[q].pc \in {"unsent", "sent", "fetching", "creating"}
                    => req[q].pc \in {"unsent", "sent", "fetching", "creating"}
               /\ q \in stored' => stage[q] = "ready"
               /\ req'[q].pc = "flushed" => req[q].pc = "flushed"
               /\ faults' = 0 /\ voice[q].source = "server_tts"
                    => req'[q].pc \in {"flushed", "committed", "answered"},
             alive' = alive
      PROVE  VoicedInv'
  <2>1. \A q \in Request : LastsInv(q)'
    BY <1>0, <1>s DEF LastsInv
  <2> QED
    BY <1>t, <1>s, <2>1, AloneVoicedInv DEF VoicedInv
<1>v. \A q \in Request :
        /\ q \in stored => stage[q] = "ready"
        /\ req[q].pc \in {"unsent", "sent", "fetching", "creating"}
             => stage[q] = "ready" /\ voice[q].source = "text"
        /\ stage[q] \in {"attach", "stat"} => voice[q].source = "agent_audio"
        /\ faults = 0 /\ voice[q].source = "server_tts"
             => req[q].pc \in {"flushed", "committed", "answered"}
  BY DEF VoicedInv, BlockInv, LastsInv, Text
<1>1. ASSUME NEW r \in Request, RefuseAudio(r) PROVE VoicedInv'
  BY <1>0, <1>s, <1>v, <1>1 DEF RefuseAudio, RefuseNamed, Goto, At
<1>2. ASSUME NEW r \in Request,
             \/ Refuse(r) \/ LookUp(r) \/ Fetch(r) \/ FlushRaises(r)
             \/ req[r].pc = "creating" /\ RefuseNamed(r)
      PROVE  VoicedInv'
  BY <1>0, <1>s, <1>v, <1>2 DEF Refuse, LookUp, Found, Fetch, FlushRaises, RefuseNamed, Goto
<1>3. ASSUME NEW r \in Request, CreateRaises(r) \/ AfterwardsRaises(r) PROVE VoicedInv'
  BY <1>0, <1>s, <1>v, <1>3 DEF CreateRaises, AfterwardsRaises, Fault, Goto
<1>4. ASSUME NEW r \in Request, AfterBlock(r) \/ Remember(r) PROVE VoicedInv'
  BY <1>0, <1>s, <1>v, <1>4 DEF AfterBlock, Commit, Remember, Goto
<1>5. ASSUME NEW r \in Request, NEW k \in Key \cup {NoKey}, Send(r, k) PROVE VoicedInv'
  BY <1>0, <1>s, <1>v, <1>5 DEF Send
<1>6. ASSUME NEW k \in Key, KeyExpires(k) PROVE VoicedInv'
  BY <1>0, <1>s, <1>v, <1>6 DEF KeyExpires
<1>7. CASE Restart
  BY <1>0, <1>s, <1>v, <1>7 DEF Restart, Fault, Running
<1> QED
  BY <1>1, <1>2, <1>3, <1>4, <1>5, <1>6, <1>7 DEF Elsewhere

(* The voice block: one request's stage and audio, or the object it put.   *)
LEMMA BlockVoicedInv ==
  ASSUME VoicedInv, IInv', NEW r \in Request,
         \/ Enters(r) \/ Synthesized(r) \/ EngineFails(r) \/ Put(r) \/ Sign(r)
         \/ Looks(r) \/ Stat(r)
  PROVE  VoicedInv'
<1>0. /\ req \in [Request -> [pc : Running \cup {"unsent", "refused", "answered", "failed"},
                              key : Key \cup {NoKey}, found : Request \cup {Nothing}]]
      /\ stage \in [Request -> Stages]
      /\ voice \in [Request -> [source : Sources,
                                audio : Upload \cup Request \cup {NoAudio, AgentUrl}]]
      /\ named \in [Request -> Upload \cup {NoAudio}]
      /\ rows \subseteq Upload /\ objects \subseteq Upload \cup Request
      /\ {NoAudio, AgentUrl} \cap (Upload \cup Request) = {} /\ NoAudio # AgentUrl
  BY NoAudioAssumption DEF VoicedInv, IInv, TypeOK, VoicedTypeOK
<1>v. /\ BlockInv(r) /\ AudioInv(r) /\ LastsInv(r)
      /\ req[r].pc = "flushed" => r \notin stored
      /\ req[r].pc = "creating" => r \notin stored
  BY DEF VoicedInv, IInv, ProgressInv
<1>1. \A q \in Request \ {r} :
        /\ stage'[q] = stage[q] /\ voice'[q] = voice[q] /\ named'[q] = named[q]
        /\ req'[q] = req[q]
  BY <1>0 DEF Enters, Flush, Goto, Synthesized, EngineFails, Put, Sign, Looks, Stat, vars
<1>2. /\ objects \subseteq objects' /\ objects' \subseteq objects \cup {r} /\ rows' = rows
      /\ UNCHANGED <<stored, alive, faults>>
  BY DEF Enters, Flush, Goto, Synthesized, EngineFails, Put, Sign, Looks, Stat, vars
<1>3. \A q \in Request \ {r} : (BlockInv(q) /\ AudioInv(q) /\ LastsInv(q))'
  BY <1>1, <1>2 DEF VoicedInv, BlockInv, AudioInv, LastsInv, Audible, Signed, Text
<1>4. CASE Enters(r)
  <2>1. req'[r].pc = "flushed" /\ req[r].pc = "creating" /\ objects' = objects
    BY <1>0, <1>4 DEF Enters, Flush, Goto
  <2>2. stage[r] = "ready" /\ voice[r] = Text
    BY <1>v, <2>1 DEF BlockInv
  <2>3. PICK source \in Sources, url \in {NoAudio, AgentUrl}, u \in Upload \cup {NoAudio} :
          /\ voice' = [voice EXCEPT ![r] = [source |-> source, audio |-> url]]
          /\ stage' = [stage EXCEPT ![r] = FirstStage(source)]
          /\ named' = [named EXCEPT ![r] = u]
    BY <1>4 DEF Enters
  <2>4. /\ voice'[r] = [source |-> source, audio |-> url]
        /\ stage'[r] = FirstStage(source)
    BY <1>0, <2>3
  <2>5. /\ FirstStage(source) \in {"synthesize", "attach", "ready"}
        /\ FirstStage(source) = "attach" <=> source = "agent_audio"
        /\ FirstStage(source) = "ready" => source \in {"text", "client_tts"}
    BY DEF FirstStage, Sources
  <2>6. VoicedTypeOK'
    <3>1. voice' \in [Request -> [source : Sources,
                                 audio : Upload \cup Request \cup {NoAudio, AgentUrl}]]
      BY <1>0, <2>3
    <3>2. stage' \in [Request -> Stages] /\ named' \in [Request -> Upload \cup {NoAudio}]
      BY <1>0, <2>3, <2>5 DEF Stages
    <3> QED
      BY <1>0, <1>2, <2>1, <3>1, <3>2 DEF VoicedTypeOK
  <2>7. r \notin objects
    BY <1>0, <1>v, <2>2 DEF BlockInv, Text
  <2>8. ~Signed(voice'[r])
    BY <2>4 DEF Signed
  <2>9. (BlockInv(r) /\ AudioInv(r) /\ LastsInv(r))'
    BY <1>2, <1>v, <2>1, <2>4, <2>5, <2>7, <2>8 DEF BlockInv, AudioInv, LastsInv, Audible
  <2> QED
    BY <1>3, <2>6, <2>9 DEF VoicedInv
<1>5. CASE Synthesized(r) \/ Put(r) \/ Looks(r)
  <2>1. /\ At(r, "synthesize") \/ At(r, "put") \/ At(r, "attach")
        /\ stage'[r] \in {"put", "sign", "stat"} /\ stage' \in [Request -> Stages]
        /\ UNCHANGED <<req, voice, named>>
        /\ objects' \subseteq objects \cup {r}
        /\ IF stage'[r] = "sign" THEN r \in objects' ELSE objects' = objects
        /\ stage'[r] = "stat" => named[r] \in rows \ Foreign
        /\ stage[r] = "attach" <=> stage'[r] = "stat"
    BY <1>0, <1>5 DEF Synthesized, Put, Looks, Owned, At, Stages, vars
  <2>2. VoicedTypeOK'
    BY <1>0, <1>2, <2>1 DEF VoicedTypeOK
  <2>3. (BlockInv(r) /\ AudioInv(r) /\ LastsInv(r))'
    <3>1. stage[r] \in {"synthesize", "put", "attach"} /\ req[r].pc = "flushed"
      BY <2>1 DEF At
    <3>2. r \notin objects
      BY <1>v, <3>1 DEF BlockInv
    <3>3. BlockInv(r)'
      BY <1>2, <1>v, <2>1, <3>1, <3>2 DEF BlockInv, Audible, Signed
    <3>4. AudioInv(r)' /\ LastsInv(r)'
      BY <1>2, <1>v, <2>1 DEF AudioInv, LastsInv, Signed
    <3> QED
      BY <3>3, <3>4
  <2> QED
    BY <1>3, <2>2, <2>3 DEF VoicedInv
<1>6. CASE EngineFails(r)
  <2>1. /\ At(r, "synthesize") /\ UNCHANGED <<req, named, objects>>
        /\ voice' = [voice EXCEPT ![r].source = FallbackSource]
        /\ stage' = [stage EXCEPT ![r] = "ready"]
    BY <1>6 DEF EngineFails, vars
  <2>2. FallbackSource \in {"client_tts", "server_tts"}
        /\ (Fallback => FallbackSource = "client_tts")
    BY DEF FallbackSource
  <2>3. /\ voice'[r].source = FallbackSource /\ voice'[r].audio = voice[r].audio
        /\ stage'[r] = "ready"
    BY <1>0, <2>1
  <2>4. VoicedTypeOK'
    BY <1>0, <1>2, <2>1, <2>2 DEF VoicedTypeOK, Stages, Sources
  <2>5. (BlockInv(r) /\ AudioInv(r) /\ LastsInv(r))'
    BY <1>2, <1>v, <2>1, <2>2, <2>3 DEF BlockInv, AudioInv, LastsInv, Audible, Signed, At
  <2> QED
    BY <1>3, <2>4, <2>5 DEF VoicedInv
<1>7. CASE Sign(r) \/ Stat(r)
  <2>1. PICK a \in objects :
          /\ (At(r, "sign") /\ a = r) \/ (At(r, "stat") /\ a = named[r])
          /\ voice' = [voice EXCEPT ![r].audio = a]
          /\ stage' = [stage EXCEPT ![r] = "ready"]
          /\ UNCHANGED <<req, named, objects>>
    <3>1. CASE Sign(r)
      <4>1. r \in objects
        BY <1>v, <3>1 DEF Sign, At, BlockInv
      <4> QED
        BY <3>1, <4>1 DEF Sign, vars
    <3>2. CASE Stat(r)
      BY <3>2 DEF Stat, vars
    <3> QED
      BY <1>7, <3>1, <3>2
  <2>2. a \in {r} \cup (rows \ Foreign) /\ a \notin {NoAudio, AgentUrl}
    BY <1>0, <1>v, <2>1 DEF BlockInv, At
  <2>3. /\ voice'[r].source = voice[r].source /\ voice'[r].audio = a
        /\ stage'[r] = "ready"
    BY <1>0, <2>1
  <2>4. VoicedTypeOK'
    BY <1>0, <1>2, <2>1 DEF VoicedTypeOK, Stages
  <2>5. (BlockInv(r) /\ AudioInv(r) /\ LastsInv(r))'
    BY <1>2, <1>v, <2>1, <2>2, <2>3 DEF BlockInv, AudioInv, LastsInv, Audible, Signed, At
  <2> QED
    BY <1>3, <2>4, <2>5 DEF VoicedInv
<1> QED
  BY <1>4, <1>5, <1>6, <1>7

(* Uploads, in their own time, and the deletion of the user. *)
LEMMA StoreVoicedInv ==
  ASSUME VoicedInv, IInv',
         DeleteUserAndRows \/ \E u \in Upload : RequestUpload(u) \/ UploadArrives(u)
  PROVE  VoicedInv'
<1>1. CASE DeleteUserAndRows
  <2>1. /\ UNCHANGED <<stage, voice, named, objects, req, faults>>
        /\ rows' = rows \cap Foreign /\ stored' = {} /\ ~alive'
        /\ \A r \in Request : req[r].pc # "flushed"
    BY <1>1 DEF DeleteUserAndRows, DeleteUser
  <2>2. VoicedTypeOK'
    BY <2>1 DEF VoicedInv, VoicedTypeOK
  <2>3. ASSUME NEW r \in Request PROVE (BlockInv(r) /\ AudioInv(r) /\ LastsInv(r))'
    BY <2>1, UploadAssumption DEF VoicedInv, BlockInv, AudioInv, LastsInv, Audible, Signed, Text
  <2> QED
    BY <2>2, <2>3 DEF VoicedInv
<1>2. ASSUME NEW u \in Upload, RequestUpload(u) \/ UploadArrives(u) PROVE VoicedInv'
  <2>1. /\ UNCHANGED <<stage, voice, named, req, faults, stored, alive>>
        /\ rows \subseteq rows' /\ rows' \subseteq Upload
        /\ objects \subseteq objects' /\ objects' \subseteq objects \cup Upload
    BY <1>2 DEF RequestUpload, UploadArrives, vars, VoicedInv, VoicedTypeOK
  <2>2. VoicedTypeOK'
    BY <2>1 DEF VoicedInv, VoicedTypeOK
  <2>3. ASSUME NEW r \in Request PROVE (BlockInv(r) /\ AudioInv(r) /\ LastsInv(r))'
    BY <2>1, UploadAssumption DEF VoicedInv, BlockInv, AudioInv, LastsInv, Audible, Signed, Text
  <2> QED
    BY <2>2, <2>3 DEF VoicedInv
<1> QED
  BY <1>1, <1>2

LEMMA StepVoicedInv == VoicedInv /\ [VoicedNext]_<<vars, voiceVars>> => VoicedInv'
<1> SUFFICES ASSUME VoicedInv, [VoicedNext]_<<vars, voiceVars>> PROVE VoicedInv'
  OBVIOUS
<1>1. IInv'
  BY VoicedStep, StepIInv DEF VoicedInv
<1>2. CASE UNCHANGED <<vars, voiceVars>>
  <2>1. UNCHANGED <<stage, voice, named, rows, objects, req, faults, stored, alive>>
    BY <1>2 DEF vars, voiceVars
  <2>2. VoicedTypeOK'
    BY <2>1 DEF VoicedInv, VoicedTypeOK
  <2>3. ASSUME NEW r \in Request PROVE (BlockInv(r) /\ AudioInv(r) /\ LastsInv(r))'
    BY <2>1 DEF VoicedInv, BlockInv, AudioInv, LastsInv, Audible, Signed, Text
  <2> QED
    BY <1>1, <2>2, <2>3 DEF VoicedInv
<1>3. ASSUME NEW r \in Request, VoiceBlock(r) PROVE VoicedInv'
  <2>1. CASE RefuseAudio(r)
    <3>1. UNCHANGED voiceVars
      BY <2>1 DEF RefuseAudio
    <3> QED
      BY <1>1, <2>1, <3>1, OutsideVoicedInv
  <2> QED
    BY <1>1, <1>3, <2>1, BlockVoicedInv DEF VoiceBlock
<1> QED
  BY <1>1, <1>2, <1>3, StoreVoicedInv, OutsideVoicedInv DEF VoicedNext

(* Uploads, engines, fallbacks, failures and the deletion of the user, in  *)
(* any order, with any number of overlapping requests.                     *)
THEOREM VoicedInductive == VoicedSpec => []VoicedInv
BY InitVoicedInv, StepVoicedInv, PTL DEF VoicedSpec

(* The types of the audio's state. *)
THEOREM VoicedTypeCorrect == VoicedSpec => []VoicedTypeOK
<1>1. VoicedInv => VoicedTypeOK
  BY DEF VoicedInv
<1> QED BY <1>1, VoicedInductive, PTL

(* Audio that the server attached to a stored notification is in the       *)
(* object store, and its own or an upload of the user's agents; an agent's *)
(* own URL never stands in its place.                                      *)
THEOREM StoredIsPlayable == VoicedSpec => []PlayableAndOwn
<1>1. VoicedInv => PlayableAndOwn
  BY DEF VoicedInv, AudioInv, BlockInv, PlayableAndOwn, IInv, TypeOK, NothingForTheDeleted
<1> QED BY <1>1, VoicedInductive, PTL

(* With the fallback, stored voice notifications are played or spoken, and *)
(* engines that fail cost no notification.                                 *)
THEOREM StoredIsHeard == VoicedSpec => []VoiceIsHeard
<1>1. VoicedInv => VoiceIsHeard
  BY DEF VoicedInv, BlockInv, LastsInv, VoiceIsHeard, IInv, TypeOK
<1> QED BY <1>1, VoicedInductive, PTL

=============================================================================
