------------------------------- MODULE Voice -------------------------------
(***************************************************************************)
(* The audio of voice notifications: what create_notification does between *)
(* its flush and its dispatch (server/app/tts/synthesizer.py), the uploads *)
(* of agents (server/app/api/audio.py) and the object store behind both.   *)
(*                                                                         *)
(* Composes with Creation.tla: every step of a request is a step of        *)
(* Creation with what it does to the audio, and the steps of the voice     *)
(* block happen while Creation's request is "flushed".  A transaction that *)
(* rolls back takes its audio_assets row along, but not the object it put. *)
(***************************************************************************)
EXTENDS Creation

CONSTANTS
  Upload,   \* ids that POST /audio/uploads hands out, to any user's agents
  Foreign,  \* those of other users
  NoAudio,  \* voice.audio_id or audio_url absent
  AgentUrl, \* an audio_url that the agent itself wrote into voice
  Fallback  \* settings.tts_fallback_provider is client_tts

ASSUME UploadAssumption == Foreign \subseteq Upload /\ Upload \cap Request = {}
ASSUME NoAudioAssumption ==
  /\ {NoAudio, AgentUrl} \cap (Upload \cup Request) = {}
  /\ NoAudio # AgentUrl
ASSUME FallbackAssumption == Fallback \in BOOLEAN

VARIABLES
  stage,   \* per request: where it is in the voice block
  voice,   \* per request: notification.voice: its source, and the audio its
           \* audio_url names (a synthesized asset is named by its request)
  named,   \* per request: the audio_id the agent sent
  rows,    \* committed audio_assets of uploads
  objects  \* audio in the object store

voiceVars == <<stage, voice, named, rows, objects>>

Sources == {"text", "client_tts", "server_tts", "agent_audio"}

Text == [source |-> "text", audio |-> NoAudio]

VoicedInit ==
  /\ Init
  /\ stage = [r \in Request |-> "ready"]
  /\ voice = [r \in Request |-> Text]
  /\ named = [r \in Request |-> NoAudio]
  /\ rows = Foreign
  /\ objects \in SUBSET Foreign

-----------------------------------------------------------------------------
(* server_tts: VoiceSynthesizer.apply *)

At(r, s) == req[r].pc = "flushed" /\ stage[r] = s

(* The stage of the voice block at which a notification of a source begins. *)
FirstStage(source) ==
  CASE source = "server_tts" -> "synthesize"
    [] source = "agent_audio" -> "attach"
    [] OTHER -> "ready"

(* The agent's voice is stored as it sent it, an audio_url included, and    *)
(* its source says which block the flushed notification enters.  Text (any *)
(* notification that is not of type voice) enters none.                    *)
Enters(r) ==
  /\ Flush(r)
  /\ \E source \in Sources, url \in {NoAudio, AgentUrl}, u \in Upload \cup {NoAudio} :
       /\ voice' = [voice EXCEPT ![r] = [source |-> source, audio |-> url]]
       /\ stage' = [stage EXCEPT ![r] = FirstStage(source)]
       /\ named' = [named EXCEPT ![r] = u]
       /\ source # "agent_audio" => u = NoAudio
       /\ source = "text" => url = NoAudio
  /\ UNCHANGED <<rows, objects>>

(* The engine returned audio, and the asset's row is flushed. *)
Synthesized(r) ==
  /\ At(r, "synthesize")
  /\ stage' = [stage EXCEPT ![r] = "put"]
  /\ UNCHANGED <<vars, voice, named, rows, objects>>

FallbackSourceKept == "server_tts"

(* The source under which the client gets what could not be synthesized. *)
FallbackSource == IF Fallback THEN "client_tts" ELSE "server_tts"

(* TTSProviderError: empty text, an HTTP or process error, no audio.  What  *)
(* else the agent wrote into voice stays, an audio_url too.  An engine     *)
(* that is not known raises something else: see Creation's CreateRaises.   *)
EngineFails(r) ==
  /\ At(r, "synthesize")
  /\ voice' = [voice EXCEPT ![r].source = FallbackSource]
  /\ stage' = [stage EXCEPT ![r] = "ready"]
  /\ UNCHANGED <<vars, named, rows, objects>>

(* storage.put, outside the transaction. *)
Put(r) ==
  /\ At(r, "put")
  /\ objects' = objects \cup {r}
  /\ stage' = [stage EXCEPT ![r] = "sign"]
  /\ UNCHANGED <<vars, voice, named, rows>>

SignBeforePut(r) ==
  /\ At(r, "sign") \/ At(r, "put")
  /\ voice' = [voice EXCEPT ![r].audio = r]
  /\ stage' = [stage EXCEPT ![r] = "ready"]
  /\ UNCHANGED <<vars, named, rows, objects>>

(* storage.signed_url; audio_id and audio_url are set, whatever the agent sent. *)
Sign(r) ==
  /\ At(r, "sign")
  /\ voice' = [voice EXCEPT ![r].audio = r]
  /\ stage' = [stage EXCEPT ![r] = "ready"]
  /\ UNCHANGED <<vars, named, rows, objects>>

-----------------------------------------------------------------------------
(* agent_audio: VoiceSynthesizer.attach_agent_audio *)

(* session.get(AudioAsset), and its owner. *)
Owned(u) == u \in rows \ Foreign

Looks(r) ==
  /\ At(r, "attach")
  /\ Owned(named[r])
  /\ stage' = [stage EXCEPT ![r] = "stat"]
  /\ UNCHANGED <<vars, voice, named, rows, objects>>

(* Nobody deletes objects: what storage.stat finds is there when the URL   *)
(* is signed.                                                              *)
Stat(r) ==
  /\ At(r, "stat")
  /\ named[r] \in objects
  /\ voice' = [voice EXCEPT ![r].audio = named[r]]
  /\ stage' = [stage EXCEPT ![r] = "ready"]
  /\ UNCHANGED <<vars, named, rows, objects>>

(* audio_id is missing or not found, or nothing has been uploaded. *)
RefuseAudio(r) ==
  /\ \/ At(r, "attach") /\ ~Owned(named[r])
     \/ At(r, "stat") /\ named[r] \notin objects
  /\ RefuseNamed(r)
  /\ UNCHANGED voiceVars

-----------------------------------------------------------------------------
(* POST /audio/uploads, of an agent of the user *)
RequestUpload(u) ==
  /\ alive /\ u \notin rows
  /\ rows' = rows \cup {u}
  /\ UNCHANGED <<vars, stage, voice, named, objects>>

(* The agent's PUT to the presigned URL. *)
UploadArrives(u) ==
  /\ u \in rows \ objects
  /\ objects' = objects \cup {u}
  /\ UNCHANGED <<vars, stage, voice, named, rows>>

(* The user's rows go, their objects stay. *)
DeleteUserAndRows ==
  /\ DeleteUser
  /\ rows' = rows \cap Foreign
  /\ UNCHANGED <<stage, voice, named, objects>>

-----------------------------------------------------------------------------
VoiceBlock(r) ==
  \/ Enters(r) \/ Synthesized(r) \/ EngineFails(r) \/ Put(r) \/ Sign(r)
  \/ Looks(r) \/ Stat(r) \/ RefuseAudio(r)

(* What the voice block has to be done with first. *)
AfterBlock(r) == stage[r] = "ready" /\ Commit(r)

(* The other steps of a request, before and after the block. *)
Elsewhere(r) ==
  \/ Refuse(r) \/ LookUp(r) \/ Fetch(r) \/ FlushRaises(r) \/ CreateRaises(r)
  \/ req[r].pc = "creating" /\ RefuseNamed(r)
  \/ AfterBlock(r) \/ AfterwardsRaises(r) \/ Remember(r)

VoicedNext ==
  \/ \E r \in Request : VoiceBlock(r)
  \/ \E u \in Upload : RequestUpload(u) \/ UploadArrives(u)
  \/ DeleteUserAndRows
  \/ /\ \/ \E r \in Request : Elsewhere(r) \/ \E k \in Key \cup {NoKey} : Send(r, k)
        \/ \E k \in Key : KeyExpires(k)
        \/ Restart
     /\ UNCHANGED voiceVars

VoicedSpec == VoicedInit /\ [][VoicedNext]_<<vars, voiceVars>>

-----------------------------------------------------------------------------
(* Invariants *)

Stages == {"ready", "synthesize", "put", "sign", "attach", "stat"}

(* The values the variables range over. *)
VoicedTypeOK ==
  /\ stage \in [Request -> Stages]
  /\ voice \in [Request -> [source : Sources,
                            audio : Upload \cup Request \cup {NoAudio, AgentUrl}]]
  /\ named \in [Request -> Upload \cup {NoAudio}]
  /\ rows \subseteq Upload /\ objects \subseteq Upload \cup Request

(* The server attached the audio: the URL is one it signed. *)
Signed(v) == v.audio \notin {NoAudio, AgentUrl}

(* Audio that the server attached to a stored notification can be          *)
(* downloaded and is the user's: its own synthesis or an upload of the     *)
(* user's agents.  An agent's own audio_url, which the code keeps as it    *)
(* is, never stands where the server had audio to attach: not for          *)
(* agent_audio, and not once the notification's synthesis was put.         *)
(* Requests that fail or roll back, and overlapping ones, leave objects    *)
(* behind, never URLs without one.                                         *)
PlayableAndOwn ==
  \A r \in stored :
    /\ Signed(voice[r]) => voice[r].audio \in objects \cap ({r} \cup (rows \ Foreign))
    /\ voice[r].source = "agent_audio" => Signed(voice[r])
    /\ r \in objects => voice[r].audio = r

(* AppState._onNotification plays a URL, the agent's own too, or speaks a  *)
(* client_tts text.                                                        *)
Audible(v) == v.audio # NoAudio \/ v.source = "client_tts"

(* With the fallback configured, however engines fail, every voice         *)
(* notification that is stored gives its client a URL to play or a text to *)
(* speak, and engines that fail never cost a notification: without other   *)
(* faults, a request for server_tts that reached the voice block is under  *)
(* way or answered.                                                        *)
VoiceIsHeard ==
  Fallback => \A r \in Request : voice[r].source # "text" =>
    /\ r \in stored => Audible(voice[r])
    /\ faults = 0 /\ voice[r].source = "server_tts"
         => req[r].pc \in {"flushed", "committed", "answered"}

=============================================================================
