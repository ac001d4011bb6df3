----------------------------- MODULE ModelFiles -----------------------------
(***************************************************************************)
(* The model files on disk (model.rs): the bundled ONNX files staged on    *)
(* every launch, the wake classifiers and the language model the user      *)
(* downloads, what is checked when each is loaded, and the app ending      *)
(* between any two steps.  A file is its body: "none", "short" for one     *)
(* that breaks off, "good" for the one the manifest lists, "other" for a   *)
(* different one of the same size, "own" for one of the user's making.     *)
(***************************************************************************)
EXTENDS Naturals, FiniteSets

CONSTANTS
  Bundled,       \* the files that ship, of "vad", "mel", "embed" and "hey"
  Downloads,     \* the downloads, of "jarvis" and "gguf"
  MaxOutside     \* bound: changes of a file from outside the app

ModelFilesAssumption ==
  /\ Bundled \subseteq {"vad", "mel", "embed", "hey"}
  /\ Downloads \subseteq {"jarvis", "gguf"} /\ MaxOutside \in Nat

VARIABLES
  disk,      \* each file's body
  partial,   \* the language model's .partial file
  anchor,    \* the body whose hash its .sha256 file holds
  pin,       \* what the manifest pins of it: its hash, its size
  staging,   \* staging: what is left to copy, the file under way, its end
  get,       \* each download: where it stands and what arrived
  running,   \* the bodies each engine was loaded with
  outside    \* the files changed from outside

vars == <<disk, partial, anchor, pin, staging, get, running, outside>>

-----------------------------------------------------------------------------
(* The manifests: the two verified models, the classifier that ships, the  *)
(* one to download, and the language model.                                *)
FilesOf(model) == IF model = "silero" THEN {"vad"} ELSE {"mel", "embed"}
Classifiers == {"hey", "jarvis"}
Files == {"vad", "mel", "embed", "hey", "jarvis", "gguf"}
Bodies == {"none", "short", "good", "other", "own"}

Exists(f) == disk[f] # "none"
RightSize(body) == body \in {"good", "other"}
Mut_Hashed(f) == RightSize(disk[f])
Hashed(f) == disk[f] = "good"

(* Every file of the model: there, of its size, and of its hash.           *)
VerifiedDir(model) == \A f \in FilesOf(model) : Exists(f) /\ RightSize(disk[f]) /\ Hashed(f)

(* What the Hub lists as installed: there, and of the pinned size.         *)
GgufSized == Exists("gguf") /\ (~pin.size \/ RightSize(disk["gguf"]))
IsLocalLlmInstalled == GgufSized
Listed(f) == IF f = "gguf" THEN GgufSized ELSE Exists(f) /\ RightSize(disk[f])

-----------------------------------------------------------------------------
Idle == [pc |-> "idle", got |-> "none", result |-> "none"]
NoStaging == [pc |-> "idle", left |-> {}, now |-> "none", failed |-> {}]
Nothing == [engine \in {"silero", "shared"} \cup Classifiers \cup {"gguf"} |-> {}]

Init ==
  /\ disk = [f \in Files |-> "none"] /\ partial = "none" /\ anchor = "none"
  /\ pin \in [sha : BOOLEAN, size : BOOLEAN]
  /\ staging = NoStaging /\ get = [f \in {"jarvis", "gguf"} |-> Idle]
  /\ running = Nothing /\ outside = {}

Put(f, body) == disk' = [disk EXCEPT ![f] = body]

(* The user puts in a classifier of their own, or a file goes bad.         *)
Outside(f, body) ==
  /\ Cardinality(outside) < MaxOutside /\ staging.now # f /\ (f \in Downloads => get[f].pc # "write")
  /\ Exists(f) \/ body = "own"
  /\ Put(f, body) /\ outside' = outside \cup {f}
  /\ UNCHANGED <<partial, anchor, pin, staging, get, running>>

-----------------------------------------------------------------------------
(* stage_bundled_audio_models, on every launch: each bundled file that has *)
(* nothing at its place.  A copy that fails ends its directory's staging.  *)
Together(f) == IF f \in {"mel", "embed"} THEN {"mel", "embed"} ELSE {f}

Launch ==
  /\ staging.pc = "idle" /\ staging' = [NoStaging EXCEPT !.pc = "copy", !.left = Bundled]
  /\ UNCHANGED <<disk, partial, anchor, pin, get, running, outside>>

Mut_Keeps(f) == Hashed(f)
Keeps(f) == Exists(f)
Stage(f) ==
  /\ f \in staging.left /\ staging.now = "none"
  /\ IF Keeps(f) THEN staging' = [staging EXCEPT !.left = @ \ {f}] /\ UNCHANGED disk
                 ELSE staging' = [staging EXCEPT !.now = f] /\ Put(f, "short")
  /\ UNCHANGED <<partial, anchor, pin, get, running, outside>>

Mut_Copied ==
  /\ staging.now # "none"
  /\ Put(staging.now, "good") /\ outside' = outside \cup {"none"}
  /\ staging' = [staging EXCEPT !.left = @ \ {staging.now}, !.now = "none"]
  /\ UNCHANGED <<partial, anchor, pin, get, running>>
Copied ==
  /\ staging.now # "none"
  /\ \/ Put(staging.now, "good")
        /\ staging' = [staging EXCEPT !.left = @ \ {staging.now}, !.now = "none"]
     \/ /\ staging' = [staging EXCEPT !.left = @ \ Together(staging.now), !.now = "none",
                                      !.failed = @ \cup Together(staging.now)]
        /\ UNCHANGED disk
  /\ UNCHANGED <<partial, anchor, pin, get, running, outside>>

(* The engines start after the staging.                                    *)
Staged ==
  /\ staging.pc = "copy" /\ staging.left = {} /\ staging' = [staging EXCEPT !.pc = "done"]
  /\ UNCHANGED <<disk, partial, anchor, pin, get, running, outside>>

-----------------------------------------------------------------------------
(* A wake classifier is downloaded whole into memory, checked, and written *)
(* over what is there.                                                     *)
Goto(f, pc) == get' = [get EXCEPT ![f].pc = pc]
End(f, result) == get' = [get EXCEPT ![f] = [Idle EXCEPT !.result = result]]

Mut_AcceptWake(body) == RightSize(body)
AcceptWake(body) == RightSize(body) /\ body = "good"

InstallWake ==
  /\ "jarvis" \in Downloads /\ staging.pc = "done"
  /\ get["jarvis"].pc = "idle"
  /\ IF Exists("jarvis") /\ RightSize(disk["jarvis"]) /\ Hashed("jarvis")
     THEN End("jarvis", "ok") ELSE Goto("jarvis", "request")
  /\ UNCHANGED <<disk, partial, anchor, pin, staging, running, outside>>

ReceiveWake ==
  /\ get["jarvis"].pc = "request"
  /\ \E body \in {"none", "short", "good", "other"} :
       IF AcceptWake(body)
       THEN get' = [get EXCEPT !["jarvis"] = [pc |-> "write", got |-> body, result |-> "none"]]
            /\ Put("jarvis", "short")
       ELSE End("jarvis", "failed") /\ UNCHANGED disk
  /\ UNCHANGED <<partial, anchor, pin, staging, running, outside>>

WriteWake ==
  /\ get["jarvis"].pc = "write"
  /\ \/ Put("jarvis", get["jarvis"].got) /\ End("jarvis", "ok")
     \/ End("jarvis", "failed") /\ UNCHANGED disk
  /\ UNCHANGED <<partial, anchor, pin, staging, running, outside>>

-----------------------------------------------------------------------------
(* The language model goes to a .partial file, hashed on the way, and is   *)
(* renamed when it has passed.  What is there already is kept if it has    *)
(* its size and its hash: the manifest's, or the one of the first install. *)
PersistedShaMatches == anchor # "none" /\ anchor = disk["gguf"]
Present == GgufSized /\ (IF pin.sha THEN Hashed("gguf") ELSE PersistedShaMatches)

InstallGguf ==
  /\ "gguf" \in Downloads /\ staging.pc = "done"
  /\ get["gguf"].pc = "idle"
  /\ IF Present THEN End("gguf", "ok") ELSE Goto("gguf", "request")
  /\ UNCHANGED <<disk, partial, anchor, pin, staging, running, outside>>

Mut_Create == Put("gguf", "short") /\ UNCHANGED partial
Create == partial' = "short" /\ UNCHANGED disk
RequestGguf ==
  /\ get["gguf"].pc = "request"
  /\ \/ Create /\ Goto("gguf", "receive")
     \/ End("gguf", "failed") /\ UNCHANGED <<disk, partial>>
  /\ UNCHANGED <<anchor, pin, staging, running, outside>>

(* A stream that breaks leaves the .partial file behind.                   *)
ReceiveGguf ==
  /\ get["gguf"].pc = "receive"
  /\ \/ \E body \in {"short", "good", "other"} :
          partial' = body /\ get' = [get EXCEPT !["gguf"].pc = "check", !["gguf"].got = body]
     \/ End("gguf", "failed") /\ UNCHANGED partial
  /\ UNCHANGED <<disk, anchor, pin, staging, running, outside>>

(* Without a pinned hash, the one that was computed becomes the anchor,    *)
(* before the size is looked at.                                           *)
PersistSha ==
  /\ get["gguf"].pc = "check" /\ ~pin.sha
  /\ \/ anchor' = get["gguf"].got /\ Goto("gguf", "promote")
     \/ End("gguf", "failed") /\ UNCHANGED anchor
  /\ UNCHANGED <<disk, partial, pin, staging, running, outside>>

Mut_Passes(body) == ~pin.size \/ RightSize(body)
Passes(body) == (pin.sha => body = "good") /\ (~pin.size \/ RightSize(body))
Promote ==
  /\ get["gguf"].pc = (IF pin.sha THEN "check" ELSE "promote")
  /\ partial' = "none"
  /\ IF Passes(get["gguf"].got) THEN Put("gguf", partial) /\ End("gguf", "ok")
                                ELSE End("gguf", "failed") /\ UNCHANGED disk
  /\ UNCHANGED <<anchor, pin, staging, running, outside>>

(* The anchor goes with the file; a .partial file stays.                   *)
DeleteGguf ==
  /\ staging.pc = "done"
  /\ Put("gguf", "none") /\ anchor' = "none"
  /\ Exists("gguf") \/ anchor # "none"
  /\ UNCHANGED <<partial, pin, staging, get, running, outside>>

-----------------------------------------------------------------------------
(* Loading.  The two manifest models are verified each time; a classifier  *)
(* is loaded by its path, with the shared models it needs; the server is   *)
(* started on a language model of the right size.                          *)
Load(engine, files) == running' = [running EXCEPT ![engine] = {disk[f] : f \in files}]
LoadVad ==
  /\ staging.pc = "done"
  /\ VerifiedDir("silero") /\ Load("silero", FilesOf("silero"))
  /\ UNCHANGED <<disk, partial, anchor, pin, staging, get, outside>>
LoadWake(c) ==
  /\ staging.pc = "done"
  /\ VerifiedDir("shared") /\ Exists(c)
  /\ running' = [running EXCEPT !["shared"] = {disk[f] : f \in FilesOf("shared")}, ![c] = {disk[c]}]
  /\ UNCHANGED <<disk, partial, anchor, pin, staging, get, outside>>
EnsureLocalLlm ==
  /\ staging.pc = "done"
  /\ IsLocalLlmInstalled /\ Load("gguf", {"gguf"})
  /\ UNCHANGED <<disk, partial, anchor, pin, staging, get, outside>>

Quit ==
  /\ staging' = NoStaging /\ get' = [f \in {"jarvis", "gguf"} |-> Idle] /\ running' = Nothing
  /\ UNCHANGED <<disk, partial, anchor, pin, outside>>

Next ==
  \/ Launch \/ Copied \/ Staged \/ \E f \in Bundled : Stage(f)
  \/ InstallWake \/ ReceiveWake \/ WriteWake
  \/ InstallGguf \/ RequestGguf \/ ReceiveGguf \/ PersistSha \/ Promote \/ DeleteGguf
  \/ LoadVad \/ EnsureLocalLlm \/ \E c \in Classifiers : LoadWake(c)
  \/ Quit \/ \E f \in Bundled \cup Downloads, body \in {"other", "own"} : Outside(f, body)

Spec == Init /\ [][Next]_vars

-----------------------------------------------------------------------------
(* Types: each file, and what is read from it, is one of the bodies.       *)
FilesTypeOK ==
  /\ disk \in [Files -> Bodies] /\ partial \in Bodies /\ anchor \in Bodies
  /\ pin \in [sha : BOOLEAN, size : BOOLEAN] /\ outside \subseteq Files
  /\ running \in [DOMAIN Nothing -> SUBSET Bodies]

(* What the voice detector and the shared wake models run on is what the   *)
(* manifest lists, whatever was done to their files (model.rs verified_dir,*)
(* vad.rs SileroVad::load, wake.rs WakeWord::load).                        *)
LoadsVerified == running["silero"] \cup running["shared"] \subseteq {"good"}

(* A language model the Hub lists as installed is the whole one, wherever  *)
(* a download was cut off, unless its file was changed from outside        *)
(* (install_local_llm_model, is_local_llm_installed).                      *)
ListedIsWhole == (pin.sha /\ pin.size /\ Listed("gguf")) => (disk["gguf"] = "good" \/ "gguf" \in outside)

(* What loads was verified and what is listed is whole, whatever was cut   *)
(* off.                                                                    *)
ModelFilesInv ==
  /\ FilesTypeOK
  /\ LoadsVerified
  /\ ListedIsWhole

-----------------------------------------------------------------------------
(* What no step does                                                       *)

Succeeds(f) == get[f].result # "ok" /\ get'[f].result = "ok"

(* An install that reports success leaves what it was asked for: the       *)
(* pinned file, or one of the pinned size whose hash is the anchor.        *)
OkIsRight ==
  /\ Succeeds("jarvis") => disk'["jarvis"] = "good"
  /\ Succeeds("gguf") => IF pin.sha THEN disk'["gguf"] = "good"
                         ELSE /\ pin.size => RightSize(disk'["gguf"])
                              /\ anchor' \in {"none", disk'["gguf"]}

(* A model that can be used stays usable while another download of it      *)
(* runs, and fails: only a deletion or a change from outside takes it.     *)
KeepsTheListed ==
  Listed("gguf") /\ ~Listed("gguf")' => DeleteGguf \/ outside' # outside

(* A file of the user's own making is never written over by the staging    *)
(* (install_bundled_wake_classifiers).                                     *)
OwnIsKept ==
  \A f \in Bundled : disk[f] = "own" /\ disk'[f] # "own" => outside' # outside
=============================================================================
