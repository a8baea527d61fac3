----------------------------- MODULE LocalTrust -----------------------------
(***************************************************************************)
(* The pub as its own trust authority (OPENPUB_TRUST_MODE=local): the      *)
(* issuer's key file (auth/local-issuer.ts), the roster of agents as a     *)
(* file and as a map (auth/local-agent-registry.ts), the routes            *)
(* /admin/register-agent and /agents/auth, and the boot that loads both    *)
(* (server.ts:1270-1285).  The supervisor edits the roster in place at any *)
(* time; the process may be killed between any two writes and is restarted *)
(* (deploy/systemd).  In hub mode none of this is initialised.             *)
(*                                                                         *)
(* A roster is the set of its agents' ids.  A missing roster file reads as *)
(* an empty one.  Reading checks every record against a schema, writing    *)
(* checks none.                                                            *)
(***************************************************************************)
EXTENDS Naturals

CONSTANTS
    Agents,     \* agent ids
    Malformed,  \* agents whose record the schema of the file rejects: an id
                \* that is no uuid, a name of more than 64 characters
    NoAgent,    \* no registration in progress
    MaxCrashes, \* bound on crashes
    MaxEdits    \* bound on the supervisor's edits, of the roster and of the key

VARIABLES
    process,     \* "hub", "down", the step of the boot, or "serving"
    keyFile,     \* the key in the issuer's key file, 0 for no file
    keyTorn,     \* the key file is created and not written yet
    issuer,      \* the key in memory, 0 for none
    generated,   \* how many keys were ever generated
    retired,     \* the keys the supervisor removed
    file,        \* the roster on disk
    torn,        \* the roster is truncated, in the middle of an edit
    memory,      \* the roster in memory
    event,       \* an fs.watch event of the roster waits for the event loop
    unwatched,   \* the roster changed after it was loaded and before the watch
    editor,      \* the supervisor's edit: "idle", "live", or "orphan" if its
                 \* file was replaced meanwhile
    registering, \* the registration in progress: one synchronous stretch
    renamed,     \* it reached the file
    unsaved,     \* history: agents in the map whose registration is not on disk
    acked,       \* history: agents answered 201 and not edited away since
    verifying,   \* auth requests whose signature is being verified
    token,       \* the key each agent's token is signed with, 0 for none
    admitted,    \* agents whose token was accepted at /ws
    crashes, edits

keyState == <<keyFile, keyTorn, issuer, generated, retired>>
disk     == <<file, torn, editor>>
roster   == <<memory, event, unwatched, registering, renamed, unsaved>>
agents   == <<verifying, token, admitted>>
localVars == <<process, keyState, disk, roster, acked, agents, crashes, edits>>

Boot == {"key", "write", "load", "watch"}

FlagsOK ==
    /\ keyTorn \in BOOLEAN /\ torn \in BOOLEAN
    /\ event \in BOOLEAN /\ unwatched \in BOOLEAN /\ renamed \in BOOLEAN

LocalTypeOK ==
    /\ process \in {"hub", "down", "serving"} \cup Boot
    /\ keyFile \in Nat /\ issuer \in Nat /\ generated \in Nat
    /\ retired \subseteq Nat
    /\ file \subseteq Agents /\ memory \subseteq Agents
    /\ unsaved \subseteq Agents /\ acked \subseteq Agents
    /\ editor \in {"idle", "live", "orphan"}
    /\ registering \in Agents \cup {NoAgent}
    /\ FlagsOK
    /\ verifying \subseteq Agents /\ admitted \subseteq Agents
    /\ token \in [Agents -> Nat]
    /\ crashes \in Nat /\ edits \in Nat

\* The first boot of an installation, in one mode or the other
LocalInit ==
    /\ process \in {"hub", "down"}
    /\ keyFile = 0 /\ issuer = 0 /\ generated = 0 /\ retired = {}
    /\ file = {} /\ memory = {} /\ unsaved = {} /\ acked = {}
    /\ keyTorn = FALSE /\ torn = FALSE
    /\ event = FALSE /\ unwatched = FALSE /\ renamed = FALSE
    /\ editor = "idle"
    /\ registering = NoAgent
    /\ verifying = {} /\ admitted = {}
    /\ token = [a \in Agents |-> 0]
    /\ crashes = 0 /\ edits = 0

-----------------------------------------------------------------------------
(* Boot, crash and restart *)

\* What ends with the process
Dies ==
    /\ process' = "down"
    /\ issuer' = 0
    /\ memory' = {} /\ unsaved' = {} /\ event' = FALSE /\ unwatched' = FALSE
    /\ registering' = NoAgent /\ renamed' = FALSE
    /\ verifying' = {} /\ admitted' = {}
    /\ UNCHANGED <<keyFile, keyTorn, generated, retired, disk, acked, token, edits>>

\* A crash loses what is in memory; what was written stays, also half a key
Crash ==
    /\ process \in Boot \cup {"serving"}
    /\ crashes < MaxCrashes
    /\ crashes' = crashes + 1
    /\ Dies

Start ==
    /\ process = "down"
    /\ process' = "key"
    /\ UNCHANGED <<keyState, disk, roster, acked, agents, crashes, edits>>

\* Mutant: the key is written to its file again at each boot
LoadKeyRewrites ==
    /\ process = "key"
    /\ keyFile # 0 /\ ~keyTorn
    /\ issuer' = keyFile
    /\ keyTorn' = TRUE
    /\ process' = "write"
    /\ UNCHANGED <<keyFile, generated, retired, disk, roster, acked, agents,
                   crashes, edits>>

\* loadOrCreate finds the key, parses it and imports it
LoadKey ==
    /\ process = "key"
    /\ keyFile # 0 /\ ~keyTorn
    /\ issuer' = keyFile
    /\ process' = "load"
    /\ UNCHANGED <<keyFile, keyTorn, generated, retired, disk, roster, acked,
                   agents, crashes, edits>>

\* Mutant: the fresh key is used and not saved
CreateKeyUnsaved ==
    /\ process = "key"
    /\ keyFile = 0 /\ ~keyTorn
    /\ generated' = generated + 1
    /\ issuer' = generated + 1
    /\ process' = "load"
    /\ UNCHANGED <<keyFile, keyTorn, retired, disk, roster, acked, agents,
                   crashes, edits>>

\* No key file: a fresh key, and the file opened for it
CreateKey ==
    /\ process = "key"
    /\ keyFile = 0 /\ ~keyTorn
    /\ generated' = generated + 1
    /\ issuer' = generated + 1
    /\ keyTorn' = TRUE
    /\ process' = "write"
    /\ UNCHANGED <<keyFile, retired, disk, roster, acked, agents, crashes, edits>>

WriteKey ==
    /\ process = "write"
    /\ keyFile' = issuer
    /\ keyTorn' = FALSE
    /\ process' = "load"
    /\ UNCHANGED <<issuer, generated, retired, disk, roster, acked, agents,
                   crashes, edits>>

\* RegistryFile.parse accepts what is on disk
Parses == ~torn /\ file \cap Malformed = {}

\* reload() in LocalAgentRegistry.load
LoadRoster ==
    /\ process = "load"
    /\ Parses
    /\ memory' = file
    /\ process' = "watch"
    /\ UNCHANGED <<keyState, disk, event, unwatched, registering, renamed, unsaved,
                   acked, agents, crashes, edits>>

Watch ==
    /\ process = "watch"
    /\ process' = "serving"
    /\ UNCHANGED <<keyState, disk, roster, acked, agents, crashes, edits>>

\* The key or the roster does not parse: start() exits with 1
BootFails ==
    /\ \/ process = "key" /\ keyTorn
       \/ process = "load" /\ ~Parses
    /\ UNCHANGED crashes
    /\ Dies

-----------------------------------------------------------------------------
(* The supervisor, which owns the files *)

\* The roster changed on disk: the watcher is told, if there is one yet
Touched ==
    /\ event' = (event \/ process = "serving")
    /\ unwatched' = (unwatched \/ process = "watch")

\* An edit in place truncates the file, and writes it later, or never
BeginEdit ==
    /\ process # "hub"
    /\ editor = "idle"
    /\ edits < MaxEdits
    /\ edits' = edits + 1
    /\ editor' = "live"
    /\ file' = {} /\ torn' = TRUE
    /\ Touched
    /\ UNCHANGED <<process, keyState, memory, registering, renamed, unsaved, acked,
                   agents, crashes>>

EndEdit(S) ==
    /\ editor = "live"
    /\ editor' = "idle"
    /\ file' = S /\ torn' = FALSE
    /\ Touched
    /\ acked' = acked \cap S
    /\ UNCHANGED <<process, keyState, memory, registering, renamed, unsaved, agents,
                   crashes, edits>>

\* The file was replaced under the edit: what it writes has no name any more
EndLostEdit ==
    /\ editor = "orphan"
    /\ editor' = "idle"
    /\ UNCHANGED <<process, keyState, file, torn, roster, acked, agents, crashes, edits>>

\* "A deliberate restart with a new issuer file" (jwt-validator.ts:65-66)
RemoveKey ==
    /\ process = "down"
    /\ keyFile # 0 \/ keyTorn
    /\ edits < MaxEdits
    /\ edits' = edits + 1
    /\ keyFile' = 0 /\ keyTorn' = FALSE
    /\ retired' = retired \cup {keyFile}
    /\ UNCHANGED <<process, issuer, generated, disk, roster, acked, agents, crashes>>

-----------------------------------------------------------------------------
(* The roster in memory *)

\* Nothing runs between a registration's check and its answer
Free == process = "serving" /\ registering = NoAgent

\* Mutant: a roster that is loaded is not read again
ReloadOnce ==
    /\ Free
    /\ event
    /\ event' = FALSE
    /\ memory' = IF memory = {} /\ Parses THEN file ELSE memory
    /\ UNCHANGED <<process, keyState, disk, unwatched, registering, renamed, unsaved,
                   acked, agents, crashes, edits>>

\* Mutant: a file that does not parse counts as an empty one
ReloadTorn ==
    /\ Free
    /\ event
    /\ event' = FALSE
    /\ memory' = IF Parses THEN file ELSE {}
    /\ unwatched' = (unwatched /\ ~Parses)
    /\ unsaved' = {}
    /\ UNCHANGED <<process, keyState, disk, registering, renamed, acked, agents,
                   crashes, edits>>

\* The watcher's callback: a file that does not parse leaves the map as it is
Reload ==
    /\ Free
    /\ event
    /\ event' = FALSE
    /\ IF Parses
       THEN memory' = file /\ unsaved' = {} /\ unwatched' = FALSE
       ELSE UNCHANGED <<memory, unsaved, unwatched>>
    /\ UNCHANGED <<process, keyState, disk, registering, renamed, acked, agents,
                   crashes, edits>>

\* The map takes the agent, whatever its record is like
AddRecord(a) ==
    /\ Free
    /\ a \notin memory
    /\ memory' = memory \cup {a}
    /\ unsaved' = unsaved \cup {a}

\* register() up to the temporary file, which holds the map as it is now
Register(a) ==
    /\ AddRecord(a)
    /\ registering' = a
    /\ UNCHANGED <<process, keyState, disk, event, unwatched, renamed, acked,
                   agents, crashes, edits>>

\* The write fails: 409, and the map keeps the agent
RegisterFails(a) ==
    /\ AddRecord(a)
    /\ UNCHANGED <<process, keyState, disk, event, unwatched, registering, renamed,
                   acked, agents, crashes, edits>>

\* The temporary file replaces the roster, whatever either holds by now
Rename ==
    /\ registering # NoAgent
    /\ ~renamed
    /\ renamed' = TRUE
    /\ file' = memory /\ torn' = FALSE
    /\ unsaved' = {}
    /\ editor' = IF editor = "live" THEN "orphan" ELSE editor
    /\ Touched
    /\ UNCHANGED <<process, keyState, memory, registering, acked, agents, crashes, edits>>

\* 201 is sent, also when an edit already left the agent out again
Answer ==
    /\ renamed
    /\ acked' = IF torn \/ registering \in file THEN acked \cup {registering} ELSE acked
    /\ registering' = NoAgent /\ renamed' = FALSE
    /\ UNCHANGED <<process, keyState, disk, memory, event, unwatched, unsaved, agents,
                   crashes, edits>>

-----------------------------------------------------------------------------
(* /agents/auth, and the token at /ws *)

\* Mutant: an agent that has a token is not given another
AuthOnce(a) ==
    /\ Free
    /\ token[a] = 0
    /\ a \in memory \ verifying
    /\ verifying' = verifying \cup {a}
    /\ UNCHANGED <<process, keyState, disk, roster, acked, token, admitted,
                   crashes, edits>>

\* The agent signs a timestamp, with or without a token of before, one request at
\* a time; its record is looked up before the verification
Auth(a) ==
    /\ Free
    /\ a \in memory \ verifying
    /\ verifying' = verifying \cup {a}
    /\ UNCHANGED <<process, keyState, disk, roster, acked, token, admitted,
                   crashes, edits>>

\* The signature is good: a token, from the record looked up before
Mint(a) ==
    /\ Free
    /\ a \in verifying
    /\ verifying' = verifying \ {a}
    /\ token' = [token EXCEPT ![a] = issuer]
    /\ UNCHANGED <<process, keyState, disk, roster, acked, admitted, crashes, edits>>

\* fetchJwks answers with the issuer's key, at the second look as well
Enter(a) ==
    /\ Free
    /\ a \notin admitted
    /\ token[a] # 0 /\ token[a] = issuer
    /\ admitted' = admitted \cup {a}
    /\ UNCHANGED <<process, keyState, disk, roster, acked, verifying, token,
                   crashes, edits>>

-----------------------------------------------------------------------------

BootStep == Start \/ LoadKey \/ CreateKey \/ WriteKey \/ LoadRoster \/ Watch \/ BootFails

SupervisorStep ==
    \/ BeginEdit \/ EndLostEdit \/ RemoveKey
    \/ \E S \in SUBSET Agents : EndEdit(S)

OwnStep == BootStep \/ Reload \/ Rename \/ Answer

AgentStep(a) == Auth(a) \/ Mint(a) \/ Enter(a)

LocalNext ==
    \/ OwnStep \/ Crash \/ SupervisorStep
    \/ \E a \in Agents : Register(a) \/ RegisterFails(a) \/ AgentStep(a)

LocalSpec == LocalInit /\ [][LocalNext]_localVars

\* systemd restarts the process, its callbacks and continuations run, and an
\* agent that wants in signs a timestamp again and shows its newest token again.
\* The supervisor owes nothing.
LocalFairness ==
    /\ WF_localVars(OwnStep)
    /\ \A a \in Agents :
        WF_localVars(Auth(a)) /\ WF_localVars(Mint(a)) /\ WF_localVars(Enter(a))

-----------------------------------------------------------------------------
(* Properties *)

\* A registration never leaves half a roster behind, wherever it crashes: only
\* an edit of the supervisor's does (local-agent-registry.ts:108-111 promises it).
TornByEditor == torn => editor = "live"

\* An agent that was answered 201 is in the roster on disk, through crashes,
\* restarts, failed writes and reloads of a half-written file, until an edit of
\* the supervisor's leaves it out; and it is known to a pub that serves.
AckedKept ==
    /\ ~torn => acked \subseteq file
    /\ process = "serving" => acked \subseteq memory

\* When no event of the watcher waits and the file can be read, the map is the
\* roster on disk and what failed to reach the disk: whom the supervisor added is
\* known, and whom it left out is not (local-agent-registry.ts:84-98, 112-136).  An
\* edit between load() and watch() is not told to the map (server.ts:1275-1276).
MapIsRoster ==
    process = "serving" /\ ~event /\ ~unwatched /\ Parses => memory = file \cup unsaved

\* A token outlives the process that signed it: the pub that serves after any
\* crash or restart signs with the same key, unless the supervisor removed that
\* key ("Idempotent across restarts", local-issuer.ts:66).
TokensOutliveRestarts ==
    process = "serving" =>
        \A a \in Agents : token[a] = 0 \/ token[a] = issuer \/ token[a] \in retired

\* A key file is torn only before its first use: nobody holds a token of a pub
\* that a crash keeps from booting (local-issuer.ts:97 writes in place).
TornKeyIsUnused ==
    keyTorn => \A a \in Agents : token[a] = 0 \/ token[a] \in retired

\* Whoever is registered gets in, through crashes, restarts, a new issuer key and
\* edits of the roster: at the latest when these end all are inside together,
\* unless the pub does not come up because a file cannot be read.
EveryoneGetsIn ==
    []<>(acked \subseteq admitted \/ (process # "serving" /\ (~Parses \/ keyTorn)))

-----------------------------------------------------------------------------
(* What a document says of the code, which the code does not do *)

\* What a reader of the file finds
Readable == IF Parses THEN file ELSE {}

\* openpub-v032-local-trust.md:43: a registration appends to the roster.  Who could
\* be read from the disk before it can be read after it.
RegistrationAppends == [][Rename => Readable \subseteq Readable']_localVars
=============================================================================
