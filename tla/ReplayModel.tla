---------------------------- MODULE ReplayModel ----------------------------
(***************************************************************************)
(* ReplayChatModel over a ResilientChatModel: the requests of a run are     *)
(* answered from a cassette or by the base model, whose answers are         *)
(* recorded; later the same requests are made again in replay mode.         *)
(*                                                                          *)
(* An answer is named by the request that the base model gave it to.  Two   *)
(* requests have the same key when provider, model and messages are equal.  *)
(***************************************************************************)
EXTENDS ResilientModel

CONSTANTS
    Key,            \* request hashes
    Mode,           \* the mode in which runs record: auto or record
    MaxStops,       \* bound: how often the process ends
    NoAnswer, NoKey

ASSUME ReplayAssumption ==
    /\ Mode \in {"auto", "record"}
    /\ MaxStops \in Nat
    /\ NoAnswer \notin Request /\ NoKey \notin Key

VARIABLES
    mode,           \* the mode of the process; none while there is none
    key,            \* the request_hash of each request
    cassette,       \* ReplayChatModel._cassette
    file,           \* the cassette file: its entries, or torn
    served,         \* the answer that each request got while recording
    replayed,       \* and what it gets when it is made again in replay mode
    latest,         \* history variable: the last answer recorded for each key
    unsaved,        \* history variable: keys whose answer the file may lack, as
                    \* the process's last save raised
    lost,           \* history variable: keys whose answer an end of the process
                    \* may have lost, and that nobody has recorded since
    stops           \* how often the process ended

cassetteVars == <<mode, key, cassette, file, served, replayed, latest, unsaved, lost>>
vars == <<modelVars, cassetteVars, stops>>

Empty == [k \in Key |-> NoAnswer]
Entries == [Key -> Request \cup {NoAnswer}]
Torn == [k \in {} |-> NoAnswer]

TypeOK ==
    /\ ModelTypeOK
    /\ mode \in {"auto", "record", "replay", "none"}
    /\ key \in [Request -> Key \cup {NoKey}]
    /\ cassette \in Entries
    /\ file \in Entries \cup {Torn}
    /\ served \in [Request -> Request \cup {NoAnswer}]
    /\ replayed \in [Request -> Request \cup {NoAnswer, "missing"}]
    /\ latest \in Entries
    /\ unsaved \subseteq Key /\ lost \subseteq Key
    /\ stops \in 0..MaxStops

Init ==
    /\ ModelInit
    /\ mode = Mode
    /\ key = [r \in Request |-> NoKey]
    /\ cassette = Empty
    /\ file = Empty         \* as good as none
    /\ served = [r \in Request |-> NoAnswer]
    /\ replayed = [r \in Request |-> NoAnswer]
    /\ latest = Empty /\ unsaved = {} /\ lost = {}
    /\ stops = 0
-----------------------------------------------------------------------------
(***************************************************************************)
(* complete, up to the call of the base model: a request that the cassette  *)
(* has is answered from it, unless the mode is record.                      *)
(***************************************************************************)
Hit(r, k) ==
    /\ mode = "auto" /\ cassette[k] # NoAnswer
    /\ served' = [served EXCEPT ![r] = cassette[k]]
    /\ UNCHANGED modelVars

Miss(r, k) ==
    /\ mode = "record" \/ (mode = "auto" /\ cassette[k] = NoAnswer)
    /\ Begin(r)
    /\ UNCHANGED served

Complete(r, k) ==
    /\ key[r] = NoKey
    /\ key' = [key EXCEPT ![r] = k]
    /\ Hit(r, k) \/ Miss(r, k)
    /\ UNCHANGED <<mode, cassette, file, replayed, latest, unsaved, lost, stops>>

BaseGoesOn(r) ==
    /\ GoesOn(r)
    /\ UNCHANGED <<cassetteVars, stops>>

CallEnds(x) ==
    /\ ProviderEnds(x)
    /\ UNCHANGED <<cassetteVars, stops>>

(***************************************************************************)
(* complete, from the answer of the base model on: the answer goes into the *)
(* cassette, and the whole cassette is written over the file.  Nothing but  *)
(* the end of the process can come between.  A save that raises (no         *)
(* directory, a full disk) takes the answer away from the request, not out  *)
(* of the cassette, and leaves the file as it was or cut off.               *)
(***************************************************************************)
\* Mutant: an answer replaces the cassette.
WithAnswerAlone(r) == [Empty EXCEPT ![key[r]] = r]

WithAnswer(r) == [cassette EXCEPT ![key[r]] = r]

\* Mutant: the cassette is saved before the answer is in it.
SavesOldCassette(r) ==
    /\ file' = cassette /\ unsaved' = {}
    /\ served' = [served EXCEPT ![r] = r]

Saves(r) ==
    /\ file' = cassette' /\ unsaved' = {}
    /\ served' = [served EXCEPT ![r] = r]

SaveRaises(r) ==
    /\ \/ file' = file /\ unsaved' = unsaved \cup {key[r]}
       \/ file' = Torn /\ unsaved' = Key
    /\ UNCHANGED served

Record(r) ==
    /\ Answers(r)
    /\ cassette' = WithAnswer(r)
    /\ latest' = [latest EXCEPT ![key[r]] = r] /\ lost' = lost \ {key[r]}
    /\ Saves(r) \/ SaveRaises(r)
    /\ UNCHANGED <<mode, key, replayed, stops>>

(***************************************************************************)
(* The process ends, at any time or in the middle of the write.  It takes   *)
(* its cassette, its requests and their model calls with it.                *)
(***************************************************************************)
Stop ==
    /\ stops < MaxStops /\ stops' = stops + 1
    /\ mode' = "none"
    /\ cassette' = Empty
    /\ stage' = [r \in Request |-> "idle"]
    /\ try' = [r \in Request |-> <<1, 0>>]
    /\ call' = [x \in Calls |-> "none"]
    /\ timedOut' = {}
    /\ unsaved' = {}
    /\ UNCHANGED <<key, served, replayed, latest>>

StopBetweenWrites ==
    /\ mode # "none"
    /\ Stop
    /\ lost' = lost \cup unsaved
    /\ UNCHANGED file

StopInWrite(r) ==
    /\ HasAnswer(r)
    /\ Stop
    /\ file' = Torn /\ lost' = Key

(***************************************************************************)
(* A new ReplayChatModel loads the file.  In Python a torn one raises out   *)
(* of the constructor; in TypeScript it counts as absent.                   *)
(***************************************************************************)
Loaded == IF file = Torn THEN Empty ELSE file

Start ==
    /\ mode = "none"
    /\ Python => file # Torn
    /\ mode' \in {Mode, "replay"}
    /\ cassette' = Loaded
    /\ UNCHANGED <<modelVars, key, file, served, replayed, latest, unsaved, lost, stops>>

\* complete in replay mode, of a request that was answered before: from the
\* cassette or not at all.
InCassette(k) == IF cassette[k] = NoAnswer THEN "missing" ELSE cassette[k]

Replay(r) ==
    /\ mode = "replay"
    /\ served[r] # NoAnswer /\ replayed[r] = NoAnswer
    /\ replayed' = [replayed EXCEPT ![r] = InCassette(key[r])]
    /\ UNCHANGED <<modelVars, mode, key, cassette, file, served, latest, unsaved, lost, stops>>

Next ==
    \/ \E r \in Request : BaseGoesOn(r) \/ Record(r) \/ StopInWrite(r) \/ Replay(r)
    \/ \E r \in Request, k \in Key : Complete(r, k)
    \/ \E x \in Calls : CallEnds(x)
    \/ StopBetweenWrites
    \/ Start

Spec == Init /\ [][Next]_vars
-----------------------------------------------------------------------------
(* The cassette of a process has the last answer recorded for every key, by   *)
(* whatever process, and the file has it too, whole: all but the keys that a   *)
(* failed save keeps in memory alone, and those that the end of the process    *)
(* cost, after such a save or within a write (ReplayChatModel.complete, save). *)
CassetteIsSaved ==
    /\ \A k \in Key : cassette[k] # NoAnswer => key[cassette[k]] = k
    /\ \A k \in Key \ lost : mode # "none" => cassette[k] = latest[k]
    /\ \A k \in Key \ (lost \cup unsaved) : file # Torn /\ file[k] = latest[k]

(* While recording, a request gets the last answer recorded for its words,    *)
(* and in replay mode again, unless that was lost: so the two are the same     *)
(* answer but where an equal request was answered in between, by the same run  *)
(* or a later one (docs extending.md:69-70, "capture one real run, then replay *)
(* it"; replay.py complete).                                                  *)
AnswersReproduce == [][
    \A r \in Request : key'[r] \notin lost' =>
        /\ served'[r] # served[r] => served'[r] = latest'[key'[r]]
        /\ replayed'[r] # replayed[r] => replayed'[r] = latest'[key'[r]]]_vars
=============================================================================
