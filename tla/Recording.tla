------------------------------ MODULE Recording ------------------------------
(***************************************************************************)
(* The test-case recording of one entry: coordinator.py (frame log switch, *)
(* frame waiters, marks), recording/views.py (photo upload, export,        *)
(* delete), recording/photos.py (the photo folder), __init__.py            *)
(* (mark_dump) and the marker bookkeeping of recording/frame_log.py.       *)
(*                                                                         *)
(* A request is cut where its coroutine awaits: the upload's body, the     *)
(* executor job that saves or deletes a photo, the wait for a frame.  An   *)
(* executor job holds the folder's lock, so each is one step, but a job    *)
(* may run any time after the coroutine asked for it, and it may fail.  A  *)
(* request can be cancelled at any of its awaits, and Home Assistant can   *)
(* stop, in order, and start again: the frame log comes back as it was (a  *)
(* crash that takes it back to its last save is ThrottledStore's), the     *)
(* photo folder is as it was left, and every request is gone.              *)
(***************************************************************************)
EXTENDS Integers, Sequences, SequencesExt, FiniteSets

CONSTANTS Units,       \* serial numbers
          Uploads,     \* photo uploads
          Dumps,       \* mark_dump calls
          Stems,       \* file name stems: upload second and note
          AnyUnit,     \* no serial_number given
          NoWait,      \* wait is off
          WaitsFor,    \* per request: the unit whose frame it waits for
          MaxPhotos,   \* max_count of the photo folder (200)
          MaxMarkers,  \* MAX_MARKERS (500)
          MaxFrames,   \* bound: frames that reach the log
          MaxSwitches, \* bound: switches, deletes and restarts
          MaxRequests, \* bound: requests that are made
          MaxCuts,     \* bound: requests cut short before one more may be
          MaxExports   \* bound: exports the card asks for

ASSUME LimitsAssumption == MaxPhotos \in Nat \ {0} /\ MaxMarkers \in Nat \ {0}

Requests == Uploads \cup Dumps
NoName == <<>>

ASSUME RequestsAssumption ==
  /\ IsFiniteSet(Requests) /\ Uploads \cap Dumps = {}
  /\ WaitsFor \in [Requests -> Units \cup {AnyUnit, NoWait}]

ASSUME SwitchesAssumption == MaxSwitches \in Nat

VARIABLES
  enabled,     \* frame_log.enabled
  generation,  \* recording_generation
  tape,        \* the records of the frame log, oldest first
  nextMarker,  \* frame_log._next_marker
  cases,       \* frame_log._markers
  through,     \* frame_log._exported_through
  known,       \* the units in _last_frame_at
  photos,      \* the photo folder, oldest first
  req,         \* per request: where it is and what it holds.  History: "from"
               \* and "on", the tape and the switch when it noted the
               \* generation; "off", recording was off when the frame that
               \* ended its wait came; "stale", its recording has ended since;
               \* "marked", it wrote its marker; "ended", what cut it short
  deleting,    \* delete requests between clear_recording and photos.clear
  zip,         \* the export the card is downloading: the newest case it holds
  held,        \* history: cases in the zips the card has received whole
  frames, switches, exports  \* history: counts, for the bounds

vars == <<enabled, generation, tape, nextMarker, cases, through, known, photos,
          req, deleting, zip, held, frames, switches, exports>>

log == <<tape, nextMarker, cases, through>>
counts == <<frames, switches, exports>>

NoZip == [newest |-> 0, cases |-> {}, asked |-> FALSE]

Idle == [pc |-> "idle", gen |-> 0, released |-> FALSE, name |-> NoName,
         from |-> 0, stale |-> FALSE, marked |-> FALSE, on |-> FALSE,
         off |-> FALSE, ended |-> "no"]

\* What is left of a request that will not be marked any more: its photo's name.
Gone(pc, name, how) == [Idle EXCEPT !.pc = pc, !.name = name, !.ended = how]

\* "abandoned": the request is gone, its executor job still saves the photo.
RequestPCs == {"idle", "body", "saving", "abandoned", "waiting", "discarding", "done"}
Over == {"idle", "done"}

Failed == {r \in Uploads : req[r].ended = "failed"}
CutShort == {r \in Requests : req[r].ended # "no"}
Made == {r \in Requests : req[r].pc # "idle"}

TypeOK ==
  /\ enabled \in BOOLEAN /\ generation \in 0..MaxSwitches
  /\ nextMarker \in 1..(Cardinality(Requests) + 1)
  /\ through \in 0..(nextMarker - 1)
  /\ known \subseteq Units
  /\ Len(photos) <= MaxPhotos + Cardinality(Failed) /\ Len(cases) <= MaxMarkers
  /\ \A i, j \in DOMAIN photos : photos[i] = photos[j] => i = j
  /\ \A r \in Requests :
        /\ req[r].pc \in RequestPCs
        /\ req[r].pc \notin Over => req[r].gen \in 0..generation
        /\ r \in Dumps => req[r].pc \in {"idle", "waiting", "done"}

Init ==
  /\ enabled \in BOOLEAN /\ generation = 0
  /\ tape = <<>> /\ nextMarker = 1 /\ cases = <<>> /\ through = 0
  /\ known = {} /\ photos = <<>>
  /\ req = [r \in Requests |-> Idle]
  /\ deleting = 0 /\ zip = NoZip /\ held = {}
  /\ frames = 0 /\ switches = 0 /\ exports = 0

-----------------------------------------------------------------------------
(* Frames *)

\* The wait of r is still on and this unit's frame ends it.
Answers(u, r) ==
  req[r].pc = "waiting" /\ ~req[r].released /\ WaitsFor[r] \in {u, AnyUnit}

Released(r) == [req[r] EXCEPT !.released = TRUE, !.off = ~enabled]

\* Mutant: bytes that were only logged end the waits as well.
FrameReleasesUndecoded(u, decodes) ==
  /\ frames < MaxFrames
  /\ frames' = frames + 1
  /\ tape' = IF enabled THEN Append(tape, <<"frame", u, decodes>>) ELSE tape
  /\ known' = known \cup {u}
  /\ req' = [r \in Requests |->
               IF Answers(u, r) THEN Released(r) ELSE req[r]]
  /\ UNCHANGED <<enabled, generation, nextMarker, cases, through, photos,
                 deleting, zip, held, switches, exports>>

\* A frame from unit u: logged before it is decoded; only one the decoder takes
\* ends the waits it answers (_log_frame, then _release_frame_waiters).
Frame(u, decodes) ==
  /\ frames < MaxFrames
  /\ frames' = frames + 1
  /\ tape' = IF enabled THEN Append(tape, <<"frame", u, decodes>>) ELSE tape
  /\ known' = known \cup {u}
  /\ req' = [r \in Requests |->
               IF decodes /\ Answers(u, r) THEN Released(r) ELSE req[r]]
  /\ UNCHANGED <<enabled, generation, nextMarker, cases, through, photos,
                 deleting, zip, held, switches, exports>>

-----------------------------------------------------------------------------
(* The switch and delete *)

\* Requests that started in a recording which has just been stopped or deleted.
Stale == [r \in Requests |->
            IF req[r].pc \in {"saving", "waiting"}
            THEN [req[r] EXCEPT !.stale = TRUE] ELSE req[r]]

\* set_recording
SetRecording(on) ==
  /\ switches < MaxSwitches
  /\ switches' = switches + 1
  /\ enabled' = on
  /\ generation' = IF on THEN generation ELSE generation + 1
  /\ req' = IF on THEN req ELSE Stale
  /\ UNCHANGED <<log, known, photos, deleting, zip, held, frames, exports>>

\* The delete view, up to its await: clear_recording.  Marker numbers go on.
Delete ==
  /\ switches < MaxSwitches
  /\ switches' = switches + 1
  /\ generation' = generation + 1
  /\ tape' = <<>> /\ cases' = <<>>
  /\ through' = nextMarker - 1
  /\ req' = Stale
  /\ deleting' = deleting + 1
  /\ UNCHANGED <<enabled, nextMarker, known, photos, zip, held, frames,
                 exports>>

\* ... and its executor job: PhotoStore.clear.
ClearPhotos ==
  /\ deleting > 0
  /\ deleting' = deleting - 1
  /\ photos' = <<>>
  /\ UNCHANGED <<enabled, generation, log, known, req, zip, held, counts>>

\* forget_markers: the list goes, frames, photos and numbers stay.
Forget ==
  /\ cases # <<>> /\ switches < MaxSwitches
  /\ switches' = switches + 1
  /\ cases' = <<>>
  /\ UNCHANGED <<enabled, generation, tape, nextMarker, through, known, photos,
                 req, deleting, zip, held, frames, exports>>

-----------------------------------------------------------------------------
(* Marks *)

\* A list cut to its newest entries.
Surplus(list, max) == IF Len(list) > max THEN Len(list) - max ELSE 0
Newest(list, max) == SubSeq(list, Surplus(list, max) + 1, Len(list))

\* Mutant: only the switch is looked at.
RefusedOnlyWhenOff(r) == ~enabled

\* mark_dump in the coordinator: RecordingOffError, or a numbered marker in the
\* tape and in the list.
Refused(r) == ~enabled \/ req[r].gen # generation

WriteMarker(r) ==
  /\ nextMarker' = nextMarker + 1
  /\ tape' = Append(tape, <<"mark", nextMarker, r>>)
  /\ cases' = Newest(Append(cases, [n |-> nextMarker, photo |-> req[r].name, by |-> r]),
                     MaxMarkers)
  /\ UNCHANGED through

\* The mark_dump service up to its wait.  The generation is the one the tap saw.
CallDump(r) ==
  /\ r \in Dumps /\ req[r].pc = "idle" /\ enabled
  /\ Cardinality(Made) < MaxRequests
  /\ WaitsFor[r] \in known \cup {AnyUnit, NoWait}
  /\ req' = [req EXCEPT ![r] = [Idle EXCEPT !.pc = "waiting", !.gen = generation,
                                !.from = Len(tape), !.on = enabled]]
  /\ UNCHANGED <<enabled, generation, log, known, photos, deleting, zip, held,
                 counts>>

\* The photo view: recording is on; the body of the request is still coming.
PostPhoto(r) ==
  /\ r \in Uploads /\ req[r].pc = "idle" /\ enabled
  /\ Cardinality(Made) < MaxRequests
  /\ req' = [req EXCEPT ![r] = [Idle EXCEPT !.pc = "body"]]
  /\ UNCHANGED <<enabled, generation, log, known, photos, deleting, zip, held,
                 counts>>

\* The body is in.  A unit never heard of is an error, so is a body without a
\* photo; else the generation is noted and the executor is asked to save.
BodyRead(r) ==
  /\ req[r].pc = "body"
  /\ \/ req' = [req EXCEPT ![r].pc = "done"]
     \/ /\ WaitsFor[r] \in known \cup {AnyUnit, NoWait}
        /\ req' = [req EXCEPT ![r].pc = "saving", ![r].gen = generation,
                              ![r].from = Len(tape), ![r].on = enabled]
  /\ UNCHANGED <<enabled, generation, log, known, photos, deleting, zip, held,
                 counts>>

\* PhotoStore.save: a free name, then the cap takes the oldest photos.
FreeName(stem) ==
  <<stem, CHOOSE k \in 1..(Len(photos) + 1) :
            /\ <<stem, k>> \notin ToSet(photos)
            /\ \A j \in 1..(k - 1) : <<stem, j>> \in ToSet(photos)>>

SavePhoto(r, stem) ==
  /\ photos' = Newest(Append(photos, FreeName(stem)), MaxPhotos)
  /\ \/ req[r].pc = "saving"
        /\ req' = [req EXCEPT ![r].pc = "waiting", ![r].name = FreeName(stem)]
     \/ req[r].pc = "abandoned"
        /\ req' = [req EXCEPT ![r].pc = "done", ![r].name = FreeName(stem)]
  /\ UNCHANGED <<enabled, generation, log, known, deleting, zip, held, counts>>

\* An OSError in the job: before the name is claimed, or after it -- then the
\* file stays, empty or whole, and the cap has not taken all it should.
SaveFails(r, stem) ==
  /\ req[r].pc \in {"saving", "abandoned"} /\ Cardinality(CutShort) < MaxCuts
  /\ req' = [req EXCEPT ![r] = Gone("done", FreeName(stem), "failed")]
  /\ \/ photos' = photos
     \/ \E gone \in 0..Surplus(photos, MaxPhotos) :
          photos' = SubSeq(Append(photos, FreeName(stem)), gone + 1, Len(photos) + 1)
  /\ UNCHANGED <<enabled, generation, log, known, deleting, zip, held, counts>>

\* async_mark_after_frame from the end of its wait on: a frame came, the time is
\* up, or no wait was asked for.
WaitIsOver(r) == req[r].pc = "waiting"

Mark(r) ==
  /\ WaitIsOver(r) /\ ~Refused(r)
  /\ WriteMarker(r)
  /\ req' = [req EXCEPT ![r].pc = "done", ![r].marked = TRUE]
  /\ UNCHANGED <<enabled, generation, known, photos, deleting, zip, held,
                 counts>>

\* Mutant: the refused upload is answered and its photo stays.
MarkRefusedKeepsPhoto(r) ==
  /\ WaitIsOver(r) /\ Refused(r)
  /\ req' = [req EXCEPT ![r] = Gone("done", req[r].name, "no")]
  /\ UNCHANGED <<enabled, generation, log, known, photos, deleting, zip, held,
                 counts>>

MarkRefused(r) ==
  /\ WaitIsOver(r) /\ Refused(r)
  /\ req' = [req EXCEPT ![r] = Gone(IF r \in Uploads THEN "discarding" ELSE "done",
                                    req[r].name, "no")]
  /\ UNCHANGED <<enabled, generation, log, known, photos, deleting, zip, held,
                 counts>>

\* PhotoStore.delete of a refused upload, by name, if it is still there.
DiscardPhoto(r) ==
  /\ req[r].pc = "discarding"
  /\ IF req[r].name \in ToSet(photos)
     THEN \E i \in DOMAIN photos : photos[i] = req[r].name /\ photos' = RemoveAt(photos, i)
     ELSE UNCHANGED photos
  /\ req' = [req EXCEPT ![r].pc = "done"]
  /\ UNCHANGED <<enabled, generation, log, known, deleting, zip, held, counts>>

-----------------------------------------------------------------------------
(* Requests cut short *)

\* The request is cancelled at one of its awaits, or its delete job raises.  A
\* save that is running runs on.
Cancelled(r) ==
  /\ Cardinality(CutShort) < MaxCuts
  /\ \/ /\ req[r].pc \in {"body", "saving", "waiting", "discarding"}
        /\ req' = [req EXCEPT ![r] = Gone("done", req[r].name, "cancelled")]
     \/ /\ req[r].pc = "saving"
        /\ req' = [req EXCEPT ![r] = Gone("abandoned", req[r].name, "cancelled")]
  /\ UNCHANGED <<enabled, generation, log, known, photos, deleting, zip, held,
                 counts>>

\* Home Assistant stops and starts: the log is restored, a new coordinator
\* knows no unit, what the requests and the delete views still had to do is lost.
Restart ==
  /\ switches < MaxSwitches
  /\ switches' = switches + 1
  /\ generation' = 0 /\ known' = {} /\ deleting' = 0
  /\ req' = [r \in Requests |->
               IF req[r].pc \in Over THEN req[r]
               ELSE Gone("done", req[r].name, "cancelled")]
  /\ UNCHANGED <<enabled, log, photos, zip, held, frames, exports>>

-----------------------------------------------------------------------------
(* Export *)

\* The export view: the cases listed now, and the newest number for the header.
\* "new=1" leaves the downloaded ones out of the zip, not out of the header.  An
\* export without a case has nothing to confirm and is left out.
Export(onlyNew) ==
  /\ ~zip.asked /\ cases # <<>> /\ exports < MaxExports
  /\ exports' = exports + 1
  /\ LET listed == {cases[i].n : i \in DOMAIN cases}
     IN zip' = [asked |-> TRUE,
                newest |-> IF listed = {} THEN 0
                           ELSE CHOOSE n \in listed : \A m \in listed : m <= n,
                cases |-> IF onlyNew THEN {n \in listed : n > through}
                          ELSE listed]
  /\ UNCHANGED <<enabled, generation, log, known, photos, req, deleting, held,
                 frames, switches>>

\* Mutant: everything numbered so far counts as downloaded.
ExportedMarksAll ==
  /\ zip.asked
  /\ held' = held \cup zip.cases
  /\ through' = nextMarker - 1
  /\ zip' = NoZip
  /\ UNCHANGED <<enabled, generation, tape, nextMarker, cases, known, photos,
                 req, deleting, counts>>

\* The card holds the whole zip and says so (mark_exported) ...
Exported ==
  /\ zip.asked
  /\ held' = held \cup zip.cases
  /\ through' = IF zip.newest > through THEN zip.newest ELSE through
  /\ zip' = NoZip
  /\ UNCHANGED <<enabled, generation, tape, nextMarker, cases, known, photos,
                 req, deleting, counts>>

\* ... or the download broke off.
ExportLost ==
  /\ zip.asked
  /\ zip' = NoZip
  /\ UNCHANGED <<enabled, generation, log, known, photos, req, deleting, held,
                 counts>>

-----------------------------------------------------------------------------
Step(r) == \/ BodyRead(r)
           \/ \E stem \in Stems : SavePhoto(r, stem) \/ SaveFails(r, stem)
           \/ Mark(r) \/ MarkRefused(r) \/ DiscardPhoto(r) \/ Cancelled(r)

Next ==
  \/ \E u \in Units, decodes \in BOOLEAN : Frame(u, decodes)
  \/ \E on \in BOOLEAN : SetRecording(on)
  \/ Delete \/ ClearPhotos \/ Forget \/ Restart
  \/ \E r \in Requests : CallDump(r) \/ PostPhoto(r) \/ Step(r)
  \/ \E onlyNew \in BOOLEAN : Export(onlyNew)
  \/ Exported \/ ExportLost

Spec == Init /\ [][Next]_vars

-----------------------------------------------------------------------------
(* Properties *)

\* coordinator.py:160-168: a mark that says it waited for a frame stands behind
\* a whole, decoded frame of the unit it waited for, received after the tap and
\* in the same recording -- however switch, delete and frames fall in between.
\* There is one way around it, told from what the request met and not from where
\* the mark stands: a photo whose body came in while recording was off, whose
\* wait was ended by a frame that came while it was still off.
StandsBehindFrame(i) ==
  LET r == req[tape[i][3]] IN
    \E j \in (r.from + 1)..(i - 1) :
       /\ tape[j][1] = "frame" /\ tape[j][3]
       /\ WaitsFor[tape[i][3]] \in {tape[j][2], AnyUnit}

WaitedMark(i) == tape[i][1] = "mark" /\ req[tape[i][3]].released

WaitedMarkFollowsFrame ==
  \A i \in DOMAIN tape :
     WaitedMark(i) =>
        StandsBehindFrame(i) \/ (req[tape[i][3]].off /\ ~req[tape[i][3]].on)

\* coordinator.py:117-119: a mark that started waiting before recording was
\* stopped or deleted is never written, not even when it is on again by then.
NeverInAnotherRecording ==
  \A r \in Requests : req[r].marked => ~req[r].stale

\* photos.py:8, "a mark cancelled while it waited removes its photo": a photo in
\* the folder belongs to an upload that marked, that has still to be answered, or
\* that was itself cut short -- its save failed, it was cancelled, or Home
\* Assistant stopped.  An upload that is refused and not cut short leaves none.  No
\* two photos have a name; photos, but for one per failed save, and listed cases
\* stay within their limits.
NoOrphanPhoto ==
  /\ TypeOK
  /\ \A p \in ToSet(photos) :
       \E r \in Uploads :
          /\ req[r].name = p
          /\ \/ req[r].marked \/ req[r].pc \in {"waiting", "discarding"}
             \/ req[r].ended # "no"

\* A listed case counts as downloaded only when the card holds a zip it is in:
\* cases marked while a zip is built or sent stay new, and so do the ones that
\* follow a delete, whatever an export from before it confirms.
DownloadedMeansHeld ==
  \A i \in DOMAIN cases : cases[i].n <= through => cases[i].n \in held

\* photos.py:3-6: the marker names the photo kept for it.  With a folder that
\* is not full, a case that is listed has its photo.
CasePhotoIsStored ==
  \A i \in DOMAIN cases :
     cases[i].photo # NoName => cases[i].photo \in ToSet(photos)
=============================================================================
