---------------------------- MODULE MediaRecording ----------------------------
(***************************************************************************)
(* A recording of a meeting on its way from the page of its moderator      *)
(* (mod_recorder.js) through the upload handler of cloud-routing-proxy and *)
(* the gRPC stream to the file of spr-storage, and the link to it that the *)
(* page then posts in the chat of the room.                                *)
(*                                                                         *)
(* One page that makes several takes.  A take is named by the time of the  *)
(* click that starts it, here by its number; takes of other pages have     *)
(* other names and meet these only at recordMutex.  Data is counted in     *)
(* chunks of the proxy's buffer; how the canvas is painted is left out.    *)
(***************************************************************************)
EXTENDS Naturals, Sequences

CONSTANTS MaxTakes,     \* bound on the clicks that start a recording
          MaxLength,    \* bound on the chunks of a take
          MaxBody,      \* chunks the proxy lets through (500 MB)
          MaxRestarts,  \* bound on the restarts of spr-storage
          NoTake, NoFile

Take == 1 .. MaxTakes

ASSUME RecordingAssumption ==
  /\ MaxTakes \in Nat /\ MaxLength \in Nat /\ MaxRestarts \in Nat
  /\ MaxBody \in Nat \ {0}
  /\ NoTake \notin Nat
  /\ NoFile \notin Seq(Take \X (0 .. MaxLength))

VARIABLES page,       \* mod_recorder.js and SessionState
          clicks,     \* number of clicks that started a take
          recorder,   \* state of the MediaRecorder of a take
          upload,     \* the request the end of a take makes
          stream,     \* its StreamMediaChunk call
          files,      \* records/<take>.webm
          videoFiles, \* takes whose file spr-storage has open
          restarts,
          footage,    \* history: chunks in a take
          rushed      \* history: takes begun before the last had ended

browser == <<page, clicks, recorder, footage, rushed>>
storage == <<files, videoFiles, restarts>>
vars == <<browser, upload, stream, storage>>

\* Chunk <<t, k>> is the k-th of take t, <<t, 0>> a part of one.
Chunks == Take \X (0 .. MaxLength)
Reel(t) == [k \in 1 .. footage[t] |-> <<t, k>>]

NoUpload == [phase |-> "none", id |-> NoTake, blob |-> <<>>, sent |-> 0]
NoStream == [state |-> "idle", queue |-> <<>>]
Broken == [state |-> "broken", queue |-> <<>>]

Ending == {t \in Take : recorder[t] \in {"stopping", "flushed"}}
-----------------------------------------------------------------------------
Init == /\ page = [recording |-> FALSE, id |-> NoTake, current |-> NoTake,
                   buffer |-> <<>>, gone |-> FALSE]
        /\ clicks = 0
        /\ recorder = [t \in Take |-> "none"]
        /\ upload = [t \in Take |-> NoUpload]
        /\ stream = [t \in Take |-> NoStream]
        /\ files = [t \in Take |-> NoFile]
        /\ videoFiles = {} /\ restarts = 0
        /\ footage = [t \in Take |-> 0] /\ rushed = {}

\* The buffer is emptied and the name taken before the MediaRecorder is
\* made, which may throw.
StartClick ==
  /\ ~ page.gone /\ ~ page.recording /\ clicks < MaxTakes
  /\ clicks' = clicks + 1
  /\ \/ /\ page' = [page EXCEPT !.buffer = <<>>, !.id = clicks',
                                !.current = clicks', !.recording = TRUE]
        /\ recorder' = [recorder EXCEPT ![clicks'] = "running"]
     \/ /\ page' = [page EXCEPT !.buffer = <<>>, !.id = clicks']
        /\ UNCHANGED recorder
  /\ rushed' = IF Ending = {} THEN rushed ELSE rushed \cup {clicks'}
  /\ UNCHANGED <<footage, upload, stream, storage>>

\* stop() queues the data and the end; onstop is set in the same click.
\* Without a recorder the click throws once the flag is reset.
StopClick ==
  /\ ~ page.gone /\ page.recording
  /\ page' = [page EXCEPT !.recording = FALSE]
  /\ IF page.current # NoTake /\ recorder[page.current] = "running"
       THEN recorder' = [recorder EXCEPT ![page.current] = "stopping"]
       ELSE UNCHANGED recorder
  /\ UNCHANGED <<clicks, footage, rushed, upload, stream, storage>>

\* ondataavailable: start() is called without an interval, so a recorder
\* delivers once.
OnData(t) ==
  /\ ~ page.gone /\ recorder[t] = "stopping"
  /\ recorder' = [recorder EXCEPT ![t] = "flushed"]
  /\ \E n \in 0 .. MaxLength : footage' = [footage EXCEPT ![t] = n]
  /\ page' = [page EXCEPT !.buffer = @ \o Reel(t)']
  /\ UNCHANGED <<clicks, rushed, upload, stream, storage>>

Request(id, blob) == [phase |-> "opening", id |-> id, blob |-> blob, sent |-> 0]

OnStop(t) ==
  /\ ~ page.gone /\ recorder[t] = "flushed"
  /\ recorder' = [recorder EXCEPT ![t] = "over"]
  /\ IF page.buffer = <<>>
       THEN UNCHANGED <<page, upload>>
       ELSE /\ upload' = [upload EXCEPT ![t] = Request(page.id, page.buffer)]
            /\ page' = [page EXCEPT !.current = NoTake, !.buffer = <<>>]
  /\ UNCHANGED <<clicks, footage, rushed, stream, storage>>

\* hangUp, or the tab is closed.
LeavePage ==
  /\ ~ page.gone
  /\ page' = [page EXCEPT !.gone = TRUE]
  /\ UNCHANGED <<clicks, recorder, footage, rushed, upload, stream, storage>>
-----------------------------------------------------------------------------
Phase(t, phase) == [upload EXCEPT ![t].phase = phase]

\* HandleUploadRecord, up to the loop.
OpenStream(t) ==
  /\ upload[t].phase = "opening"
  /\ \/ /\ upload' = Phase(t, "streaming")
        /\ stream' = [stream EXCEPT ![t].state = "open"]
     \/ /\ upload' = Phase(t, "failed")
        /\ UNCHANGED stream
  /\ UNCHANGED <<browser, storage>>

\* One turn of the loop.  What is sent on a stream that has just been
\* broken can get lost without an error.
SendChunk(t) ==
  LET u == upload[t]
  IN  /\ u.phase = "streaming" /\ u.sent < Len(u.blob) /\ u.sent < MaxBody
      /\ upload' = [upload EXCEPT ![t].sent = @ + 1]
      /\ stream' = IF stream[t].state = "open"
                     THEN [stream EXCEPT ![t].queue = Append(@, u.blob[u.sent + 1])]
                     ELSE stream
      /\ UNCHANGED <<browser, storage>>

\* Slip: the turn of the loop that fails is counted.
AbandonedAfterCount(t) ==
  /\ upload' = [upload EXCEPT ![t].phase = "failed", ![t].sent = @ + 1]
  /\ stream' = [stream EXCEPT ![t] = Broken]
  /\ UNCHANGED <<browser, storage>>

\* The handler returns early; its deferred cancel ends the stream.
Abandoned(t) ==
  /\ upload' = Phase(t, "failed")
  /\ stream' = [stream EXCEPT ![t] = Broken]
  /\ UNCHANGED <<browser, storage>>

SendFails(t) ==
  /\ upload[t].phase = "streaming" /\ stream[t].state = "broken"
  /\ upload[t].sent < Len(upload[t].blob)
  /\ Abandoned(t)

\* MaxBytesReader.
BodyTooLarge(t) ==
  /\ upload[t].phase = "streaming"
  /\ upload[t].sent = MaxBody /\ MaxBody < Len(upload[t].blob)
  /\ Abandoned(t)

\* The body cannot be read on (the page has gone, ReadTimeout), the context
\* of the stream has expired, or the proxy restarts.
GivesUp(t) ==
  /\ upload[t].phase \in {"streaming", "closing"}
  /\ Abandoned(t)

\* Slip: any error of the body is taken for its end.
EndOfBodyOnAnyError(t) ==
  /\ upload[t].phase = "streaming"
  /\ upload' = Phase(t, "closing")
  /\ UNCHANGED <<browser, stream, storage>>

\* readErr = io.EOF; CloseAndRecv is called.
EndOfBody(t) ==
  /\ upload[t].phase = "streaming" /\ upload[t].sent = Len(upload[t].blob)
  /\ upload' = Phase(t, "closing")
  /\ UNCHANGED <<browser, stream, storage>>

\* Slip: only an answer ends the wait.
CloseAndRecvAnswer(t) ==
  /\ upload[t].phase = "closing" /\ stream[t].state = "answered"
  /\ upload' = Phase(t, "stored")
  /\ UNCHANGED <<browser, stream, storage>>

\* CloseAndRecv returns.
CloseAndRecv(t) ==
  /\ upload[t].phase = "closing"
  /\ \/ stream[t].state = "answered" /\ upload' = Phase(t, "stored")
     \/ stream[t].state = "broken" /\ upload' = Phase(t, "failed")
  /\ UNCHANGED <<browser, stream, storage>>
-----------------------------------------------------------------------------
\* O_CREATE and O_APPEND.
Contents(f) == IF f = NoFile THEN <<>> ELSE f
Appended(id, chunks) == [files EXCEPT ![id] = Contents(@) \o chunks]

\* StreamMediaChunk takes a frame and writeChunkToFile writes it, under
\* recordMutex; the file may not open and the disk may be full.
StoreChunk(t) ==
  LET id == upload[t].id
      chunk == Head(stream[t].queue)
  IN  /\ stream[t].state = "open" /\ stream[t].queue # <<>>
      /\ \/ /\ files' = Appended(id, <<chunk>>)
            /\ videoFiles' = videoFiles \cup {id}
            /\ stream' = [stream EXCEPT ![t].queue = Tail(@)]
         \/ /\ id \notin videoFiles
            /\ stream' = [stream EXCEPT ![t] = Broken]
            /\ UNCHANGED <<files, videoFiles>>
         \/ /\ \E part \in {<<>>, << <<chunk[1], 0>> >>} : files' = Appended(id, part)
            /\ videoFiles' = videoFiles \cup {id}
            /\ stream' = [stream EXCEPT ![t] = Broken]
      /\ UNCHANGED <<browser, upload, restarts>>

\* Slip: the stream is answered before what was sent has been written.
SealStreamEarly(t) ==
  /\ upload[t].phase = "closing" /\ stream[t].state = "open"
  /\ upload' = Phase(t, "stored")
  /\ UNCHANGED <<browser, stream, storage>>

\* Recv returns io.EOF: everything sent has been written.
SealStream(t) ==
  /\ upload[t].phase = "closing"
  /\ stream[t].state = "open" /\ stream[t].queue = <<>>
  /\ stream' = [stream EXCEPT ![t].state = "answered"]
  /\ UNCHANGED <<browser, upload, storage>>

\* The files stay; the table of open ones and the streams do not.
StorageRestarts ==
  /\ restarts < MaxRestarts /\ restarts' = restarts + 1
  /\ videoFiles' = {}
  /\ stream' = [t \in Take |-> IF stream[t].state = "open" THEN Broken ELSE stream[t]]
  /\ UNCHANGED <<browser, upload, files>>
-----------------------------------------------------------------------------
\* Slip: the link is posted without a look at response.ok.
OnResponseUnchecked(t) ==
  /\ ~ page.gone /\ upload[t].phase \in {"stored", "failed"}
  /\ \E end \in {"linked", "unlinked", "reported"} : upload' = Phase(t, end)
  /\ UNCHANGED <<browser, stream, storage>>

\* The answer reaches the page, or the fetch fails.  The link is posted only
\* when the socket happens to be open.
OnResponse(t) ==
  /\ ~ page.gone
  /\ \/ /\ upload[t].phase = "stored"
        /\ \E end \in {"linked", "unlinked", "reported"} : upload' = Phase(t, end)
     \/ /\ upload[t].phase = "failed"
        /\ upload' = Phase(t, "reported")
  /\ UNCHANGED <<browser, stream, storage>>

Links == {upload[t].id : t \in {x \in Take : upload[x].phase = "linked"}}

\* HandleRecordsDownload: NoFile is its 404.
Served(id) == files[id]
-----------------------------------------------------------------------------
PageStep(t) == OnData(t) \/ OnStop(t) \/ OnResponse(t)
ProxyStep(t) == \/ OpenStream(t) \/ SendChunk(t) \/ SendFails(t)
                \/ BodyTooLarge(t) \/ EndOfBody(t) \/ CloseAndRecv(t)
StorageStep(t) == StoreChunk(t) \/ SealStream(t)

Next == \/ StartClick \/ StopClick \/ LeavePage \/ StorageRestarts
        \/ \E t \in Take : PageStep(t) \/ ProxyStep(t) \/ GivesUp(t) \/ StorageStep(t)

Spec == Init /\ [][Next]_vars

\* The event loop, the handler of a request and the goroutine of a stream go
\* on; nobody has to click, to give up or to restart.
FairSpec == Spec /\ \A t \in Take : /\ WF_vars(PageStep(t))
                                    /\ WF_vars(ProxyStep(t))
                                    /\ WF_vars(StorageStep(t))
-----------------------------------------------------------------------------
Phases == {"none", "opening", "streaming", "closing", "stored", "failed",
           "linked", "unlinked", "reported"}

\* Everything has its type; no upload sends more than its body, or than the
\* proxy lets through.
TypeOK ==
  /\ page \in [recording : BOOLEAN, id : Take \cup {NoTake},
               current : Take \cup {NoTake}, buffer : Seq(Chunks), gone : BOOLEAN]
  /\ clicks \in 0 .. MaxTakes /\ restarts \in 0 .. MaxRestarts
  /\ recorder \in [Take -> {"none", "running", "stopping", "flushed", "over"}]
  /\ footage \in [Take -> 0 .. MaxLength] /\ rushed \subseteq Take
  /\ upload \in [Take -> [phase : Phases, id : Take \cup {NoTake},
                          blob : Seq(Chunks), sent : 0 .. MaxBody]]
  /\ \A t \in Take : upload[t].sent <= Len(upload[t].blob)
  /\ stream \in [Take -> [state : {"idle", "open", "broken", "answered"},
                          queue : Seq(Chunks)]]
  /\ files \in [Take -> {NoFile} \cup Seq(Chunks)]
  /\ videoFiles \subseteq {t \in Take : files[t] # NoFile}

\* A file has every chunk of a blob, once and in its order, whatever else is
\* in it.
InOrder(blob, file) ==
  /\ \A i \in DOMAIN blob : \E m \in DOMAIN file : file[m] = blob[i]
  /\ \A i, j \in DOMAIN blob, m, n \in DOMAIN file :
       file[m] = blob[i] /\ file[n] = blob[j] => (m < n <=> i < j)

\* What the proxy answers with 200 is in the file whole and in order, even if
\* another upload has been written to the same file, spr-storage has been
\* restarted or the disk was full: the answer of the stream is the only
\* thing that says so, and every failure on the way must reach it.
UploadsAreWhole ==
  \A t \in Take : upload[t].phase \in {"stored", "linked", "unlinked"} =>
    InOrder(upload[t].blob, Contents(Served(upload[t].id)))

\* A link in the chat leads to the take it was made for, all of it and
\* nothing else, unless that take was started before the one before it had
\* been handed over ("download valid WebM", mod_recorder.js:103).
LinksLeadToTakes ==
  \A t \in Links \ rushed : Served(t) = Reel(t)

\* Once its link is out, a file never changes, with the same exception: no
\* late frame, other upload or second try adds to it.
LinkedFilesAreFinal ==
  [][\A t \in Links \ rushed : Served(t)' = Served(t)]_vars

\* Whatever fails, a recorder that was told to stop comes to an end: the take
\* was empty (or another one went off with it), or the page hears what became
\* of its upload, or it has been left.
TakesAreSettled ==
  \A t \in Take : recorder[t] = "stopping" ~>
    \/ page.gone
    \/ recorder[t] = "over" /\ upload[t].phase \in {"none", "linked", "unlinked", "reported"}
=============================================================================
