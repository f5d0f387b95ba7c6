------------------------ MODULE MediaRecordingProofs ------------------------
(***************************************************************************)
(* Theorems about recordings, for any number and length of takes, any      *)
(* limit of the proxy and any number of restarts: what was answered as     *)
(* stored is in its file whole, and a link leads to its take for good.     *)
(***************************************************************************)
EXTENDS MediaRecording, SequenceTheorems, TLAPS

Started(t) == upload[t].phase # "none"

\* Takes are numbered by their clicks.
TakesAreNumbered ==
  /\ rushed \subseteq 1 .. clicks
  /\ page.id # NoTake => page.id \in 1 .. clicks
  /\ \A t \in Take : recorder[t] # "none" => t \in 1 .. clicks /\ page.id # NoTake
  /\ \A t \in Take : Started(t) => upload[t].id \in 1 .. clicks

\* How far recorder, upload and stream of a take are.
StageAgrees(t) ==
  /\ Started(t) => recorder[t] = "over"
  /\ ~ Started(t) => upload[t] = NoUpload
  /\ upload[t].phase \in {"none", "opening"} => stream[t] = NoStream /\ upload[t].sent = 0
  /\ stream[t].state = "idle" =>
       upload[t].phase \in {"none", "opening", "failed", "reported"} /\ upload[t].sent = 0
  /\ stream[t].state = "open" => upload[t].phase \in {"streaming", "closing"}
  /\ upload[t].phase = "closing" => upload[t].sent = Len(upload[t].blob)
  /\ upload[t].phase \in {"stored", "linked", "unlinked"} => stream[t].state = "answered"
  /\ stream[t].state = "answered" =>
       /\ stream[t].queue = <<>> /\ upload[t].sent = Len(upload[t].blob)
       /\ upload[t].phase \notin {"none", "opening", "streaming", "failed"}
StagesAgree == \A t \in Take : StageAgrees(t)

\* No chunk is twice in the buffer and the blobs, and the chunks of a take are
\* in none of them before its recorder has delivered.
Distinct(s) == \A i, j \in DOMAIN s : s[i] = s[j] => i = j
Apart(s, t) == \A i \in DOMAIN s, j \in DOMAIN t : s[i] # t[j]
Delivered(s, r) == \A i \in DOMAIN s : s[i][2] # 0 /\ r[s[i][1]] \in {"flushed", "over"}

ChunksOnce ==
  /\ Distinct(page.buffer) /\ Delivered(page.buffer, recorder)
  /\ \A t \in Take : /\ Distinct(upload[t].blob) /\ Delivered(upload[t].blob, recorder)
                     /\ Apart(page.buffer, upload[t].blob)
  /\ \A s, t \in Take : s # t => Apart(upload[s].blob, upload[t].blob)

\* What is whole in a file was sent by an upload.
Sent(c, t) == \E i \in 1 .. upload[t].sent : upload[t].blob[i] = c
FilesWereSent ==
  \A id \in Take : \A m \in DOMAIN Contents(files[id]) :
    LET c == Contents(files[id])[m] IN c[2] = 0 \/ \E t \in Take : Sent(c, t)

\* Of an upload whose stream has not broken, the first chunks are in the file,
\* in their order, and the rest of what was sent is in the stream.
FirstInOrder(blob, k, file) ==
  /\ \A i \in DOMAIN blob : i <= k <=> \E m \in DOMAIN file : file[m] = blob[i]
  /\ \A i, j \in DOMAIN blob, m, n \in DOMAIN file :
       file[m] = blob[i] /\ file[n] = blob[j] => (m < n <=> i < j)

Stored(t) == upload[t].sent - Len(stream[t].queue)
Whole(t) == stream[t].state \in {"open", "answered"}
StreamInOrder(t) ==
  /\ Stored(t) \in Nat
  /\ \A i \in DOMAIN stream[t].queue : stream[t].queue[i] = upload[t].blob[Stored(t) + i]
  /\ FirstInOrder(upload[t].blob, Stored(t), Contents(files[upload[t].id]))
StreamsInOrder == \A t \in Take : Whole(t) => StreamInOrder(t)

\* A take that was not rushed has the page, its upload and its file to itself.
OnlyFirst(blob, k, file) == Len(file) = k /\ \A m \in 1 .. k : file[m] = blob[m]

PageIsItsOwn ==
  /\ page.recording /\ page.current # NoTake => page.current = page.id
  /\ page.id \in Take \ rushed =>
       /\ Ending \subseteq {page.id}
       /\ page.buffer = IF recorder[page.id] = "flushed" THEN Reel(page.id) ELSE <<>>
UploadIsItsOwn(t) ==
  Started(t) /\ upload[t].id \notin rushed =>
    upload[t].id = t /\ upload[t].blob = Reel(t) /\ upload[t].blob # <<>>
FileIsItsOwn(t) ==
  t \notin rushed =>
    /\ stream[t].state = "idle" => files[t] = NoFile
    /\ Whole(t) /\ upload[t].id = t =>
         OnlyFirst(upload[t].blob, Stored(t), Contents(files[t]))
TakesApart ==
  PageIsItsOwn /\ \A t \in Take : UploadIsItsOwn(t) /\ FileIsItsOwn(t)

RecordingInv ==
  /\ TypeOK /\ TakesAreNumbered /\ StagesAgree
  /\ ChunksOnce /\ FilesWereSent /\ StreamsInOrder /\ TakesApart
-----------------------------------------------------------------------------
(***************************************************************************)
(* Chunks, files and what a step leaves of the uploads.                    *)
(***************************************************************************)
FirstChunks(t, n) == [k \in 1 .. n |-> <<t, k>>]

LEMMA ReelsAreChunks ==
  ASSUME NEW t \in Take, NEW n \in 0 .. MaxLength
  PROVE  /\ FirstChunks(t, n) \in Seq(Chunks) /\ Len(FirstChunks(t, n)) = n
         /\ \A k \in 1 .. n : FirstChunks(t, n)[k] = <<t, k>>
<1>1. \A k \in 1 .. n : <<t, k>> \in Chunks
  BY RecordingAssumption DEF Chunks
<1>2. FirstChunks(t, n) \in [1 .. n -> Chunks]
  BY <1>1 DEF FirstChunks
<1> QED
  BY <1>2, RecordingAssumption DEF FirstChunks

LEMMA ChunkParts ==
  ASSUME NEW c \in Chunks
  PROVE  c[1] \in Take /\ c[2] \in 0 .. MaxLength /\ c = <<c[1], c[2]>>
BY DEF Chunks

\* NoFile is no sequence, so a file that was written to stays one.
LEMMA FilesAreSequences ==
  ASSUME NEW f \in {NoFile} \cup Seq(Chunks), NEW chunks \in Seq(Chunks)
  PROVE  /\ Contents(f) \in Seq(Chunks)
         /\ Contents(f) \o chunks \in Seq(Chunks)
         /\ Contents(f) \o chunks # NoFile
<1>1. <<>> \in Seq(Chunks)
  OBVIOUS
<1>2. NoFile \notin Seq(Chunks)
  BY RecordingAssumption DEF Chunks
<1>3. Contents(f) \in Seq(Chunks)
  BY <1>1 DEF Contents
<1>4. Contents(f) \o chunks \in Seq(Chunks)
  BY <1>3, ConcatProperties
<1> QED
  BY <1>2, <1>3, <1>4

Pages == [recording : BOOLEAN, id : Take \cup {NoTake}, current : Take \cup {NoTake},
          buffer : Seq(Chunks), gone : BOOLEAN]
Uploads == [phase : Phases, id : Take \cup {NoTake}, blob : Seq(Chunks), sent : 0 .. MaxBody]
Streams == [state : {"idle", "open", "broken", "answered"}, queue : Seq(Chunks)]
Recorders == {"none", "running", "stopping", "flushed", "over"}

LEMMA TypeParts ==
  TypeOK <=>
    /\ page \in Pages /\ clicks \in 0 .. MaxTakes /\ restarts \in 0 .. MaxRestarts
    /\ recorder \in [Take -> Recorders]
    /\ footage \in [Take -> 0 .. MaxLength] /\ rushed \subseteq Take
    /\ upload \in [Take -> Uploads]
    /\ \A t \in Take : upload[t].sent <= Len(upload[t].blob)
    /\ stream \in [Take -> Streams]
    /\ files \in [Take -> {NoFile} \cup Seq(Chunks)]
    /\ videoFiles \subseteq {t \in Take : files[t] # NoFile}
BY DEF TypeOK, Pages, Uploads, Streams, Recorders

LEMMA TypePartsNext ==
  TypeOK' <=>
    /\ page' \in Pages /\ clicks' \in 0 .. MaxTakes /\ restarts' \in 0 .. MaxRestarts
    /\ recorder' \in [Take -> Recorders]
    /\ footage' \in [Take -> 0 .. MaxLength] /\ rushed' \subseteq Take
    /\ upload' \in [Take -> Uploads]
    /\ \A t \in Take : upload'[t].sent <= Len(upload'[t].blob)
    /\ stream' \in [Take -> Streams]
    /\ files' \in [Take -> {NoFile} \cup Seq(Chunks)]
    /\ videoFiles' \subseteq {t \in Take : files'[t] # NoFile}
BY DEF TypeOK, Pages, Uploads, Streams, Recorders

LEMMA Constants ==
  /\ <<>> \in Seq(Chunks) /\ NoTake \notin Take
  /\ Broken \in Streams /\ NoStream \in Streams /\ NoUpload \in Uploads
<1>1. <<>> \in Seq(Chunks)
  OBVIOUS
<1> QED
  BY <1>1, RecordingAssumption DEF Broken, NoStream, NoUpload, Streams, Uploads, Phases, Take

LEMMA PhaseChanges ==
  ASSUME upload \in [Take -> Uploads], NEW t \in Take, NEW phase \in Phases,
         upload' = Phase(t, phase)
  PROVE  /\ upload' \in [Take -> Uploads]
         /\ upload'[t].phase = phase
         /\ \A s \in Take : /\ upload'[s].id = upload[s].id
                            /\ upload'[s].blob = upload[s].blob
                            /\ upload'[s].sent = upload[s].sent
                            /\ s # t => upload'[s] = upload[s]
BY DEF Phase, Uploads

LEMMA InitTypeOK == Init => TypeOK
<1> SUFFICES ASSUME Init PROVE TypeOK
  OBVIOUS
<1>1. page \in Pages
  BY Constants DEF Init, Pages
<1>2. /\ \A t \in Take : upload[t].sent = 0 /\ upload[t].blob = <<>>
      /\ upload \in [Take -> Uploads] /\ stream \in [Take -> Streams]
  BY Constants DEF Init, NoUpload
<1>3. \A t \in Take : upload[t].sent <= Len(upload[t].blob)
  BY <1>2
<1> QED
  BY <1>1, <1>2, <1>3, RecordingAssumption, TypeParts DEF Init, Recorders

LEMMA PageStepTyped ==
  ASSUME TypeOK, StartClick \/ StopClick \/ LeavePage \/ \E t \in Take : OnData(t) \/ OnStop(t)
  PROVE  TypeOK'
<1> USE RecordingAssumption, Constants, TypeParts, TypePartsNext DEF browser, storage
<1>1. CASE StartClick
  <2>1. clicks' \in 0 .. MaxTakes /\ clicks' \in Take
    BY <1>1 DEF StartClick, Take
  <2>2. page' \in Pages
    BY <1>1, <2>1 DEF StartClick, Pages
  <2>3. recorder' \in [Take -> Recorders] /\ rushed' \subseteq Take
    BY <1>1, <2>1 DEF StartClick, Recorders
  <2> QED
    BY <1>1, <2>1, <2>2, <2>3 DEF StartClick
<1>2. CASE StopClick
  <2>1. page' \in Pages
    BY <1>2 DEF StopClick, Pages
  <2>2. recorder' \in [Take -> Recorders]
    BY <1>2 DEF StopClick, Recorders, Pages
  <2> QED
    BY <1>2, <2>1, <2>2 DEF StopClick
<1>3. CASE LeavePage
  <2>1. page' \in Pages
    BY <1>3 DEF LeavePage, Pages
  <2> QED
    BY <1>3, <2>1 DEF LeavePage
<1>4. ASSUME NEW t \in Take, OnData(t)
      PROVE  TypeOK'
  <2>1. PICK n \in 0 .. MaxLength : footage' = [footage EXCEPT ![t] = n]
    BY <1>4 DEF OnData
  <2>2. Reel(t)' \in Seq(Chunks)
    <3>1. footage'[t] = n
      BY <2>1
    <3> QED
      BY <3>1, ReelsAreChunks DEF Reel, FirstChunks
  <2>3. page' \in Pages
    <3>1. page.buffer \o Reel(t)' \in Seq(Chunks)
      BY <2>2, ConcatProperties DEF Pages
    <3>2. page' = [page EXCEPT !.buffer = page.buffer \o Reel(t)']
      BY <1>4 DEF OnData
    <3> QED
      BY <3>1, <3>2 DEF Pages
  <2>4. recorder' \in [Take -> Recorders]
    BY <1>4 DEF OnData, Recorders
  <2> QED
    BY <1>4, <2>1, <2>3, <2>4 DEF OnData
<1>5. ASSUME NEW t \in Take, OnStop(t)
      PROVE  TypeOK'
  <2>1. recorder' \in [Take -> Recorders]
    BY <1>5 DEF OnStop, Recorders
  <2>2. CASE page.buffer = <<>>
    BY <1>5, <2>1, <2>2 DEF OnStop
  <2>3. CASE page.buffer # <<>>
    <3>1. page' \in Pages
      <4>1. page' = [page EXCEPT !.current = NoTake, !.buffer = <<>>]
        BY <1>5, <2>3 DEF OnStop
      <4> QED
        BY <4>1 DEF Pages
    <3>2. Request(page.id, page.buffer) \in Uploads /\ Request(page.id, page.buffer).sent = 0
      BY DEF Request, Phases, Uploads, Pages
    <3>3. upload' = [upload EXCEPT ![t] = Request(page.id, page.buffer)]
      BY <1>5, <2>3 DEF OnStop
    <3>4. upload' \in [Take -> Uploads]
      BY <3>2, <3>3
    <3>5. \A s \in Take : upload'[s].sent <= Len(upload'[s].blob)
      <4> TAKE s \in Take
      <4>1. upload'[s] = IF s = t THEN Request(page.id, page.buffer) ELSE upload[s]
        BY <3>3
      <4>2. Len(upload'[s].blob) \in Nat
        BY <3>4, LenProperties DEF Uploads
      <4> QED
        BY <3>2, <4>1, <4>2
    <3> QED
      BY <1>5, <2>1, <3>1, <3>4, <3>5 DEF OnStop
  <2> QED
    BY <2>2, <2>3
<1> QED
  BY <1>1, <1>2, <1>3, <1>4, <1>5

LEMMA UploadStepTyped ==
  ASSUME TypeOK, NEW t \in Take, OnResponse(t) \/ ProxyStep(t) \/ GivesUp(t) \/ SealStream(t)
  PROVE  TypeOK'
<1> USE RecordingAssumption, Constants, TypeParts, TypePartsNext DEF browser, storage
<1>1. ASSUME NEW phase \in Phases, upload' = Phase(t, phase)
      PROVE  /\ upload' \in [Take -> Uploads]
             /\ \A s \in Take : upload'[s].sent <= Len(upload'[s].blob)
  BY <1>1, PhaseChanges
<1>2. Phases = {"none", "opening", "streaming", "closing", "stored", "failed",
                "linked", "unlinked", "reported"}
  BY DEF Phases
<1>3. ASSUME Abandoned(t) PROVE TypeOK'
  BY <1>1, <1>2, <1>3 DEF Abandoned
<1>4. CASE OnResponse(t)
  BY <1>1, <1>2, <1>4 DEF OnResponse
<1>5. CASE OpenStream(t)
  <2>1. stream' \in [Take -> Streams]
    <3>1. CASE stream' = [stream EXCEPT ![t].state = "open"]
      BY <3>1 DEF Streams
    <3> QED
      BY <1>5, <3>1 DEF OpenStream
  <2> QED
    BY <1>1, <1>2, <1>5, <2>1 DEF OpenStream
<1>6. CASE SendChunk(t)
  <2>1. /\ upload[t].blob \in Seq(Chunks) /\ stream[t].queue \in Seq(Chunks)
        /\ upload[t].sent \in Nat /\ upload[t].sent < Len(upload[t].blob)
    BY <1>6 DEF SendChunk, Uploads, Streams
  <2>2. upload[t].blob[upload[t].sent + 1] \in Chunks
    BY <2>1, ElementOfSeq, LenProperties
  <2>3. Append(stream[t].queue, upload[t].blob[upload[t].sent + 1]) \in Seq(Chunks)
    BY <2>1, <2>2, AppendProperties
  <2>4. stream' \in [Take -> Streams]
    BY <1>6, <2>3 DEF SendChunk, Streams
  <2>5. /\ upload' \in [Take -> Uploads]
        /\ \A s \in Take : upload'[s].sent <= Len(upload'[s].blob)
    <3>1. upload' = [upload EXCEPT ![t].sent = upload[t].sent + 1]
      BY <1>6 DEF SendChunk
    <3>2. upload[t].sent + 1 \in 0 .. MaxBody /\ upload[t].sent + 1 <= Len(upload[t].blob)
      <4>1. upload[t].sent < MaxBody
        BY <1>6 DEF SendChunk
      <4>2. Len(upload[t].blob) \in Nat
        BY <2>1, LenProperties
      <4> HIDE TypeParts, TypePartsNext, Constants
      <4> QED
        BY <2>1, <4>1, <4>2
    <3> QED
      BY <3>1, <3>2 DEF Uploads
  <2> QED
    BY <1>6, <2>4, <2>5 DEF SendChunk
<1>7. CASE SendFails(t) \/ BodyTooLarge(t) \/ GivesUp(t)
  BY <1>3, <1>7 DEF SendFails, BodyTooLarge, GivesUp
<1>8. CASE EndOfBody(t)
  BY <1>1, <1>2, <1>8 DEF EndOfBody
<1>9. CASE CloseAndRecv(t)
  BY <1>1, <1>2, <1>9 DEF CloseAndRecv
<1>10. CASE SealStream(t)
  <2>1. stream' \in [Take -> Streams]
    BY <1>10 DEF SealStream, Streams
  <2> QED
    BY <1>10, <2>1 DEF SealStream
<1> QED
  BY <1>4, <1>5, <1>6, <1>7, <1>8, <1>9, <1>10 DEF ProxyStep

\* What a step of the storage does to the file of an upload.
LEMMA StoreSteps ==
  ASSUME TypeOK, StagesAgree, TakesAreNumbered, NEW t \in Take, StoreChunk(t)
  PROVE  /\ upload[t].id \in Take /\ Started(t)
         /\ stream[t].queue \in Seq(Chunks) /\ stream[t].queue # <<>>
         /\ Head(stream[t].queue) \in Chunks /\ Tail(stream[t].queue) \in Seq(Chunks)
         /\ stream' \in [Take -> Streams]
         /\ \A s \in Take : s # t => stream'[s] = stream[s]
         /\ \/ UNCHANGED <<files, videoFiles>> /\ stream'[t] = Broken
            \/ \E chunks \in Seq(Chunks) :
                 /\ files' = Appended(upload[t].id, chunks)
                 /\ videoFiles' = videoFiles \cup {upload[t].id}
                 /\ \/ /\ chunks = <<Head(stream[t].queue)>>
                       /\ stream'[t].state = "open"
                       /\ stream'[t].queue = Tail(stream[t].queue)
                    \/ /\ chunks = <<>> \/ chunks = << <<Head(stream[t].queue)[1], 0>> >>
                       /\ stream'[t] = Broken
<1> DEFINE chunk == Head(stream[t].queue)
<1>1. upload[t].id \in Take /\ Started(t)
  <2>1. stream[t].state = "open"
    BY DEF StoreChunk
  <2>2. Started(t)
    BY <2>1 DEF StagesAgree, StageAgrees, Started
  <2>3. upload[t].id \in 1 .. clicks /\ clicks \in 0 .. MaxTakes
    BY <2>2, TypeParts DEF TakesAreNumbered
  <2> QED
    BY <2>2, <2>3, RecordingAssumption DEF Take
<1>2. stream[t].queue \in Seq(Chunks) /\ stream[t].queue # <<>>
  BY TypeParts DEF StoreChunk, Streams
<1>3. chunk \in Chunks /\ Tail(stream[t].queue) \in Seq(Chunks)
  BY <1>2, HeadTailProperties
<1>4. /\ <<chunk>> \in Seq(Chunks) /\ <<>> \in Seq(Chunks)
      /\ << <<chunk[1], 0>> >> \in Seq(Chunks)
  <2>1. <<chunk[1], 0>> \in Chunks
    <3>1. chunk[1] \in Take
      BY <1>3, ChunkParts
    <3> QED
      BY <3>1, RecordingAssumption DEF Chunks
  <2> QED
    BY <1>3, <2>1
<1> HIDE DEF chunk
<1>5. \/ /\ files' = Appended(upload[t].id, <<chunk>>)
         /\ videoFiles' = videoFiles \cup {upload[t].id}
         /\ stream' = [stream EXCEPT ![t].queue = Tail(stream[t].queue)]
      \/ /\ UNCHANGED <<files, videoFiles>>
         /\ stream' = [stream EXCEPT ![t] = Broken]
      \/ /\ files' = Appended(upload[t].id, <<>>) \/ files' = Appended(upload[t].id, << <<chunk[1], 0>> >>)
         /\ videoFiles' = videoFiles \cup {upload[t].id}
         /\ stream' = [stream EXCEPT ![t] = Broken]
  BY DEF StoreChunk, chunk
<1>6. \A s \in Take : s # t => stream'[s] = stream[s]
  BY <1>5, TypeParts
<1>7. stream' \in [Take -> Streams]
  <2>1. stream \in [Take -> Streams]
    BY TypeParts
  <2>2. CASE stream' = [stream EXCEPT ![t].queue = Tail(stream[t].queue)]
    BY <1>3, <2>1, <2>2 DEF Streams
  <2>3. CASE stream' = [stream EXCEPT ![t] = Broken]
    BY <2>1, <2>3, Constants
  <2> QED
    BY <1>5, <2>2, <2>3
<1>8. \/ UNCHANGED <<files, videoFiles>> /\ stream'[t] = Broken
      \/ \E chunks \in Seq(Chunks) :
           /\ files' = Appended(upload[t].id, chunks)
           /\ videoFiles' = videoFiles \cup {upload[t].id}
           /\ \/ /\ chunks = <<chunk>>
                 /\ stream'[t].state = "open"
                 /\ stream'[t].queue = Tail(stream[t].queue)
              \/ /\ chunks = <<>> \/ chunks = << <<chunk[1], 0>> >>
                 /\ stream'[t] = Broken
  <2>1. stream[t].state = "open" /\ stream \in [Take -> Streams]
    BY TypeParts DEF StoreChunk
  <2>2. CASE stream' = [stream EXCEPT ![t].queue = Tail(stream[t].queue)]
    <3>1. stream'[t].state = "open" /\ stream'[t].queue = Tail(stream[t].queue)
      BY <2>1, <2>2 DEF Streams
    <3>2. stream'[t] # Broken
      BY <3>1 DEF Broken
    <3>3. stream' # [stream EXCEPT ![t] = Broken]
      BY <2>1, <3>2
    <3> QED
      BY <1>4, <1>5, <3>1, <3>3, Zenon
  <2>3. CASE stream' = [stream EXCEPT ![t] = Broken]
    <3>1. stream'[t] = Broken
      BY <2>1, <2>3
    <3>2. stream' # [stream EXCEPT ![t].queue = Tail(stream[t].queue)]
      BY <2>1, <3>1 DEF Broken, Streams
    <3> QED
      BY <1>4, <1>5, <3>1, <3>2, Zenon
  <2> QED
    BY <1>5, <2>2, <2>3
<1> QED
  BY <1>1, <1>2, <1>3, <1>6, <1>7, <1>8 DEF chunk

LEMMA StorageStepTyped ==
  ASSUME TypeOK, StagesAgree, TakesAreNumbered, StorageRestarts \/ \E t \in Take : StoreChunk(t)
  PROVE  TypeOK'
<1> USE RecordingAssumption, Constants, TypeParts, TypePartsNext DEF browser, storage
<1>1. CASE StorageRestarts
  <2>1. stream' \in [Take -> Streams]
    BY <1>1 DEF StorageRestarts
  <2> QED
    BY <1>1, <2>1 DEF StorageRestarts
<1>2. ASSUME NEW t \in Take, StoreChunk(t)
      PROVE  TypeOK'
  <2> DEFINE id == upload[t].id
  <2>1. id \in Take
    BY <1>2, StoreSteps
  <2>2. UNCHANGED <<browser, upload, restarts>>
    BY <1>2 DEF StoreChunk
  <2>3. stream' \in [Take -> Streams]
    BY <1>2, StoreSteps
  <2>4. /\ files' \in [Take -> {NoFile} \cup Seq(Chunks)]
        /\ videoFiles' \subseteq {s \in Take : files'[s] # NoFile}
    <3>1. CASE UNCHANGED <<files, videoFiles>>
      BY <3>1
    <3>2. ASSUME NEW chunks \in Seq(Chunks), files' = Appended(id, chunks),
                 videoFiles' = videoFiles \cup {id}
          PROVE  /\ files' \in [Take -> {NoFile} \cup Seq(Chunks)]
                 /\ videoFiles' \subseteq {s \in Take : files'[s] # NoFile}
      <4>1. /\ Contents(files[id]) \o chunks \in Seq(Chunks)
            /\ Contents(files[id]) \o chunks # NoFile
        BY <2>1, FilesAreSequences
      <4>2. files' = [files EXCEPT ![id] = Contents(files[id]) \o chunks]
        BY <3>2 DEF Appended
      <4> QED
        BY <2>1, <3>2, <4>1, <4>2
    <3> QED
      BY <1>2, <3>1, <3>2, StoreSteps
  <2> QED
    BY <2>2, <2>3, <2>4
<1> QED
  BY <1>1, <1>2
-----------------------------------------------------------------------------
(***************************************************************************)
(* What a step does to an upload and its stream, without EXCEPT.           *)
(***************************************************************************)
Opens(t) ==
  /\ upload[t].phase = "opening" /\ upload'[t].phase = "streaming"
  /\ upload'[t].sent = upload[t].sent
  /\ stream'[t].state = "open" /\ stream'[t].queue = stream[t].queue
Sends(t) ==
  /\ upload[t].phase = "streaming" /\ upload'[t].phase = "streaming"
  /\ upload[t].sent < Len(upload[t].blob) /\ upload'[t].sent = upload[t].sent + 1
  /\ IF stream[t].state = "open"
       THEN /\ stream'[t].state = "open"
            /\ stream'[t].queue = Append(stream[t].queue, upload[t].blob[upload[t].sent + 1])
       ELSE stream'[t] = stream[t]
Fails(t) ==
  /\ upload[t].phase \in {"streaming", "closing"} /\ upload'[t].phase = "failed"
  /\ upload'[t].sent = upload[t].sent /\ stream'[t] = Broken
Seals(t) ==
  /\ upload[t].phase = "closing" /\ upload'[t] = upload[t]
  /\ stream[t].state = "open" /\ stream[t].queue = <<>>
  /\ stream'[t].state = "answered" /\ stream'[t].queue = <<>>
Advances(t) ==
  /\ upload'[t].sent = upload[t].sent /\ stream'[t] = stream[t]
  /\ \/ upload[t].phase = "opening" /\ upload'[t].phase = "failed"
     \/ /\ upload[t].phase = "streaming" /\ upload'[t].phase = "closing"
        /\ upload[t].sent = Len(upload[t].blob)
     \/ /\ upload[t].phase = "closing" /\ upload'[t].phase = "stored"
        /\ stream[t].state = "answered"
     \/ /\ upload[t].phase = "closing" /\ upload'[t].phase = "failed"
        /\ stream[t].state = "broken"
     \/ upload[t].phase = "stored" /\ upload'[t].phase \in {"linked", "unlinked", "reported"}
     \/ upload[t].phase = "failed" /\ upload'[t].phase = "reported"

UploadStep(t) ==
  /\ UNCHANGED <<browser, storage>>
  /\ upload' \in [Take -> Uploads] /\ stream' \in [Take -> Streams]
  /\ \A s \in Take : /\ upload'[s].id = upload[s].id /\ upload'[s].blob = upload[s].blob
                     /\ s # t => upload'[s] = upload[s] /\ stream'[s] = stream[s]
  /\ Opens(t) \/ Sends(t) \/ Fails(t) \/ Seals(t) \/ Advances(t)

LEMMA UploadSteps ==
  ASSUME TypeOK, NEW t \in Take, OnResponse(t) \/ ProxyStep(t) \/ GivesUp(t) \/ SealStream(t)
  PROVE  UploadStep(t)
<1>0. /\ upload' \in [Take -> Uploads] /\ stream' \in [Take -> Streams]
      /\ upload \in [Take -> Uploads] /\ stream \in [Take -> Streams]
  BY UploadStepTyped, TypeParts, TypePartsNext
<1>1. ASSUME NEW phase \in Phases, upload' = Phase(t, phase)
      PROVE  /\ upload'[t].phase = phase /\ upload'[t].sent = upload[t].sent
             /\ \A s \in Take : /\ upload'[s].id = upload[s].id /\ upload'[s].blob = upload[s].blob
                                /\ s # t => upload'[s] = upload[s]
  BY <1>0, <1>1, PhaseChanges
<1>2. Phases = {"none", "opening", "streaming", "closing", "stored", "failed",
                "linked", "unlinked", "reported"}
  BY DEF Phases
<1>3. UNCHANGED <<browser, storage>>
  BY DEF OnResponse, ProxyStep, OpenStream, SendChunk, SendFails, BodyTooLarge, EndOfBody,
         CloseAndRecv, GivesUp, SealStream, Abandoned
<1>4. CASE OpenStream(t)
  <2>1. CASE upload' = Phase(t, "streaming") /\ stream' = [stream EXCEPT ![t].state = "open"]
    <3>1. /\ stream'[t].state = "open" /\ stream'[t].queue = stream[t].queue
          /\ \A s \in Take : s # t => stream'[s] = stream[s]
      BY <1>0, <2>1 DEF Streams
    <3> QED
      BY <1>0, <1>1, <1>2, <1>3, <1>4, <2>1, <3>1 DEF UploadStep, Opens, OpenStream
  <2>2. CASE upload' = Phase(t, "failed") /\ UNCHANGED stream
    BY <1>0, <1>1, <1>2, <1>3, <1>4, <2>2 DEF UploadStep, Advances, OpenStream
  <2> QED
    BY <1>4, <2>1, <2>2 DEF OpenStream
<1>5. CASE SendChunk(t)
  <2>1. upload' = [upload EXCEPT ![t].sent = upload[t].sent + 1]
    BY <1>5 DEF SendChunk
  <2>2. /\ upload'[t].sent = upload[t].sent + 1 /\ upload'[t].phase = upload[t].phase
        /\ \A s \in Take : /\ upload'[s].id = upload[s].id /\ upload'[s].blob = upload[s].blob
                           /\ s # t => upload'[s] = upload[s]
    BY <1>0, <2>1 DEF Uploads
  <2>3. upload[t].phase = "streaming" /\ upload[t].sent < Len(upload[t].blob)
    BY <1>5 DEF SendChunk
  <2>4. CASE stream[t].state = "open"
    <3>1. stream' = [stream EXCEPT ![t].queue = Append(stream[t].queue, upload[t].blob[upload[t].sent + 1])]
      BY <1>5, <2>4 DEF SendChunk
    <3>2. /\ stream'[t].state = "open"
          /\ stream'[t].queue = Append(stream[t].queue, upload[t].blob[upload[t].sent + 1])
          /\ \A s \in Take : s # t => stream'[s] = stream[s]
      BY <1>0, <2>4, <3>1 DEF Streams
    <3> QED
      BY <1>0, <1>3, <2>2, <2>3, <2>4, <3>2 DEF UploadStep, Sends
  <2>5. CASE stream[t].state # "open"
    BY <1>0, <1>3, <1>5, <2>2, <2>3, <2>5 DEF UploadStep, Sends, SendChunk
  <2> QED
    BY <2>4, <2>5
<1>6. ASSUME Abandoned(t), upload[t].phase \in {"streaming", "closing"} PROVE UploadStep(t)
  BY <1>0, <1>1, <1>2, <1>3, <1>6 DEF UploadStep, Fails, Abandoned
<1>7. CASE SendFails(t) \/ BodyTooLarge(t) \/ GivesUp(t)
  BY <1>6, <1>7 DEF SendFails, BodyTooLarge, GivesUp
<1>8. CASE EndOfBody(t)
  BY <1>0, <1>1, <1>2, <1>3, <1>8 DEF UploadStep, Advances, EndOfBody
<1>9. CASE CloseAndRecv(t)
  BY <1>0, <1>1, <1>2, <1>3, <1>9 DEF UploadStep, Advances, CloseAndRecv
<1>10. CASE SealStream(t)
  <2>1. /\ stream' = [stream EXCEPT ![t].state = "answered"] /\ upload' = upload
        /\ upload[t].phase = "closing" /\ stream[t].state = "open" /\ stream[t].queue = <<>>
    BY <1>10 DEF SealStream
  <2>2. /\ stream'[t].state = "answered" /\ stream'[t].queue = stream[t].queue
        /\ \A s \in Take : s # t => stream'[s] = stream[s]
    BY <1>0, <2>1 DEF Streams
  <2> QED
    BY <1>0, <1>3, <2>1, <2>2 DEF UploadStep, Seals
<1>11. CASE OnResponse(t)
  BY <1>0, <1>1, <1>2, <1>3, <1>11 DEF UploadStep, Advances, OnResponse
<1> QED
  BY <1>4, <1>5, <1>7, <1>8, <1>9, <1>10, <1>11 DEF ProxyStep

(***************************************************************************)
(* What a step of the page does, without EXCEPT.                           *)
(***************************************************************************)
OthersKeep(f, g, t) == \A s \in Take : s # t => g[s] = f[s]

LEMMA StartSteps ==
  ASSUME TypeOK, StartClick
  PROVE  /\ clicks' = clicks + 1 /\ clicks' \in Take /\ clicks \in Nat
         /\ page'.id = clicks' /\ page'.buffer = <<>> /\ ~ page.recording
         /\ \/ /\ page'.recording /\ page'.current = clicks'
               /\ recorder'[clicks'] = "running"
            \/ /\ ~ page'.recording /\ UNCHANGED recorder
         /\ OthersKeep(recorder, recorder', clicks')
         /\ rushed' = IF Ending = {} THEN rushed ELSE rushed \cup {clicks'}
         /\ UNCHANGED <<footage, upload, stream, storage>>
<1>1. page \in Pages /\ recorder \in [Take -> Recorders] /\ clicks \in 0 .. MaxTakes
  BY TypeParts
<1>2. clicks' = clicks + 1 /\ clicks' \in Take
  BY <1>1, RecordingAssumption DEF StartClick, Take
<1>3. /\ rushed' = IF Ending = {} THEN rushed ELSE rushed \cup {clicks'}
      /\ UNCHANGED <<footage, upload, stream, storage>> /\ ~ page.recording
  BY DEF StartClick
<1>4. CASE /\ page' = [page EXCEPT !.buffer = <<>>, !.id = clicks',
                                   !.current = clicks', !.recording = TRUE]
           /\ recorder' = [recorder EXCEPT ![clicks'] = "running"]
  <2>1. page'.id = clicks' /\ page'.buffer = <<>> /\ page'.recording /\ page'.current = clicks'
    BY <1>1, <1>4 DEF Pages
  <2> QED
    BY <1>1, <1>2, <1>3, <1>4, <2>1 DEF OthersKeep
<1>5. CASE page' = [page EXCEPT !.buffer = <<>>, !.id = clicks'] /\ UNCHANGED recorder
  <2>1. page'.id = clicks' /\ page'.buffer = <<>> /\ page'.recording = page.recording
    BY <1>1, <1>5 DEF Pages
  <2> QED
    BY <1>1, <1>2, <1>3, <1>5, <2>1 DEF OthersKeep
<1> QED
  BY <1>4, <1>5 DEF StartClick

LEMMA StopSteps ==
  ASSUME TypeOK, StopClick
  PROVE  /\ page'.id = page.id /\ page'.buffer = page.buffer /\ page.recording /\ ~ page'.recording
         /\ \/ UNCHANGED recorder
            \/ /\ page.current \in Take /\ recorder[page.current] = "running"
               /\ recorder'[page.current] = "stopping"
               /\ OthersKeep(recorder, recorder', page.current)
         /\ UNCHANGED <<clicks, footage, rushed, upload, stream, storage>>
<1>1. page \in Pages /\ recorder \in [Take -> Recorders]
  BY TypeParts
<1>2. page' = [page EXCEPT !.recording = FALSE]
  BY DEF StopClick
<1>3. page'.id = page.id /\ page'.buffer = page.buffer /\ page'.recording = FALSE
  BY <1>1, <1>2 DEF Pages
<1>4. page.current \in Take \/ page.current = NoTake
  BY <1>1 DEF Pages
<1> QED
  BY <1>1, <1>3, <1>4 DEF StopClick, OthersKeep

LEMMA DataSteps ==
  ASSUME TypeOK, NEW t \in Take, OnData(t)
  PROVE  /\ recorder[t] = "stopping" /\ recorder'[t] = "flushed"
         /\ OthersKeep(recorder, recorder', t) /\ OthersKeep(footage, footage', t)
         /\ footage'[t] \in 0 .. MaxLength
         /\ page'.buffer = page.buffer \o FirstChunks(t, footage'[t])
         /\ page'.id = page.id /\ page'.current = page.current
         /\ page'.recording = page.recording
         /\ UNCHANGED <<clicks, rushed, upload, stream, storage>>
<1>1. page \in Pages /\ recorder \in [Take -> Recorders] /\ footage \in [Take -> 0 .. MaxLength]
  BY TypeParts
<1>2. PICK n \in 0 .. MaxLength : footage' = [footage EXCEPT ![t] = n]
  BY DEF OnData
<1>3. footage'[t] = n /\ OthersKeep(footage, footage', t)
  BY <1>1, <1>2 DEF OthersKeep
<1>4. Reel(t)' = FirstChunks(t, footage'[t])
  BY DEF Reel, FirstChunks
<1>5. page' = [page EXCEPT !.buffer = page.buffer \o FirstChunks(t, footage'[t])]
  BY <1>4 DEF OnData
<1>6. /\ page'.buffer = page.buffer \o FirstChunks(t, footage'[t])
      /\ page'.id = page.id /\ page'.current = page.current
      /\ page'.recording = page.recording
  BY <1>1, <1>5 DEF Pages
<1>7. /\ recorder[t] = "stopping" /\ recorder'[t] = "flushed"
      /\ OthersKeep(recorder, recorder', t)
      /\ UNCHANGED <<clicks, rushed, upload, stream, storage>>
  BY <1>1 DEF OnData, OthersKeep
<1> QED
  BY <1>3, <1>6, <1>7

LEMMA EndSteps ==
  ASSUME TypeOK, NEW t \in Take, OnStop(t)
  PROVE  /\ recorder[t] = "flushed" /\ recorder'[t] = "over"
         /\ OthersKeep(recorder, recorder', t) /\ OthersKeep(upload, upload', t)
         /\ IF page.buffer = <<>>
              THEN UNCHANGED <<page, upload>>
              ELSE /\ upload'[t] = Request(page.id, page.buffer)
                   /\ page'.current = NoTake /\ page'.buffer = <<>>
                   /\ page'.recording = page.recording /\ page'.id = page.id
         /\ UNCHANGED <<clicks, footage, rushed, stream, storage>>
<1>1. page \in Pages /\ recorder \in [Take -> Recorders] /\ upload \in [Take -> Uploads]
  BY TypeParts
<1>2. /\ recorder[t] = "flushed" /\ recorder'[t] = "over"
      /\ OthersKeep(recorder, recorder', t)
      /\ UNCHANGED <<clicks, footage, rushed, stream, storage>>
  BY <1>1 DEF OnStop, OthersKeep
<1>3. CASE page.buffer = <<>>
  BY <1>2, <1>3 DEF OnStop, OthersKeep
<1>4. CASE page.buffer # <<>>
  <2>1. page' = [page EXCEPT !.current = NoTake, !.buffer = <<>>]
    BY <1>4 DEF OnStop
  <2>2. /\ page'.current = NoTake /\ page'.buffer = <<>>
        /\ page'.recording = page.recording /\ page'.id = page.id
    BY <1>1, <2>1 DEF Pages
  <2>3. upload' = [upload EXCEPT ![t] = Request(page.id, page.buffer)]
    BY <1>4 DEF OnStop
  <2>4. upload'[t] = Request(page.id, page.buffer) /\ OthersKeep(upload, upload', t)
    BY <1>1, <2>3 DEF OthersKeep
  <2> QED
    BY <1>2, <1>4, <2>2, <2>4
<1> QED
  BY <1>3, <1>4

LEMMA LeaveSteps ==
  ASSUME TypeOK, LeavePage
  PROVE  /\ page'.id = page.id /\ page'.buffer = page.buffer
         /\ page'.current = page.current /\ page'.recording = page.recording
         /\ UNCHANGED <<clicks, recorder, footage, rushed, upload, stream, storage>>
BY TypeParts DEF LeavePage, Pages

LEMMA RestartSteps ==
  ASSUME TypeOK, StorageRestarts
  PROVE  /\ \A t \in Take : \/ stream'[t] = stream[t] /\ stream[t].state # "open"
                            \/ stream[t].state = "open" /\ stream'[t] = Broken
         /\ UNCHANGED <<browser, upload, files>>
BY TypeParts DEF StorageRestarts

\* The kinds of step, for the proofs that follow.
LEMMA StepKinds ==
  ASSUME Next
  PROVE  \/ StartClick \/ StopClick \/ LeavePage \/ StorageRestarts
         \/ \E t \in Take : OnData(t) \/ OnStop(t)
         \/ \E t \in Take : OnResponse(t) \/ ProxyStep(t) \/ GivesUp(t) \/ SealStream(t)
         \/ \E t \in Take : StoreChunk(t)
BY DEF Next, PageStep, StorageStep
-----------------------------------------------------------------------------
(***************************************************************************)
(* Takes, recorders and uploads keep step.                                 *)
(***************************************************************************)
LEMMA NumbersKept ==
  ASSUME TypeOK, TakesAreNumbered, Next
  PROVE  TakesAreNumbered'
<1> USE DEF TakesAreNumbered, Started
<1>0. clicks \in Nat /\ NoTake \notin Nat
  BY TypeParts, RecordingAssumption
<1>1. CASE StartClick
  <2>1. /\ clicks' = clicks + 1 /\ page'.id = clicks' /\ clicks' # NoTake /\ clicks' \in Nat
        /\ rushed' \subseteq rushed \cup {clicks'} /\ upload' = upload
        /\ \A t \in Take : recorder'[t] = recorder[t] \/ t = clicks'
    BY <1>0, <1>1, StartSteps DEF OthersKeep
  <2>2. 1 .. clicks' = (1 .. clicks) \cup {clicks'}
    BY <1>0, <2>1
  <2> HIDE <1>0
  <2>3. \A t \in Take : recorder'[t] # "none" => t \in 1 .. clicks' /\ page'.id # NoTake
    BY <2>1, <2>2
  <2> QED
    BY <2>1, <2>2, <2>3
<1>2. CASE StopClick
  BY <1>0, <1>2, StopSteps DEF OthersKeep
<1>3. CASE LeavePage
  BY <1>3, LeaveSteps
<1>4. CASE StorageRestarts
  BY <1>4, RestartSteps DEF browser
<1>5. ASSUME NEW t \in Take, OnData(t)
      PROVE  TakesAreNumbered'
  <2>1. /\ recorder[t] # "none" /\ OthersKeep(recorder, recorder', t)
        /\ page'.id = page.id /\ UNCHANGED <<clicks, rushed, upload>>
    BY <1>5, DataSteps
  <2> QED
    BY <2>1 DEF OthersKeep
<1>6. ASSUME NEW t \in Take, OnStop(t)
      PROVE  TakesAreNumbered'
  <2>1. /\ recorder[t] # "none" /\ OthersKeep(recorder, recorder', t)
        /\ OthersKeep(upload, upload', t) /\ UNCHANGED <<clicks, rushed>>
    BY <1>6, EndSteps
  <2>2. page'.id = page.id /\ (upload'[t] = upload[t] \/ upload'[t].id = page.id)
    BY <1>6, EndSteps DEF Request
  <2> QED
    BY <2>1, <2>2 DEF OthersKeep
<1>7. ASSUME NEW t \in Take, OnResponse(t) \/ ProxyStep(t) \/ GivesUp(t) \/ SealStream(t)
      PROVE  TakesAreNumbered'
  <2>1. UploadStep(t)
    BY <1>7, UploadSteps
  <2>2. \A s \in Take : upload'[s].phase # "none" => upload[s].phase # "none"
    BY <2>1 DEF UploadStep, Opens, Sends, Fails, Seals, Advances
  <2> QED
    BY <2>1, <2>2 DEF UploadStep, browser
<1>8. ASSUME NEW t \in Take, StoreChunk(t)
      PROVE  TakesAreNumbered'
  BY <1>8 DEF StoreChunk, browser
<1> QED
  BY <1>1, <1>2, <1>3, <1>4, <1>5, <1>6, <1>7, <1>8, StepKinds

LEMMA StagesKept ==
  ASSUME TypeOK, TakesAreNumbered, StagesAgree, Next
  PROVE  StagesAgree'
<1> USE DEF StagesAgree, StageAgrees, Started
<1>0. /\ \A t \in Take : upload[t].sent \in Nat /\ upload[t].blob \in Seq(Chunks)
      /\ clicks \in Nat
  BY TypeParts, RecordingAssumption DEF Uploads
<1>1. CASE StartClick
  BY <1>0, <1>1, StartSteps DEF OthersKeep, TakesAreNumbered
<1>2. CASE StopClick
  BY <1>2, StopSteps DEF OthersKeep
<1>3. CASE LeavePage
  BY <1>3, LeaveSteps
<1>4. CASE StorageRestarts
  BY <1>4, RestartSteps DEF browser, Broken, NoStream
<1>5. ASSUME NEW t \in Take, OnData(t)
      PROVE  StagesAgree'
  <2>1. /\ recorder[t] = "stopping" /\ OthersKeep(recorder, recorder', t)
        /\ UNCHANGED <<upload, stream>>
    BY <1>5, DataSteps
  <2> QED
    BY <2>1 DEF OthersKeep
<1>6. ASSUME NEW t \in Take, OnStop(t)
      PROVE  StagesAgree'
  BY <1>6, EndSteps DEF OthersKeep, Request, NoUpload, NoStream
<1>7. ASSUME NEW t \in Take, OnResponse(t) \/ ProxyStep(t) \/ GivesUp(t) \/ SealStream(t)
      PROVE  StagesAgree'
  <2>1. UploadStep(t)
    BY <1>7, UploadSteps
  <2>2. \A s \in Take : s # t => StageAgrees(s)'
    BY <2>1 DEF UploadStep, browser
  <2>3. StageAgrees(t) /\ recorder' = recorder /\ upload'[t].blob = upload[t].blob /\ upload[t].sent \in Nat
    BY <1>0, <2>1 DEF UploadStep, browser
  <2>4. ASSUME Opens(t) PROVE StageAgrees(t)'
    BY <2>3, <2>4 DEF Opens
  <2>5. ASSUME Sends(t) PROVE StageAgrees(t)'
    BY <2>3, <2>5 DEF Sends, NoStream
  <2>6. ASSUME Fails(t) PROVE StageAgrees(t)'
    BY <2>3, <2>6 DEF Fails, Broken
  <2>7. ASSUME Seals(t) PROVE StageAgrees(t)'
    BY <2>3, <2>7 DEF Seals
  <2>8. ASSUME Advances(t) PROVE StageAgrees(t)'
    BY <2>3, <2>8 DEF Advances
  <2>9. StageAgrees(t)'
    BY <2>1, <2>4, <2>5, <2>6, <2>7, <2>8 DEF UploadStep
  <2> QED
    BY <2>2, <2>9
<1>8. ASSUME NEW t \in Take, StoreChunk(t)
      PROVE  StagesAgree'
  BY <1>8, StoreSteps DEF StoreChunk, browser, Broken, NoStream
<1> QED
  BY <1>1, <1>2, <1>3, <1>4, <1>5, <1>6, <1>7, <1>8, StepKinds
-----------------------------------------------------------------------------
(***************************************************************************)
(* No chunk comes twice.                                                   *)
(***************************************************************************)
LEMMA ChunksStayDelivered ==
  ASSUME NEW s \in Seq(Chunks), NEW r, NEW q, Delivered(s, r),
         \A t \in Take : r[t] \in {"flushed", "over"} => q[t] \in {"flushed", "over"}
  PROVE  Delivered(s, q)
<1> SUFFICES ASSUME NEW i \in DOMAIN s
             PROVE  s[i][2] # 0 /\ q[s[i][1]] \in {"flushed", "over"}
  BY DEF Delivered
<1>1. s[i] \in Chunks
  BY ElementOfSeq
<1>2. s[i][1] \in Take
  BY <1>1, ChunkParts
<1> QED
  BY <1>2 DEF Delivered

\* A take whose recorder has not delivered adds chunks that are nowhere yet.
LEMMA NewChunks ==
  ASSUME NEW s \in Seq(Chunks), NEW r, Delivered(s, r),
         NEW t \in Take, NEW n \in 0 .. MaxLength, r[t] \notin {"flushed", "over"}
  PROVE  Apart(s, FirstChunks(t, n)) /\ Apart(FirstChunks(t, n), s)
<1>1. ASSUME NEW i \in DOMAIN s, NEW k \in DOMAIN FirstChunks(t, n)
      PROVE  s[i] # FirstChunks(t, n)[k]
  <2>1. s[i][1] # t
    BY DEF Delivered
  <2>2. FirstChunks(t, n)[k] = <<t, k>>
    BY DEF FirstChunks
  <2> QED
    BY <2>1, <2>2
<1> QED
  BY <1>1 DEF Apart

LEMMA DistinctConcat ==
  ASSUME NEW s \in Seq(Chunks), NEW u \in Seq(Chunks), Distinct(s), Distinct(u), Apart(s, u)
  PROVE  Distinct(s \o u)
<1>1. /\ DOMAIN (s \o u) = 1 .. Len(s) + Len(u)
      /\ \A i \in 1 .. Len(s) + Len(u) : (s \o u)[i] = IF i <= Len(s) THEN s[i] ELSE u[i - Len(s)]
      /\ Len(s) \in Nat /\ Len(u) \in Nat /\ DOMAIN s = 1 .. Len(s) /\ DOMAIN u = 1 .. Len(u)
  BY ConcatProperties, LenProperties
<1> SUFFICES ASSUME NEW i \in 1 .. Len(s) + Len(u), NEW j \in 1 .. Len(s) + Len(u),
                    (s \o u)[i] = (s \o u)[j]
             PROVE  i = j
  BY <1>1 DEF Distinct
<1>2. CASE i <= Len(s) /\ j <= Len(s)
  BY <1>1, <1>2 DEF Distinct
<1>3. CASE i > Len(s) /\ j > Len(s)
  <2>1. i - Len(s) \in DOMAIN u /\ j - Len(s) \in DOMAIN u
    BY <1>1, <1>3
  <2>2. u[i - Len(s)] = u[j - Len(s)]
    BY <1>1, <1>3
  <2>3. i - Len(s) = j - Len(s)
    BY <2>1, <2>2 DEF Distinct
  <2> QED
    BY <1>1, <2>3
<1>4. CASE i <= Len(s) /\ j > Len(s)
  <2>1. i \in DOMAIN s /\ j - Len(s) \in DOMAIN u /\ s[i] = u[j - Len(s)]
    BY <1>1, <1>4
  <2> QED
    BY <2>1 DEF Apart
<1>5. CASE i > Len(s) /\ j <= Len(s)
  <2>1. j \in DOMAIN s /\ i - Len(s) \in DOMAIN u /\ s[j] = u[i - Len(s)]
    BY <1>1, <1>5
  <2> QED
    BY <2>1 DEF Apart
<1> QED
  BY <1>1, <1>2, <1>3, <1>4, <1>5

LEMMA ApartConcat ==
  ASSUME NEW s \in Seq(Chunks), NEW u \in Seq(Chunks), NEW v, Apart(s, v), Apart(u, v)
  PROVE  Apart(s \o u, v)
<1>1. /\ DOMAIN (s \o u) = 1 .. Len(s) + Len(u)
      /\ \A i \in 1 .. Len(s) + Len(u) : (s \o u)[i] = IF i <= Len(s) THEN s[i] ELSE u[i - Len(s)]
      /\ Len(s) \in Nat /\ Len(u) \in Nat /\ DOMAIN s = 1 .. Len(s) /\ DOMAIN u = 1 .. Len(u)
  BY ConcatProperties, LenProperties
<1> SUFFICES ASSUME NEW i \in 1 .. Len(s) + Len(u), NEW j \in DOMAIN v
             PROVE  (s \o u)[i] # v[j]
  BY <1>1 DEF Apart
<1>2. CASE i <= Len(s)
  BY <1>1, <1>2 DEF Apart
<1>3. CASE i > Len(s)
  <2>1. i - Len(s) \in DOMAIN u /\ (s \o u)[i] = u[i - Len(s)]
    BY <1>1, <1>3
  <2> QED
    BY <2>1 DEF Apart
<1> QED
  BY <1>1, <1>2, <1>3

LEMMA DeliveredConcat ==
  ASSUME NEW s \in Seq(Chunks), NEW u \in Seq(Chunks), NEW r, Delivered(s, r), Delivered(u, r)
  PROVE  Delivered(s \o u, r)
<1>1. /\ DOMAIN (s \o u) = 1 .. Len(s) + Len(u)
      /\ \A i \in 1 .. Len(s) + Len(u) : (s \o u)[i] = IF i <= Len(s) THEN s[i] ELSE u[i - Len(s)]
      /\ Len(s) \in Nat /\ Len(u) \in Nat /\ DOMAIN s = 1 .. Len(s) /\ DOMAIN u = 1 .. Len(u)
  BY ConcatProperties, LenProperties
<1> SUFFICES ASSUME NEW i \in 1 .. Len(s) + Len(u)
             PROVE  (s \o u)[i][2] # 0 /\ r[(s \o u)[i][1]] \in {"flushed", "over"}
  BY <1>1 DEF Delivered
<1>2. CASE i <= Len(s)
  BY <1>1, <1>2 DEF Delivered
<1>3. CASE i > Len(s)
  <2>1. i - Len(s) \in DOMAIN u /\ (s \o u)[i] = u[i - Len(s)]
    BY <1>1, <1>3
  <2> QED
    BY <2>1 DEF Delivered
<1> QED
  BY <1>1, <1>2, <1>3

\* A recorder that has delivered never does again.
LEMMA RecordersAdvance ==
  ASSUME TypeOK, TakesAreNumbered, Next, NEW s \in Take, recorder[s] \in {"flushed", "over"}
  PROVE  recorder'[s] \in {"flushed", "over"}
<1>1. CASE StartClick
  <2>1. /\ clicks' = clicks + 1 /\ clicks \in Nat /\ OthersKeep(recorder, recorder', clicks')
    BY <1>1, StartSteps
  <2>2. s \in 1 .. clicks
    BY DEF TakesAreNumbered
  <2> QED
    BY <2>1, <2>2 DEF OthersKeep
<1>2. CASE StopClick
  BY <1>2, StopSteps DEF OthersKeep
<1>3. CASE LeavePage \/ StorageRestarts
  BY <1>3, LeaveSteps, RestartSteps DEF browser
<1>4. ASSUME NEW t \in Take, OnData(t) \/ OnStop(t)
      PROVE  recorder'[s] \in {"flushed", "over"}
  <2>1. recorder'[t] \in {"flushed", "over"} /\ OthersKeep(recorder, recorder', t)
    BY <1>4, DataSteps, EndSteps
  <2> QED
    BY <2>1 DEF OthersKeep
<1>5. ASSUME NEW t \in Take, OnResponse(t) \/ ProxyStep(t) \/ GivesUp(t) \/ SealStream(t)
      PROVE  recorder'[s] \in {"flushed", "over"}
  BY <1>5, UploadSteps DEF UploadStep, browser
<1>6. ASSUME NEW t \in Take, StoreChunk(t)
      PROVE  recorder'[s] \in {"flushed", "over"}
  BY <1>6 DEF StoreChunk, browser
<1> QED
  BY <1>1, <1>2, <1>3, <1>4, <1>5, <1>6, StepKinds

\* Only the end of a take changes its blob.
LEMMA BlobsStay ==
  ASSUME TypeOK, Next, \A t \in Take : ~ OnStop(t)
  PROVE  \A s \in Take : upload'[s].blob = upload[s].blob /\ upload'[s].id = upload[s].id
<1>1. CASE StartClick \/ StopClick \/ LeavePage
  BY <1>1, StartSteps, StopSteps, LeaveSteps
<1>2. CASE StorageRestarts
  BY <1>2, RestartSteps
<1>3. ASSUME NEW t \in Take, OnData(t)
      PROVE  upload' = upload
  BY <1>3, DataSteps
<1>4. ASSUME NEW t \in Take, OnResponse(t) \/ ProxyStep(t) \/ GivesUp(t) \/ SealStream(t)
      PROVE  \A s \in Take : upload'[s].blob = upload[s].blob /\ upload'[s].id = upload[s].id
  BY <1>4, UploadSteps DEF UploadStep
<1>5. ASSUME NEW t \in Take, StoreChunk(t)
      PROVE  upload' = upload
  BY <1>5 DEF StoreChunk
<1> QED
  BY <1>1, <1>2, <1>3, <1>4, <1>5, StepKinds

LEMMA NewChunksAreSound ==
  ASSUME NEW t \in Take, NEW n \in 0 .. MaxLength, NEW r, r[t] \in {"flushed", "over"}
  PROVE  Distinct(FirstChunks(t, n)) /\ Delivered(FirstChunks(t, n), r)
<1>1. \A k \in DOMAIN FirstChunks(t, n) : k \in 1 .. n /\ FirstChunks(t, n)[k] = <<t, k>>
  BY DEF FirstChunks
<1>2. Distinct(FirstChunks(t, n))
  BY <1>1 DEF Distinct
<1>3. \A k \in 1 .. n : k # 0
  BY RecordingAssumption
<1> QED
  BY <1>1, <1>2, <1>3 DEF Delivered

LEMMA ChunksKept ==
  ASSUME TypeOK, TakesAreNumbered, StagesAgree, ChunksOnce, Next
  PROVE  ChunksOnce'
<1>1. /\ page.buffer \in Seq(Chunks) /\ \A t \in Take : upload[t].blob \in Seq(Chunks)
      /\ <<>> \in Seq(Chunks)
  BY TypeParts, Constants DEF Pages, Uploads
<1>2. /\ Delivered(page.buffer, recorder')
      /\ \A t \in Take : Delivered(upload[t].blob, recorder')
  BY <1>1, RecordersAdvance, ChunksStayDelivered DEF ChunksOnce
<1>3. \A r : Delivered(<<>>, r) /\ Distinct(<<>>) /\ \A s : Apart(<<>>, s) /\ Apart(s, <<>>)
  BY DEF Delivered, Distinct, Apart
<1>4. ASSUME \A s \in Take : upload'[s].blob = upload[s].blob,
             \/ page'.buffer = page.buffer
             \/ page'.buffer = <<>>
      PROVE  ChunksOnce'
  BY <1>2, <1>3, <1>4 DEF ChunksOnce
<1>5. ASSUME NEW t \in Take, OnData(t)
      PROVE  ChunksOnce'
  <2> DEFINE new == FirstChunks(t, footage'[t])
  <2>1. /\ recorder[t] = "stopping" /\ recorder'[t] = "flushed" /\ footage'[t] \in 0 .. MaxLength
        /\ page'.buffer = page.buffer \o new /\ upload' = upload
    BY <1>5, DataSteps
  <2>2. new \in Seq(Chunks) /\ Distinct(new) /\ Delivered(new, recorder')
    BY <2>1, ReelsAreChunks, NewChunksAreSound
  <2>3. /\ Apart(page.buffer, new)
        /\ \A s \in Take : Apart(new, upload[s].blob)
    BY <1>1, <2>1, NewChunks DEF ChunksOnce
  <2> HIDE DEF new
  <2>4. Distinct(page'.buffer) /\ Delivered(page'.buffer, recorder')
    BY <1>1, <1>2, <2>1, <2>2, <2>3, DistinctConcat, DeliveredConcat DEF ChunksOnce
  <2>5. \A s \in Take : Apart(page'.buffer, upload'[s].blob)
    BY <1>1, <2>1, <2>2, <2>3, ApartConcat DEF ChunksOnce
  <2> QED
    BY <1>2, <2>1, <2>4, <2>5 DEF ChunksOnce
<1>6. ASSUME NEW t \in Take, OnStop(t)
      PROVE  ChunksOnce'
  <2>1. CASE page.buffer = <<>>
    BY <1>4, <1>6, <2>1, EndSteps
  <2>2. CASE page.buffer # <<>>
    <3>1. /\ upload'[t].blob = page.buffer /\ page'.buffer = <<>>
          /\ \A s \in Take : s # t => upload'[s].blob = upload[s].blob
      BY <1>6, <2>2, EndSteps DEF OthersKeep, Request
    <3>2. \A s \in Take : Apart(upload[s].blob, page.buffer)
      BY DEF ChunksOnce, Apart
    <3> QED
      BY <1>2, <1>3, <3>1, <3>2 DEF ChunksOnce
  <2> QED
    BY <2>1, <2>2
<1>7. CASE StartClick \/ StopClick \/ LeavePage
  BY <1>4, <1>7, StartSteps, StopSteps, LeaveSteps
<1>8. CASE StorageRestarts
  BY <1>4, <1>8, RestartSteps DEF browser
<1>9. ASSUME NEW t \in Take, OnResponse(t) \/ ProxyStep(t) \/ GivesUp(t) \/ SealStream(t)
      PROVE  ChunksOnce'
  <2>1. UploadStep(t)
    BY <1>9, UploadSteps
  <2> QED
    BY <1>4, <2>1 DEF UploadStep, browser
<1>10. ASSUME NEW t \in Take, StoreChunk(t)
      PROVE  ChunksOnce'
  BY <1>4, <1>10 DEF StoreChunk, browser
<1> QED
  BY <1>5, <1>6, <1>7, <1>8, <1>9, <1>10, StepKinds
-----------------------------------------------------------------------------
(***************************************************************************)
(* The first chunks of a blob in a file that others append to as well.     *)
(***************************************************************************)
LEMMA AppendNext ==
  ASSUME NEW blob \in Seq(Chunks), Distinct(blob), NEW file \in Seq(Chunks), NEW k \in Nat,
         k < Len(blob), FirstInOrder(blob, k, file)
  PROVE  FirstInOrder(blob, k + 1, file \o <<blob[k + 1]>>)
<1> DEFINE next == file \o <<blob[k + 1]>>
<1>1. /\ Len(file) \in Nat /\ DOMAIN file = 1 .. Len(file)
      /\ Len(blob) \in Nat /\ DOMAIN blob = 1 .. Len(blob) /\ k + 1 \in DOMAIN blob
  BY LenProperties
<1>2. /\ DOMAIN next = 1 .. Len(file) + 1 /\ next[Len(file) + 1] = blob[k + 1]
      /\ \A m \in DOMAIN file : next[m] = file[m] /\ m \in DOMAIN next /\ m < Len(file) + 1
  <2>1. blob[k + 1] \in Chunks
    BY <1>1, ElementOfSeq
  <2>2. <<blob[k + 1]>> \in Seq(Chunks) /\ Len(<<blob[k + 1]>>) = 1 /\ <<blob[k + 1]>>[1] = blob[k + 1]
    BY <2>1
  <2> QED
    BY <1>1, <2>2, ConcatProperties
<1>3. \A m \in DOMAIN next : m \in DOMAIN file \/ m = Len(file) + 1
  BY <1>1, <1>2
<1> HIDE DEF next
<1>4. ASSUME NEW i \in DOMAIN blob
      PROVE  i <= k + 1 <=> \E m \in DOMAIN next : next[m] = blob[i]
  <2>1. CASE i <= k
    <3>1. PICK m \in DOMAIN file : file[m] = blob[i]
      BY <2>1 DEF FirstInOrder
    <3> QED
      BY <1>1, <1>2, <2>1, <3>1
  <2>2. CASE i = k + 1
    <3>1. Len(file) + 1 \in DOMAIN next
      BY <1>1, <1>2
    <3> QED
      BY <1>1, <1>2, <2>2, <3>1
  <2>3. CASE i > k + 1
    <3>1. \A m \in DOMAIN file : file[m] # blob[i]
      BY <1>1, <2>3 DEF FirstInOrder
    <3>2. blob[k + 1] # blob[i]
      BY <1>1, <2>3 DEF Distinct
    <3> QED
      BY <1>1, <1>2, <1>3, <2>3, <3>1, <3>2
  <2> QED
    BY <1>1, <2>1, <2>2, <2>3
<1>5. ASSUME NEW i \in DOMAIN blob, NEW j \in DOMAIN blob, NEW m \in DOMAIN next, NEW n \in DOMAIN next,
             next[m] = blob[i], next[n] = blob[j]
      PROVE  m < n <=> i < j
  <2>1. \A x \in DOMAIN blob, y \in DOMAIN file : next[y] = blob[x] => x <= k
    BY <1>2 DEF FirstInOrder
  <2>2. \A x \in DOMAIN blob : blob[x] = blob[k + 1] => x = k + 1
    BY <1>1 DEF Distinct
  <2>3. CASE m \in DOMAIN file /\ n \in DOMAIN file
    BY <1>2, <1>5, <2>3 DEF FirstInOrder
  <2>4. CASE m \in DOMAIN file /\ n = Len(file) + 1
    <3>1. i <= k /\ j = k + 1 /\ m < n
      BY <1>2, <1>5, <2>1, <2>2, <2>4
    <3> QED
      BY <1>1, <3>1
  <2>5. CASE m = Len(file) + 1 /\ n \in DOMAIN file
    <3>1. j <= k /\ i = k + 1 /\ n < m
      BY <1>2, <1>5, <2>1, <2>2, <2>5
    <3> QED
      BY <1>1, <2>5, <3>1
  <2>6. CASE m = Len(file) + 1 /\ n = Len(file) + 1
    <3>1. i = k + 1 /\ j = k + 1 /\ m = n
      BY <1>2, <1>5, <2>2, <2>6
    <3> QED
      BY <1>1, <2>6, <3>1
  <2> QED
    BY <1>3, <2>3, <2>4, <2>5, <2>6
<1> QED
  BY <1>4, <1>5 DEF FirstInOrder, next

LEMMA AppendOther ==
  ASSUME NEW blob \in Seq(Chunks), NEW file \in Seq(Chunks), NEW k \in Nat,
         NEW chunks \in Seq(Chunks), Apart(chunks, blob), FirstInOrder(blob, k, file)
  PROVE  FirstInOrder(blob, k, file \o chunks)
<1> DEFINE next == file \o chunks
<1>1. /\ Len(file) \in Nat /\ DOMAIN file = 1 .. Len(file)
      /\ Len(chunks) \in Nat /\ DOMAIN chunks = 1 .. Len(chunks)
      /\ DOMAIN next = 1 .. Len(file) + Len(chunks)
      /\ \A m \in 1 .. Len(file) + Len(chunks) :
           next[m] = IF m <= Len(file) THEN file[m] ELSE chunks[m - Len(file)]
  BY LenProperties, ConcatProperties
<1> HIDE DEF next
<1>2. \A m \in DOMAIN file : next[m] = file[m] /\ m \in DOMAIN next
  BY <1>1
<1>3. ASSUME NEW m \in DOMAIN next, NEW i \in DOMAIN blob, next[m] = blob[i]
      PROVE  m \in DOMAIN file
  <2> SUFFICES ASSUME m > Len(file) PROVE FALSE
    BY <1>1
  <2>1. m - Len(file) \in DOMAIN chunks /\ next[m] = chunks[m - Len(file)]
    BY <1>1
  <2> QED
    BY <1>3, <2>1 DEF Apart
<1>4. \A i \in DOMAIN blob :
        (\E m \in DOMAIN next : next[m] = blob[i]) <=> (\E m \in DOMAIN file : file[m] = blob[i])
  BY <1>2, <1>3
<1>5. ASSUME NEW i \in DOMAIN blob, NEW j \in DOMAIN blob, NEW m \in DOMAIN next, NEW n \in DOMAIN next,
             next[m] = blob[i], next[n] = blob[j]
      PROVE  m < n <=> i < j
  <2>1. m \in DOMAIN file /\ n \in DOMAIN file /\ file[m] = blob[i] /\ file[n] = blob[j]
    BY <1>2, <1>3, <1>5
  <2> QED
    BY <2>1 DEF FirstInOrder
<1> QED
  BY <1>4, <1>5 DEF FirstInOrder, next

LEMMA AppendOnly ==
  ASSUME NEW blob \in Seq(Chunks), NEW file \in Seq(Chunks), NEW k \in Nat,
         k < Len(blob), OnlyFirst(blob, k, file)
  PROVE  OnlyFirst(blob, k + 1, file \o <<blob[k + 1]>>)
<1>1. k + 1 \in DOMAIN blob
  BY LenProperties
<1>2. blob[k + 1] \in Chunks
  BY <1>1, ElementOfSeq, LenProperties
<1>3. <<blob[k + 1]>> \in Seq(Chunks) /\ Len(<<blob[k + 1]>>) = 1 /\ <<blob[k + 1]>>[1] = blob[k + 1]
  BY <1>2
<1>4. /\ Len(file \o <<blob[k + 1]>>) = k + 1
      /\ \A m \in 1 .. k : (file \o <<blob[k + 1]>>)[m] = file[m]
      /\ (file \o <<blob[k + 1]>>)[k + 1] = blob[k + 1]
  BY <1>3, ConcatProperties, LenProperties DEF OnlyFirst
<1>5. \A m \in 1 .. k + 1 : m \in 1 .. k \/ m = k + 1
  OBVIOUS
<1>6. \A m \in 1 .. k + 1 : (file \o <<blob[k + 1]>>)[m] = blob[m]
  BY <1>4, <1>5 DEF OnlyFirst
<1> QED
  BY <1>4, <1>6 DEF OnlyFirst
-----------------------------------------------------------------------------
(***************************************************************************)
(* From the blobs through the streams to the files.                        *)
(***************************************************************************)
LEMMA FreshUpload ==
  ASSUME TypeOK, StagesAgree, NEW t \in Take, OnStop(t)
  PROVE  upload[t] = NoUpload /\ stream[t] = NoStream
<1>1. recorder[t] = "flushed"
  BY EndSteps
<1> QED
  BY <1>1 DEF StagesAgree, StageAgrees, Started, NoUpload

LEMMA SentStaysSent ==
  ASSUME TypeOK, TypeOK', StagesAgree, Next, NEW t \in Take, NEW c, Sent(c, t)
  PROVE  Sent(c, t)'
<1>1. PICK i \in 1 .. upload[t].sent : upload[t].blob[i] = c
  BY DEF Sent
<1>2. upload[t].sent \in Nat /\ upload'[t].sent \in Nat
  BY TypeParts, TypePartsNext, RecordingAssumption DEF Uploads
<1>3. ASSUME upload'[t].blob = upload[t].blob, upload'[t].sent >= upload[t].sent
      PROVE  Sent(c, t)'
  <2>1. i \in 1 .. upload'[t].sent /\ upload'[t].blob[i] = c
    BY <1>1, <1>2, <1>3
  <2> QED
    BY <2>1 DEF Sent
<1>4. CASE upload' = upload
  BY <1>2, <1>3, <1>4
<1>5. ASSUME NEW s \in Take, OnStop(s)
      PROVE  Sent(c, t)'
  <2>1. upload[t].sent # 0
    BY <1>1
  <2>2. s # t
    BY <1>5, <2>1, FreshUpload DEF NoUpload
  <2>3. upload'[t] = upload[t]
    BY <1>5, <2>2, EndSteps DEF OthersKeep
  <2> QED
    BY <1>2, <1>3, <2>3
<1>6. ASSUME NEW s \in Take, OnResponse(s) \/ ProxyStep(s) \/ GivesUp(s) \/ SealStream(s)
      PROVE  Sent(c, t)'
  <2>1. UploadStep(s)
    BY <1>6, UploadSteps
  <2>2. upload'[t].sent \in {upload[t].sent, upload[t].sent + 1}
    BY <2>1 DEF UploadStep, Opens, Sends, Fails, Seals, Advances
  <2> QED
    BY <1>2, <1>3, <2>1, <2>2 DEF UploadStep
<1>7. CASE StartClick \/ StopClick \/ LeavePage \/ StorageRestarts
  BY <1>4, <1>7, StartSteps, StopSteps, LeaveSteps, RestartSteps
<1>8. ASSUME NEW s \in Take, OnData(s) \/ StoreChunk(s)
      PROVE  upload' = upload
  BY <1>8, DataSteps DEF StoreChunk
<1> QED
  BY <1>4, <1>5, <1>6, <1>7, <1>8, StepKinds

\* What is written next is the next chunk of the blob, or a part of it with
\* which the stream breaks.
WritesNext(t) ==
  LET id == upload[t].id
      k == Stored(t)
  IN  /\ id \in Take /\ Started(t) /\ UNCHANGED <<browser, upload>> /\ OthersKeep(files, files', id)
      /\ OthersKeep(stream, stream', t)
      /\ k \in Nat /\ k < upload[t].sent /\ stream[t].state = "open"
      /\ \/ /\ stream'[t].state = "open" /\ Stored(t)' = k + 1
            /\ \A i \in DOMAIN stream'[t].queue : stream'[t].queue[i] = upload[t].blob[k + 1 + i]
            /\ Contents(files'[id]) = Contents(files[id]) \o <<upload[t].blob[k + 1]>>
         \/ /\ stream'[t].state = "broken"
            /\ \/ files' = files
               \/ \E chunks \in Seq(Chunks) :
                    /\ \A i \in DOMAIN chunks : chunks[i][2] = 0
                    /\ Contents(files'[id]) = Contents(files[id]) \o chunks

LEMMA StoresNext ==
  ASSUME TypeOK, StagesAgree, TakesAreNumbered, StreamsInOrder, NEW t \in Take, StoreChunk(t)
  PROVE  WritesNext(t)
<1> DEFINE id == upload[t].id
           q == stream[t].queue
           k == Stored(t)
<1>1. /\ id \in Take /\ Started(t) /\ q \in Seq(Chunks) /\ q # <<>>
      /\ OthersKeep(stream, stream', t) /\ stream[t].state = "open"
      /\ UNCHANGED <<browser, upload>>
  BY StoreSteps DEF OthersKeep, StoreChunk
<1>2. k \in Nat /\ \A i \in DOMAIN q : q[i] = upload[t].blob[k + i]
  BY <1>1 DEF StreamsInOrder, StreamInOrder, Whole
<1>3. /\ Len(q) \in Nat /\ Len(q) >= 1 /\ Len(Tail(q)) = Len(q) - 1 /\ Head(q) = q[1]
      /\ \A i \in 1 .. Len(q) - 1 : Tail(q)[i] = q[i + 1]
      /\ DOMAIN q = 1 .. Len(q) /\ DOMAIN Tail(q) = 1 .. Len(q) - 1
  BY <1>1, HeadTailProperties, LenProperties
<1>4. upload[t].sent \in Nat
  BY TypeParts, RecordingAssumption DEF Uploads
<1>5. k < upload[t].sent /\ k = upload[t].sent - Len(q)
  BY <1>3, <1>4 DEF Stored
<1>6. Head(q) = upload[t].blob[k + 1]
  BY <1>2, <1>3
<1>7. ASSUME NEW chunks \in Seq(Chunks), files' = Appended(id, chunks)
      PROVE  OthersKeep(files, files', id) /\ Contents(files'[id]) = Contents(files[id]) \o chunks
  <2>1. files \in [Take -> {NoFile} \cup Seq(Chunks)]
    BY TypeParts
  <2>2. files' = [files EXCEPT ![id] = Contents(files[id]) \o chunks]
    BY <1>7 DEF Appended
  <2>3. Contents(files[id]) \o chunks # NoFile
    BY <1>1, <2>1, FilesAreSequences
  <2> QED
    BY <1>1, <2>1, <2>2, <2>3 DEF OthersKeep, Contents
<1>8. CASE UNCHANGED <<files, videoFiles>> /\ stream'[t] = Broken
  BY <1>1, <1>2, <1>5, <1>8 DEF WritesNext, OthersKeep, Broken
<1>9. ASSUME NEW chunks \in Seq(Chunks), files' = Appended(id, chunks), chunks = <<Head(q)>>,
             stream'[t].state = "open", stream'[t].queue = Tail(q)
      PROVE  WritesNext(t)
  <2>1. Stored(t)' = k + 1
    BY <1>1, <1>3, <1>4, <1>5, <1>9 DEF Stored
  <2>2. \A i \in DOMAIN stream'[t].queue : stream'[t].queue[i] = upload[t].blob[k + 1 + i]
    <3>1. ASSUME NEW i \in 1 .. Len(q) - 1
          PROVE  Tail(q)[i] = upload[t].blob[k + 1 + i]
      <4>1. i + 1 \in DOMAIN q /\ k + (i + 1) = k + 1 + i
        BY <1>2, <1>3
      <4>2. Tail(q)[i] = q[i + 1]
        BY <1>3
      <4>3. q[i + 1] = upload[t].blob[k + (i + 1)]
        BY <1>2, <4>1
      <4> QED
        BY <4>1, <4>2, <4>3
    <3> QED
      BY <1>3, <1>9, <3>1
  <2>3. OthersKeep(files, files', id) /\ Contents(files'[id]) = Contents(files[id]) \o <<upload[t].blob[k + 1]>>
    BY <1>6, <1>7, <1>9
  <2> QED
    BY <1>1, <1>2, <1>5, <1>9, <2>1, <2>2, <2>3 DEF WritesNext
<1>10. ASSUME NEW chunks \in Seq(Chunks), files' = Appended(id, chunks),
              chunks = <<>> \/ chunks = << <<Head(q)[1], 0>> >>, stream'[t] = Broken
       PROVE  WritesNext(t)
  <2>1. \A i \in DOMAIN chunks : chunks[i][2] = 0
    BY <1>10
  <2>2. stream'[t].state = "broken"
    BY <1>10 DEF Broken
  <2>3. OthersKeep(files, files', id) /\ Contents(files'[id]) = Contents(files[id]) \o chunks
    BY <1>7, <1>10
  <2> QED
    BY <1>1, <1>2, <1>5, <2>1, <2>2, <2>3 DEF WritesNext
<1> QED
  BY <1>8, <1>9, <1>10, StoreSteps

LEMMA FilesKept ==
  ASSUME TypeOK, TypeOK', StagesAgree, TakesAreNumbered, StreamsInOrder, FilesWereSent, Next
  PROVE  FilesWereSent'
<1> DEFINE Known(c) == c[2] = 0 \/ \E t \in Take : Sent(c, t)
<1>1. \A c : Known(c) => Known(c)'
  BY SentStaysSent
<1>2. CASE files' = files
  BY <1>1, <1>2 DEF FilesWereSent
<1>3. ASSUME NEW t \in Take, StoreChunk(t)
      PROVE  FilesWereSent'
  <2> DEFINE id == upload[t].id
             k == Stored(t)
  <2>1. WritesNext(t)
    BY <1>3, StoresNext
  <2>2. id \in Take /\ OthersKeep(files, files', id) /\ upload' = upload
    BY <2>1 DEF WritesNext
  <2>3. ASSUME NEW chunks \in Seq(Chunks), \A i \in DOMAIN chunks : Known(chunks[i]),
               Contents(files'[id]) = Contents(files[id]) \o chunks
        PROVE  FilesWereSent'
    <3>1. Contents(files[id]) \in Seq(Chunks)
      BY <2>2, TypeParts, FilesAreSequences
    <3>2. /\ DOMAIN Contents(files'[id]) = 1 .. Len(Contents(files[id])) + Len(chunks)
          /\ \A m \in 1 .. Len(Contents(files[id])) + Len(chunks) :
               Contents(files'[id])[m] = IF m <= Len(Contents(files[id]))
                                           THEN Contents(files[id])[m]
                                           ELSE chunks[m - Len(Contents(files[id]))]
          /\ Len(Contents(files[id])) \in Nat /\ Len(chunks) \in Nat
          /\ DOMAIN chunks = 1 .. Len(chunks)
          /\ DOMAIN Contents(files[id]) = 1 .. Len(Contents(files[id]))
      BY <2>3, <3>1, ConcatProperties, LenProperties
    <3>3. \A m \in DOMAIN Contents(files[id]) : Known(Contents(files[id])[m])
      BY <2>2 DEF FilesWereSent
    <3>4. ASSUME NEW m \in DOMAIN Contents(files'[id])
          PROVE  Known(Contents(files'[id])[m])
      <4>1. CASE m <= Len(Contents(files[id]))
        BY <3>2, <3>3, <4>1
      <4>2. CASE m > Len(Contents(files[id]))
        <5>1. m - Len(Contents(files[id])) \in DOMAIN chunks
          BY <3>2, <4>2
        <5> QED
          BY <2>3, <3>2, <4>2, <5>1
      <4> QED
        BY <3>2, <4>1, <4>2
    <3>5. \A o \in Take : \A m \in DOMAIN Contents(files'[o]) : Known(Contents(files'[o])[m])
      BY <2>2, <3>4 DEF OthersKeep, FilesWereSent
    <3> QED
      BY <1>1, <3>5 DEF FilesWereSent
  <2>4. CASE Contents(files'[id]) = Contents(files[id]) \o <<upload[t].blob[k + 1]>> /\ stream'[t].state = "open"
    <3>1. k + 1 \in 1 .. upload[t].sent /\ upload[t].sent <= Len(upload[t].blob) /\ upload[t].blob \in Seq(Chunks)
          /\ upload[t].sent \in Nat
      BY <2>1, TypeParts, RecordingAssumption DEF WritesNext, Uploads
    <3>2. Known(upload[t].blob[k + 1]) /\ upload[t].blob[k + 1] \in Chunks
      BY <3>1, ElementOfSeq, LenProperties DEF Sent
    <3>3. <<upload[t].blob[k + 1]>> \in Seq(Chunks)
      BY <3>2
    <3>4. \A i \in DOMAIN <<upload[t].blob[k + 1]>> : Known(<<upload[t].blob[k + 1]>>[i])
      BY <3>2
    <3> QED
      BY <2>3, <2>4, <3>3, <3>4
  <2> QED
    BY <1>2, <2>1, <2>3, <2>4 DEF WritesNext
<1>4. ASSUME NEW t \in Take, OnResponse(t) \/ ProxyStep(t) \/ GivesUp(t) \/ SealStream(t)
      PROVE  files' = files
  BY <1>4, UploadSteps DEF UploadStep, storage
<1>5. CASE StartClick \/ StopClick \/ LeavePage \/ StorageRestarts
  BY <1>2, <1>5, StartSteps, StopSteps, LeaveSteps, RestartSteps DEF storage
<1>6. ASSUME NEW t \in Take, OnData(t) \/ OnStop(t)
      PROVE  files' = files
  BY <1>6, DataSteps, EndSteps DEF storage
<1> QED
  BY <1>2, <1>3, <1>4, <1>5, <1>6, StepKinds

LEMMA StreamsKept ==
  ASSUME TypeOK, TakesAreNumbered, StagesAgree, ChunksOnce, FilesWereSent, StreamsInOrder, Next
  PROVE  StreamsInOrder'
<1>0. /\ \A t \in Take : /\ upload[t].blob \in Seq(Chunks) /\ upload[t].sent \in Nat
                         /\ stream[t].queue \in Seq(Chunks)
                         /\ upload[t].sent <= Len(upload[t].blob)
      /\ \A id \in Take : Contents(files[id]) \in Seq(Chunks)
  <2>1. \A id \in Take : Contents(files[id]) \in Seq(Chunks)
    BY TypeParts, FilesAreSequences, Constants
  <2> QED
    BY <2>1, TypeParts, RecordingAssumption DEF Uploads, Streams
<1>1. ASSUME NEW t \in Take, Whole(t), upload'[t] = upload[t], stream'[t] = stream[t], files' = files
      PROVE  StreamInOrder(t)'
  BY <1>1 DEF StreamsInOrder, StreamInOrder, Stored
<1>2. CASE upload' = upload /\ stream' = stream /\ files' = files
  BY <1>1, <1>2 DEF StreamsInOrder, Whole
<1>3. CASE StartClick \/ StopClick \/ LeavePage
  BY <1>2, <1>3, StartSteps, StopSteps, LeaveSteps DEF storage
<1>4. ASSUME NEW t \in Take, OnData(t)
      PROVE  StreamsInOrder'
  BY <1>2, <1>4, DataSteps DEF storage
<1>5. CASE StorageRestarts
  <2>1. ASSUME NEW t \in Take, Whole(t)'
        PROVE  Whole(t) /\ upload'[t] = upload[t] /\ stream'[t] = stream[t] /\ files' = files
    BY <1>5, <2>1, RestartSteps DEF Whole, Broken
  <2> QED
    BY <1>1, <2>1 DEF StreamsInOrder
<1>6. ASSUME NEW t \in Take, OnStop(t)
      PROVE  StreamsInOrder'
  <2>1. stream' = stream /\ files' = files /\ OthersKeep(upload, upload', t) /\ ~ Whole(t)
    BY <1>6, EndSteps, FreshUpload DEF storage, Whole, NoStream
  <2> QED
    BY <1>1, <2>1 DEF StreamsInOrder, OthersKeep, Whole
<1>7. ASSUME NEW t \in Take, OnResponse(t) \/ ProxyStep(t) \/ GivesUp(t) \/ SealStream(t)
      PROVE  StreamsInOrder'
  <2>1. UploadStep(t)
    BY <1>7, UploadSteps
  <2>2. \A s \in Take : s # t /\ Whole(s)' => StreamInOrder(s)'
    BY <1>1, <2>1 DEF UploadStep, storage, Whole
  <2>3. /\ files' = files /\ upload'[t].id = upload[t].id /\ upload'[t].blob = upload[t].blob
    BY <2>1 DEF UploadStep, storage
  <2>4. ASSUME Opens(t)
        PROVE  StreamInOrder(t)'
    <3>1. /\ Started(t) /\ stream[t] = NoStream /\ upload[t].sent = 0
      BY <2>4 DEF Opens, StagesAgree, StageAgrees, Started
    <3>2. stream'[t].queue = <<>> /\ upload'[t].sent = 0
      BY <2>4, <3>1 DEF Opens, NoStream
    <3>3. Stored(t)' = 0
      <4>1. Len(stream'[t].queue) = 0
        BY <3>2
      <4>2. Stored(t)' = upload'[t].sent - Len(stream'[t].queue)
        BY DEF Stored
      <4>3. Stored(t)' = 0 - 0
        BY <3>2, <4>1, <4>2, Zenon
      <4> QED
        BY <4>3
    <3>4. upload[t].id \in Take
      BY <3>1, TypeParts, RecordingAssumption DEF TakesAreNumbered, Take
    <3>5. ASSUME NEW i \in DOMAIN upload[t].blob, NEW m \in DOMAIN Contents(files[upload[t].id])
          PROVE  Contents(files[upload[t].id])[m] # upload[t].blob[i]
      <4> SUFFICES ASSUME Contents(files[upload[t].id])[m] = upload[t].blob[i]
                   PROVE  FALSE
        OBVIOUS
      <4>1. upload[t].blob[i][2] # 0
        BY DEF ChunksOnce, Delivered
      <4>2. PICK s \in Take : Sent(upload[t].blob[i], s)
        BY <3>4, <4>1 DEF FilesWereSent
      <4>3. PICK j \in 1 .. upload[s].sent : upload[s].blob[j] = upload[t].blob[i]
        BY <4>2 DEF Sent
      <4>4. j \in DOMAIN upload[s].blob
        BY <1>0, <4>3, LenProperties
      <4>5. s = t
        BY <4>3, <4>4 DEF ChunksOnce, Apart
      <4> QED
        BY <3>1, <4>3, <4>5
    <3>6. \A i \in DOMAIN upload[t].blob : i \in Nat /\ i > 0
      BY <1>0, LenProperties
    <3>7. FirstInOrder(upload[t].blob, 0, Contents(files[upload[t].id]))
      BY <3>5, <3>6 DEF FirstInOrder
    <3> QED
      BY <2>3, <3>2, <3>3, <3>7 DEF StreamInOrder
  <2>5. ASSUME Sends(t), Whole(t)'
        PROVE  StreamInOrder(t)'
    <3>1. /\ stream[t].state = "open" /\ upload'[t].sent = upload[t].sent + 1
          /\ stream'[t].queue = Append(stream[t].queue, upload[t].blob[upload[t].sent + 1])
          /\ upload[t].sent < Len(upload[t].blob)
      <4>1. stream[t].state # "answered"
        BY <2>5 DEF Sends, StagesAgree, StageAgrees
      <4> QED
        BY <2>5, <4>1 DEF Sends, Whole
    <3>2. upload[t].blob[upload[t].sent + 1] \in Chunks
      BY <1>0, <3>1, ElementOfSeq, LenProperties
    <3>3. /\ Len(stream'[t].queue) = Len(stream[t].queue) + 1 /\ Len(stream[t].queue) \in Nat
          /\ DOMAIN stream'[t].queue = 1 .. Len(stream[t].queue) + 1
          /\ DOMAIN stream[t].queue = 1 .. Len(stream[t].queue)
          /\ \A i \in 1 .. Len(stream[t].queue) : stream'[t].queue[i] = stream[t].queue[i]
          /\ stream'[t].queue[Len(stream[t].queue) + 1] = upload[t].blob[upload[t].sent + 1]
      BY <1>0, <3>1, <3>2, AppendProperties, LenProperties
    <3>4. StreamInOrder(t)
      BY <3>1 DEF StreamsInOrder, Whole
    <3>5. Stored(t)' = Stored(t) /\ Stored(t) \in Nat
      <4>1. Stored(t)' = (upload[t].sent + 1) - (Len(stream[t].queue) + 1)
        BY <3>1, <3>3 DEF Stored
      <4>2. upload[t].sent \in Nat /\ Len(stream[t].queue) \in Nat
        BY <1>0, <3>3
      <4> QED
        BY <3>4, <4>1, <4>2 DEF Stored, StreamInOrder
    <3>6. Stored(t) + (Len(stream[t].queue) + 1) = upload[t].sent + 1
      BY <1>0, <3>3 DEF Stored
    <3>7. ASSUME NEW i \in DOMAIN stream'[t].queue
          PROVE  stream'[t].queue[i] = upload[t].blob[Stored(t) + i]
      <4>1. CASE i \in 1 .. Len(stream[t].queue)
        BY <3>3, <3>4, <4>1 DEF StreamInOrder
      <4>2. CASE i = Len(stream[t].queue) + 1
        BY <3>3, <3>6, <4>2
      <4> QED
        BY <3>3, <4>1, <4>2
    <3> QED
      BY <2>3, <3>4, <3>5, <3>7 DEF StreamInOrder
  <2>6. ASSUME Fails(t), Whole(t)'
        PROVE  FALSE
    BY <2>6 DEF Fails, Whole, Broken
  <2>7. ASSUME Seals(t)
        PROVE  StreamInOrder(t)'
    <3>1. upload'[t] = upload[t] /\ stream'[t].queue = stream[t].queue /\ StreamInOrder(t)
      BY <2>7 DEF Seals, StreamsInOrder, Whole
    <3> QED
      BY <2>3, <3>1 DEF StreamInOrder, Stored
  <2>8. ASSUME Advances(t), Whole(t)'
        PROVE  StreamInOrder(t)'
    <3>1. upload'[t].sent = upload[t].sent /\ stream'[t] = stream[t] /\ StreamInOrder(t)
      BY <2>8 DEF Advances, StreamsInOrder, Whole
    <3> QED
      BY <2>3, <3>1 DEF StreamInOrder, Stored
  <2>9. Whole(t)' => StreamInOrder(t)'
    BY <2>1, <2>4, <2>5, <2>6, <2>7, <2>8 DEF UploadStep
  <2> QED
    BY <2>2, <2>9 DEF StreamsInOrder
<1>8. ASSUME NEW t \in Take, StoreChunk(t)
      PROVE  StreamsInOrder'
  <2> DEFINE id == upload[t].id
             k == Stored(t)
             blob == upload[t].blob
  <2>1. WritesNext(t)
    BY <1>8, StoresNext
  <2>2. /\ id \in Take /\ Started(t) /\ upload' = upload /\ k \in Nat /\ k < upload[t].sent
        /\ OthersKeep(files, files', id) /\ OthersKeep(stream, stream', t)
        /\ stream[t].state = "open"
    BY <2>1 DEF WritesNext
  <2>3. StreamInOrder(t)
    BY <2>2 DEF StreamsInOrder, Whole
  <2>4. k < Len(blob) /\ k + 1 \in DOMAIN blob /\ blob[k + 1] \in Chunks
    <3>1. k < Len(blob)
      BY <1>0, <2>2, LenProperties
    <3> QED
      BY <1>0, <2>2, <3>1, ElementOfSeq, LenProperties
  <2>5. ASSUME Whole(t)'
        PROVE  StreamInOrder(t)'
    <3>1. /\ Stored(t)' = k + 1
          /\ \A i \in DOMAIN stream'[t].queue : stream'[t].queue[i] = blob[k + 1 + i]
          /\ Contents(files'[id]) = Contents(files[id]) \o <<blob[k + 1]>>
      BY <2>1, <2>5 DEF WritesNext, Whole
    <3>2. FirstInOrder(blob, k + 1, Contents(files[id]) \o <<blob[k + 1]>>)
      BY <1>0, <2>2, <2>3, <2>4, AppendNext DEF StreamInOrder, ChunksOnce
    <3> QED
      BY <2>2, <3>1, <3>2 DEF StreamInOrder
  <2>6. ASSUME NEW s \in Take, s # t, Whole(s)'
        PROVE  StreamInOrder(s)'
    <3>1. stream'[s] = stream[s] /\ upload'[s] = upload[s] /\ Whole(s)
      BY <2>2, <2>6 DEF OthersKeep, Whole
    <3>2. StreamInOrder(s) /\ Stored(s)' = Stored(s)
      BY <3>1 DEF StreamsInOrder, Stored
    <3>3. CASE files'[upload[s].id] = files[upload[s].id]
      BY <3>1, <3>2, <3>3 DEF StreamInOrder
    <3>4. ASSUME upload[s].id = id, NEW chunks \in Seq(Chunks), Apart(chunks, upload[s].blob),
                 Contents(files'[id]) = Contents(files[id]) \o chunks
          PROVE  StreamInOrder(s)'
      <4>1. FirstInOrder(upload[s].blob, Stored(s), Contents(files[id]) \o chunks)
        BY <1>0, <2>2, <3>2, <3>4, AppendOther DEF StreamInOrder
      <4> QED
        BY <3>1, <3>2, <3>4, <4>1 DEF StreamInOrder
    <3>5. CASE upload[s].id = id
      <4>1. CASE stream'[t].state = "open" /\ Contents(files'[id]) = Contents(files[id]) \o <<blob[k + 1]>>
        <5>1. Apart(blob, upload[s].blob)
          BY <2>6 DEF ChunksOnce
        <5>2. Apart(<<blob[k + 1]>>, upload[s].blob) /\ <<blob[k + 1]>> \in Seq(Chunks)
          BY <2>4, <5>1 DEF Apart
        <5> QED
          BY <3>4, <3>5, <4>1, <5>2
      <4>2. ASSUME NEW chunks \in Seq(Chunks), \A i \in DOMAIN chunks : chunks[i][2] = 0,
                   Contents(files'[id]) = Contents(files[id]) \o chunks
            PROVE  StreamInOrder(s)'
        <5>1. Apart(chunks, upload[s].blob)
          BY <4>2 DEF Apart, ChunksOnce, Delivered
        <5> QED
          BY <3>4, <3>5, <4>2, <5>1
      <4>3. CASE files' = files
        BY <3>3, <4>3
      <4> QED
        BY <2>1, <4>1, <4>2, <4>3 DEF WritesNext
    <3>6. CASE upload[s].id # id
      <4>1. upload[s].id \in Take
        <5>1. Started(s)
          BY <3>1 DEF Whole, StagesAgree, StageAgrees, NoStream, Started
        <5> QED
          BY <5>1, TypeParts, RecordingAssumption DEF TakesAreNumbered, Take
      <4> QED
        BY <2>2, <3>3, <3>6, <4>1 DEF OthersKeep
    <3> QED
      BY <3>5, <3>6
  <2> QED
    BY <2>5, <2>6 DEF StreamsInOrder
<1> QED
  BY <1>3, <1>4, <1>5, <1>6, <1>7, <1>8, StepKinds
-----------------------------------------------------------------------------
(***************************************************************************)
(* Takes that were not rushed keep apart.                                  *)
(***************************************************************************)
LEMMA PageKept ==
  ASSUME TypeOK, TakesAreNumbered, StagesAgree, PageIsItsOwn, Next
  PROVE  PageIsItsOwn'
<1>0. /\ page.id \in Take \cup {NoTake} /\ NoTake \notin Take
      /\ recorder \in [Take -> Recorders] /\ clicks \in Nat
  BY TypeParts, Constants, RecordingAssumption DEF Pages
<1>1. CASE StartClick
  <2>1. /\ clicks' = clicks + 1 /\ page'.id = clicks' /\ page'.buffer = <<>>
        /\ \/ page'.current = clicks' /\ recorder'[clicks'] = "running"
           \/ ~ page'.recording /\ recorder' = recorder
        /\ OthersKeep(recorder, recorder', clicks')
        /\ rushed' = IF Ending = {} THEN rushed ELSE rushed \cup {clicks'}
        /\ clicks' \in Take
    BY <1>1, StartSteps
  <2>2. recorder[clicks'] = "none"
    BY <1>0, <2>1 DEF TakesAreNumbered
  <2>3. recorder'[clicks'] \in {"none", "running"}
    BY <2>1, <2>2
  <2>4. clicks' \notin rushed' => Ending' = {}
    BY <2>1, <2>3 DEF Ending, OthersKeep
  <2> QED
    BY <2>1, <2>3, <2>4 DEF PageIsItsOwn
<1>2. CASE StopClick
  <2>1. /\ page'.id = page.id /\ page'.buffer = page.buffer /\ page.recording /\ ~ page'.recording
        /\ footage' = footage /\ rushed' = rushed
        /\ \/ recorder' = recorder
           \/ /\ page.current \in Take /\ recorder[page.current] = "running"
              /\ recorder'[page.current] = "stopping"
              /\ OthersKeep(recorder, recorder', page.current)
    BY <1>2, StopSteps
  <2>2. CASE recorder' = recorder
    BY <2>1, <2>2 DEF PageIsItsOwn, Ending, Reel
  <2>3. CASE /\ page.current \in Take /\ recorder[page.current] = "running"
             /\ recorder'[page.current] = "stopping"
             /\ OthersKeep(recorder, recorder', page.current)
    <3>1. page.current = page.id
      BY <1>0, <2>1, <2>3 DEF PageIsItsOwn
    <3>2. Ending' \subseteq Ending \cup {page.id}
      BY <2>3, <3>1 DEF Ending, OthersKeep
    <3> QED
      BY <2>1, <2>3, <3>1, <3>2 DEF PageIsItsOwn
  <2> QED
    BY <2>1, <2>2, <2>3
<1>3. ASSUME NEW t \in Take, OnData(t)
      PROVE  PageIsItsOwn'
  <2>1. /\ recorder[t] = "stopping" /\ recorder'[t] = "flushed"
        /\ OthersKeep(recorder, recorder', t) /\ footage'[t] \in 0 .. MaxLength
        /\ page'.buffer = page.buffer \o FirstChunks(t, footage'[t])
        /\ page'.id = page.id /\ page'.current = page.current
        /\ page'.recording = page.recording /\ rushed' = rushed
    BY <1>3, DataSteps
  <2>2. t \in Ending /\ Ending' = Ending
    BY <2>1 DEF Ending, OthersKeep
  <2>3. ASSUME page.id \in Take \ rushed
        PROVE  page'.buffer = Reel(t)' /\ t = page.id
    <3>1. t = page.id
      BY <2>2, <2>3 DEF PageIsItsOwn
    <3>2. page.buffer = <<>>
      BY <2>1, <2>3, <3>1 DEF PageIsItsOwn
    <3>3. Reel(t)' = FirstChunks(t, footage'[t])
      BY DEF Reel, FirstChunks
    <3>4. <<>> \o FirstChunks(t, footage'[t]) = FirstChunks(t, footage'[t])
      BY <2>1, ReelsAreChunks, ConcatEmptySeq
    <3> QED
      BY <2>1, <3>1, <3>2, <3>3, <3>4
  <2> QED
    BY <2>1, <2>2, <2>3 DEF PageIsItsOwn
<1>4. ASSUME NEW t \in Take, OnStop(t)
      PROVE  PageIsItsOwn'
  <2>1. /\ recorder[t] = "flushed" /\ recorder'[t] = "over" /\ OthersKeep(recorder, recorder', t)
        /\ page'.id = page.id /\ page'.recording = page.recording
        /\ page'.current \in {page.current, NoTake} /\ page'.buffer = <<>>
        /\ rushed' = rushed /\ footage' = footage
    BY <1>4, EndSteps
  <2>2. Ending' \subseteq Ending /\ t \in Ending
    BY <2>1 DEF Ending, OthersKeep
  <2>3. page.id \in Take \ rushed => t = page.id
    BY <2>2 DEF PageIsItsOwn
  <2> QED
    BY <2>1, <2>2, <2>3 DEF PageIsItsOwn
<1>5. CASE /\ page'.id = page.id /\ page'.buffer = page.buffer
           /\ page'.current = page.current /\ page'.recording = page.recording
           /\ recorder' = recorder /\ footage' = footage /\ rushed' = rushed
  BY <1>5 DEF PageIsItsOwn, Ending, Reel
<1>6. CASE LeavePage \/ StorageRestarts
  BY <1>5, <1>6, LeaveSteps, RestartSteps DEF browser
<1>7. ASSUME NEW t \in Take, OnResponse(t) \/ ProxyStep(t) \/ GivesUp(t) \/ SealStream(t)
      PROVE  PageIsItsOwn'
  BY <1>5, <1>7, UploadSteps DEF UploadStep, browser
<1>8. ASSUME NEW t \in Take, StoreChunk(t)
      PROVE  PageIsItsOwn'
  BY <1>5, <1>8 DEF StoreChunk, browser
<1> QED
  BY <1>1, <1>2, <1>3, <1>4, <1>6, <1>7, <1>8, StepKinds

\* What was rushed stays so, and no take becomes it after its click.
LEMMA RushedLater ==
  ASSUME TypeOK, Next
  PROVE  /\ rushed \subseteq rushed'
         /\ \A id \in 1 .. clicks : id \in rushed' => id \in rushed
<1>1. CASE StartClick
  BY <1>1, StartSteps
<1>2. CASE rushed' = rushed
  BY <1>2
<1>3. CASE StopClick \/ LeavePage \/ StorageRestarts
  BY <1>2, <1>3, StopSteps, LeaveSteps, RestartSteps DEF browser
<1>4. ASSUME NEW t \in Take, OnData(t) \/ OnStop(t) \/ StoreChunk(t)
      PROVE  rushed' = rushed
  BY <1>4, DataSteps, EndSteps DEF StoreChunk, browser
<1>5. ASSUME NEW t \in Take, OnResponse(t) \/ ProxyStep(t) \/ GivesUp(t) \/ SealStream(t)
      PROVE  rushed' = rushed
  BY <1>5, UploadSteps DEF UploadStep, browser
<1> QED
  BY <1>1, <1>2, <1>3, <1>4, <1>5, StepKinds

LEMMA UploadsKept ==
  ASSUME TypeOK, TakesAreNumbered, StagesAgree, PageIsItsOwn, Next, NEW s \in Take, UploadIsItsOwn(s)
  PROVE  UploadIsItsOwn(s)'
<1>1. ASSUME Started(s), upload'[s].id = upload[s].id, upload'[s].blob = upload[s].blob,
             footage'[s] = footage[s]
      PROVE  UploadIsItsOwn(s)'
  <2>1. upload[s].id \in rushed => upload[s].id \in rushed'
    BY RushedLater
  <2>2. Reel(s)' = Reel(s)
    BY <1>1 DEF Reel
  <2> QED
    BY <1>1, <2>1, <2>2 DEF UploadIsItsOwn
<1>2. CASE upload' = upload /\ footage' = footage
  BY <1>1, <1>2 DEF UploadIsItsOwn, Started
<1>3. CASE StartClick \/ StopClick \/ LeavePage \/ StorageRestarts
  BY <1>2, <1>3, StartSteps, StopSteps, LeaveSteps, RestartSteps DEF browser
<1>4. ASSUME NEW t \in Take, OnData(t)
      PROVE  UploadIsItsOwn(s)'
  <2>1. /\ recorder[t] = "stopping" /\ OthersKeep(footage, footage', t) /\ upload' = upload
    BY <1>4, DataSteps
  <2>2. Started(s) => s # t
    BY <2>1 DEF StagesAgree, StageAgrees
  <2>3. Started(s)' <=> Started(s)
    BY <2>1 DEF Started
  <2> QED
    BY <1>1, <2>1, <2>2, <2>3 DEF OthersKeep, UploadIsItsOwn
<1>5. ASSUME NEW t \in Take, OnStop(t)
      PROVE  UploadIsItsOwn(s)'
  <2>1. /\ recorder[t] = "flushed" /\ OthersKeep(upload, upload', t)
        /\ footage' = footage /\ rushed' = rushed
        /\ \/ upload' = upload
           \/ page.buffer # <<>> /\ upload'[t] = Request(page.id, page.buffer)
    BY <1>5, EndSteps
  <2>2. CASE upload' = upload \/ s # t
    BY <1>1, <2>1, <2>2 DEF OthersKeep, UploadIsItsOwn, Started
  <2>3. CASE s = t /\ page.buffer # <<>> /\ upload'[t] = Request(page.id, page.buffer)
    <3>1. upload'[s].id = page.id /\ upload'[s].blob = page.buffer
      BY <2>3 DEF Request
    <3>2. page.id \in Take
      BY <2>1, TypeParts DEF TakesAreNumbered, Pages
    <3>3. ASSUME page.id \notin rushed
          PROVE  s = page.id /\ page.buffer = Reel(s)
      <4>1. s \in Ending
        BY <2>1, <2>3 DEF Ending
      <4>2. s = page.id
        BY <3>2, <3>3, <4>1 DEF PageIsItsOwn
      <4> QED
        BY <2>1, <2>3, <3>2, <3>3, <4>2 DEF PageIsItsOwn
    <3>4. Reel(s)' = Reel(s)
      BY <2>1 DEF Reel
    <3> QED
      BY <2>1, <2>3, <3>1, <3>3, <3>4 DEF UploadIsItsOwn
  <2> QED
    BY <2>1, <2>2, <2>3
<1>6. ASSUME NEW t \in Take, OnResponse(t) \/ ProxyStep(t) \/ GivesUp(t) \/ SealStream(t)
      PROVE  UploadIsItsOwn(s)'
  <2>1. UploadStep(t)
    BY <1>6, UploadSteps
  <2>2. Started(s)' => Started(s)
    BY <2>1 DEF UploadStep, Opens, Sends, Fails, Seals, Advances, Started
  <2> QED
    BY <1>1, <2>1, <2>2 DEF UploadStep, UploadIsItsOwn, browser
<1>7. ASSUME NEW t \in Take, StoreChunk(t)
      PROVE  UploadIsItsOwn(s)'
  BY <1>2, <1>7 DEF StoreChunk, browser
<1> QED
  BY <1>3, <1>4, <1>5, <1>6, <1>7, StepKinds

LEMMA OwnFilesKept ==
  ASSUME TypeOK, TakesAreNumbered, StagesAgree, StreamsInOrder, TakesApart, Next, NEW s \in Take
  PROVE  FileIsItsOwn(s)'
<1>0. /\ \A t \in Take : /\ upload[t].blob \in Seq(Chunks) /\ upload[t].sent \in Nat
                         /\ stream[t].queue \in Seq(Chunks)
                         /\ upload[t].sent <= Len(upload[t].blob)
      /\ \A id \in Take : Contents(files[id]) \in Seq(Chunks)
  <2>1. \A id \in Take : Contents(files[id]) \in Seq(Chunks)
    BY TypeParts, FilesAreSequences, Constants
  <2> QED
    BY <2>1, TypeParts, RecordingAssumption DEF Uploads, Streams
<1>1. s \in rushed => s \in rushed'
  BY RushedLater
<1>2. ASSUME s \notin rushed, upload'[s].id = upload[s].id, upload'[s].blob = upload[s].blob,
             Whole(s)' => Stored(s)' = Stored(s), Whole(s)' => Whole(s),
             stream'[s].state = "idle" => stream[s].state = "idle", files' = files
      PROVE  FileIsItsOwn(s)'
  BY <1>2 DEF TakesApart, FileIsItsOwn
<1>3. CASE upload' = upload /\ stream' = stream /\ files' = files
  BY <1>1, <1>2, <1>3 DEF FileIsItsOwn, Whole, Stored
<1>4. CASE StartClick \/ StopClick \/ LeavePage
  BY <1>3, <1>4, StartSteps, StopSteps, LeaveSteps DEF storage
<1>5. ASSUME NEW t \in Take, OnData(t)
      PROVE  FileIsItsOwn(s)'
  BY <1>3, <1>5, DataSteps DEF storage
<1>6. CASE StorageRestarts
  <2>1. /\ Whole(s)' => Whole(s) /\ stream'[s] = stream[s]
        /\ stream'[s].state = "idle" => stream[s].state = "idle"
        /\ upload' = upload /\ files' = files
    BY <1>6, RestartSteps DEF Whole, Broken
  <2> QED
    BY <1>1, <1>2, <2>1 DEF FileIsItsOwn, Stored
<1>7. ASSUME NEW t \in Take, OnStop(t)
      PROVE  FileIsItsOwn(s)'
  <2>1. stream' = stream /\ files' = files /\ OthersKeep(upload, upload', t) /\ ~ Whole(t)
    BY <1>7, EndSteps, FreshUpload DEF storage, Whole, NoStream
  <2>2. CASE s # t
    BY <1>1, <1>2, <2>1, <2>2 DEF FileIsItsOwn, OthersKeep, Stored, Whole
  <2>3. CASE s = t
    BY <1>1, <2>1, <2>3 DEF FileIsItsOwn, Whole, TakesApart
  <2> QED
    BY <2>2, <2>3
<1>8. ASSUME NEW t \in Take, OnResponse(t) \/ ProxyStep(t) \/ GivesUp(t) \/ SealStream(t)
      PROVE  FileIsItsOwn(s)'
  <2>1. UploadStep(t)
    BY <1>8, UploadSteps
  <2>2. CASE s # t
    BY <1>1, <1>2, <2>1, <2>2 DEF UploadStep, FileIsItsOwn, Whole, Stored, storage
  <2>3. CASE s = t
    <3> SUFFICES ASSUME s \notin rushed
                 PROVE  FileIsItsOwn(s)'
      BY <1>1 DEF FileIsItsOwn
    <3>1. /\ files' = files /\ upload'[s].id = upload[s].id /\ upload'[s].blob = upload[s].blob
      BY <2>1 DEF UploadStep, storage
    <3>2. CASE Opens(s)
      <4>1. stream[s] = NoStream /\ upload[s].sent = 0 /\ files[s] = NoFile
        BY <3>2 DEF Opens, StagesAgree, StageAgrees, TakesApart, FileIsItsOwn, NoStream
      <4>2. stream'[s].state = "open" /\ stream'[s].queue = <<>> /\ upload'[s].sent = 0
        BY <3>2, <4>1 DEF Opens, NoStream
      <4>3. Stored(s)' = 0
        <5>1. Len(stream'[s].queue) = 0
          BY <4>2
        <5>2. Stored(s)' = upload'[s].sent - Len(stream'[s].queue)
          BY DEF Stored
        <5>3. Stored(s)' = 0 - 0
          BY <4>2, <5>1, <5>2, Zenon
        <5> QED
          BY <5>3
      <4>4. OnlyFirst(upload[s].blob, 0, <<>>)
        BY DEF OnlyFirst
      <4> QED
        BY <3>1, <4>1, <4>2, <4>3, <4>4 DEF FileIsItsOwn, Contents
    <3>3. CASE Sends(s)
      <4>1. CASE stream[s].state = "open"
        <5>1. upload'[s].sent = upload[s].sent + 1
          BY <3>3 DEF Sends
        <5>2. stream'[s].queue = Append(stream[s].queue, upload[s].blob[upload[s].sent + 1])
          BY <3>3, <4>1 DEF Sends
        <5>3. upload[s].blob[upload[s].sent + 1] \in Chunks
          BY <1>0, <3>3, ElementOfSeq, LenProperties DEF Sends
        <5>4. Len(stream'[s].queue) = Len(stream[s].queue) + 1 /\ Len(stream[s].queue) \in Nat
          BY <1>0, <5>2, <5>3, AppendProperties, LenProperties
        <5>5. Stored(s)' = (upload[s].sent + 1) - (Len(stream[s].queue) + 1)
          BY <5>1, <5>4 DEF Stored
        <5>6. Stored(s)' = Stored(s)
          <6>1. upload[s].sent \in Nat
            BY <1>0
          <6>2. \A a, b \in Nat : (a + 1) - (b + 1) = a - b
            OBVIOUS
          <6> QED
            BY <5>4, <5>5, <6>1, <6>2 DEF Stored
        <5>7. stream'[s].state = "open"
          BY <3>3, <4>1 DEF Sends
        <5> QED
          BY <1>2, <3>1, <4>1, <5>6, <5>7 DEF Whole
      <4>2. CASE stream[s].state # "open"
        <5>1. stream'[s] = stream[s] /\ stream[s].state # "answered"
          BY <3>3, <4>2 DEF Sends, StagesAgree, StageAgrees
        <5> QED
          BY <1>2, <3>1, <4>2, <5>1 DEF Whole
      <4> QED
        BY <4>1, <4>2
    <3>4. CASE Fails(s)
      BY <1>2, <3>1, <3>4 DEF Fails, Whole, Broken
    <3>5. CASE Seals(s)
      BY <1>2, <3>1, <3>5 DEF Seals, Whole, Stored
    <3>6. CASE Advances(s)
      BY <1>2, <3>1, <3>6 DEF Advances, Whole, Stored
    <3> QED
      BY <2>1, <2>3, <3>2, <3>3, <3>4, <3>5, <3>6 DEF UploadStep
  <2> QED
    BY <2>2, <2>3
<1>9. ASSUME NEW t \in Take, StoreChunk(t)
      PROVE  FileIsItsOwn(s)'
  <2> SUFFICES ASSUME s \notin rushed
               PROVE  FileIsItsOwn(s)'
    BY <1>1 DEF FileIsItsOwn
  <2> DEFINE id == upload[t].id
             k == Stored(t)
  <2>1. WritesNext(t)
    BY <1>9, StoresNext
  <2>2. /\ id \in Take /\ Started(t) /\ upload' = upload /\ k \in Nat /\ k < upload[t].sent
        /\ OthersKeep(files, files', id) /\ OthersKeep(stream, stream', t)
        /\ stream[t].state = "open"
    BY <2>1 DEF WritesNext
  <2>3. id = s => t = s
    BY <2>2 DEF TakesApart, UploadIsItsOwn
  <2>4. CASE id # s /\ t # s
    BY <2>2, <2>4 DEF OthersKeep, FileIsItsOwn, TakesApart, Whole, Stored
  <2>5. CASE id # s /\ t = s
    <3>1. stream'[s].state # "idle"
      BY <2>1, <2>5 DEF WritesNext
    <3> QED
      BY <2>2, <2>5, <3>1 DEF FileIsItsOwn
  <2>6. CASE id = s
    <3>1. t = s /\ OnlyFirst(upload[s].blob, k, Contents(files[s]))
      BY <2>2, <2>3, <2>6 DEF TakesApart, FileIsItsOwn, Whole
    <3>2. stream'[s].state # "idle"
      BY <2>1, <3>1 DEF WritesNext
    <3>3. CASE stream'[s].state = "open"
      <4>1. Stored(s)' = k + 1 /\ Contents(files'[s]) = Contents(files[s]) \o <<upload[s].blob[k + 1]>>
        BY <2>1, <2>6, <3>1, <3>3 DEF WritesNext
      <4>2. k < Len(upload[s].blob)
        BY <1>0, <2>2, <3>1, LenProperties
      <4>3. OnlyFirst(upload[s].blob, k + 1, Contents(files[s]) \o <<upload[s].blob[k + 1]>>)
        BY <1>0, <2>2, <3>1, <4>2, AppendOnly
      <4> QED
        BY <2>2, <3>2, <4>1, <4>3 DEF FileIsItsOwn
    <3>4. CASE stream'[s].state = "broken"
      BY <3>4 DEF FileIsItsOwn, Whole
    <3> QED
      BY <2>1, <3>1, <3>3, <3>4 DEF WritesNext
  <2> QED
    BY <2>3, <2>4, <2>5, <2>6
<1> QED
  BY <1>4, <1>5, <1>6, <1>7, <1>8, <1>9, StepKinds
-----------------------------------------------------------------------------
LEMMA InitRecording == Init => RecordingInv
<1> SUFFICES ASSUME Init
             PROVE  RecordingInv
  OBVIOUS
<1>1. /\ \A t \in Take : /\ upload[t] = NoUpload /\ stream[t] = NoStream /\ files[t] = NoFile
                         /\ recorder[t] = "none"
      /\ page.id = NoTake /\ page.buffer = <<>> /\ ~ page.recording
  BY DEF Init
<1>2. TakesAreNumbered /\ StagesAgree
  BY RecordingAssumption
     DEF Init, TakesAreNumbered, StagesAgree, StageAgrees, Started, NoUpload, NoStream
<1>3. ChunksOnce
  BY <1>1 DEF ChunksOnce, Distinct, Delivered, Apart, NoUpload
<1>4. FilesWereSent
  BY <1>1 DEF FilesWereSent, Contents
<1>5. StreamsInOrder
  BY <1>1 DEF StreamsInOrder, Whole, NoStream
<1>6. TakesApart
  BY <1>1, Constants
     DEF TakesApart, PageIsItsOwn, UploadIsItsOwn, FileIsItsOwn, Whole, Started, NoUpload, NoStream
<1> QED
  BY <1>2, <1>3, <1>4, <1>5, <1>6, InitTypeOK DEF RecordingInv

LEMMA RecordingKept ==
  ASSUME RecordingInv, [Next]_vars
  PROVE  RecordingInv'
<1>1. CASE Next
  <2>1. TypeOK'
    BY <1>1, StepKinds, PageStepTyped, UploadStepTyped, StorageStepTyped DEF RecordingInv
  <2>2. TakesAreNumbered' /\ StagesAgree' /\ ChunksOnce'
    BY <1>1, NumbersKept, StagesKept, ChunksKept DEF RecordingInv
  <2>3. FilesWereSent' /\ StreamsInOrder'
    BY <1>1, <2>1, FilesKept, StreamsKept DEF RecordingInv
  <2>4. TakesApart'
    BY <1>1, PageKept, UploadsKept, OwnFilesKept DEF RecordingInv, TakesApart
  <2> QED
    BY <2>1, <2>2, <2>3, <2>4 DEF RecordingInv
<1>2. CASE UNCHANGED vars
  <2>1. UNCHANGED <<page, clicks, recorder, footage, rushed, upload, stream, files, videoFiles, restarts>>
    BY <1>2 DEF vars, browser, storage
  <2>2. TypeOK' /\ TakesAreNumbered' /\ StagesAgree'
    BY <2>1, TypeParts, TypePartsNext
       DEF RecordingInv, TakesAreNumbered, StagesAgree, StageAgrees, Started, NoUpload, NoStream
  <2>3. ChunksOnce' /\ FilesWereSent' /\ StreamsInOrder'
    BY <2>1 DEF RecordingInv, ChunksOnce, FilesWereSent, Sent, StreamsInOrder, StreamInOrder, Whole, Stored
  <2>4. TakesApart'
    BY <2>1 DEF RecordingInv, TakesApart, PageIsItsOwn, UploadIsItsOwn, FileIsItsOwn, Ending, Reel,
                Whole, Stored, Started
  <2> QED
    BY <2>2, <2>3, <2>4 DEF RecordingInv
<1> QED
  BY <1>1, <1>2

\* The inductive invariant: what the recorder, the requests, the streams and
\* the files of mod_recorder.js, proxy.go and media_writer.go owe each other.
THEOREM RecordingInvariant == Spec => []RecordingInv
BY InitRecording, RecordingKept, PTL DEF Spec

\* Everything keeps its type, and no upload sends more than its body.
THEOREM RecordingTyped == Spec => []TypeOK
<1>1. RecordingInv => TypeOK
  BY DEF RecordingInv
<1> QED
  BY <1>1, RecordingInvariant, PTL

\* Of an upload that was answered everything is in its file.
LEMMA AnsweredIsStored ==
  ASSUME RecordingInv, NEW t \in Take, upload[t].phase \in {"stored", "linked", "unlinked"}
  PROVE  /\ Whole(t) /\ Stored(t) = Len(upload[t].blob) /\ upload[t].id \in Take /\ Started(t)
         /\ upload[t].blob \in Seq(Chunks) /\ Contents(files[upload[t].id]) \in Seq(Chunks)
<1>1. /\ stream[t].state = "answered" /\ stream[t].queue = <<>>
      /\ upload[t].sent = Len(upload[t].blob) /\ Started(t)
  BY DEF RecordingInv, StagesAgree, StageAgrees, Started
<1>2. upload[t].id \in Take
  BY <1>1, TypeParts, RecordingAssumption DEF RecordingInv, TakesAreNumbered, Take
<1>3. upload[t].blob \in Seq(Chunks) /\ upload[t].sent \in Nat
  BY TypeParts, RecordingAssumption DEF RecordingInv, Uploads
<1>4. Contents(files[upload[t].id]) \in Seq(Chunks)
  BY <1>2, TypeParts, FilesAreSequences, Constants DEF RecordingInv
<1>5. Stored(t) = Len(upload[t].blob)
  <2>1. Len(stream[t].queue) = 0
    BY <1>1
  <2>2. Stored(t) = upload[t].sent - 0
    BY <2>1 DEF Stored
  <2> QED
    BY <1>1, <1>3, <2>2
<1> QED
  BY <1>1, <1>2, <1>3, <1>4, <1>5 DEF Whole

\* What the proxy answers with 200 (HandleUploadRecord after CloseAndRecv) is
\* in the file whole and in order, however often spr-storage was restarted,
\* whatever else was written to that file and whatever went wrong before.
THEOREM AnsweredUploadsAreWhole == Spec => []UploadsAreWhole
<1>1. RecordingInv => UploadsAreWhole
  <2> SUFFICES ASSUME RecordingInv, NEW t \in Take, upload[t].phase \in {"stored", "linked", "unlinked"}
               PROVE  InOrder(upload[t].blob, Contents(files[upload[t].id]))
    BY DEF UploadsAreWhole, Served
  <2>1. /\ Whole(t) /\ Stored(t) = Len(upload[t].blob) /\ upload[t].blob \in Seq(Chunks)
    BY AnsweredIsStored
  <2>2. FirstInOrder(upload[t].blob, Len(upload[t].blob), Contents(files[upload[t].id]))
    BY <2>1 DEF RecordingInv, StreamsInOrder, StreamInOrder
  <2>3. \A i \in DOMAIN upload[t].blob : i <= Len(upload[t].blob)
    BY <2>1, LenProperties
  <2> QED
    BY <2>2, <2>3 DEF FirstInOrder, InOrder
<1> QED
  BY <1>1, RecordingInvariant, PTL

\* A link that the page posts (mod_recorder.js, after response.ok) leads to
\* all of its take and to nothing else, unless the take was started while the
\* one before it was still being handed over.
THEOREM LinksLead == Spec => []LinksLeadToTakes
<1>1. RecordingInv => LinksLeadToTakes
  <2> SUFFICES ASSUME RecordingInv, NEW t \in Links \ rushed
               PROVE  files[t] = Reel(t)
    BY DEF LinksLeadToTakes, Served
  <2>1. PICK x \in Take : upload[x].phase = "linked" /\ upload[x].id = t
    BY DEF Links
  <2>2. /\ Whole(x) /\ Stored(x) = Len(upload[x].blob) /\ upload[x].id \in Take /\ Started(x)
        /\ upload[x].blob \in Seq(Chunks) /\ Contents(files[upload[x].id]) \in Seq(Chunks)
    BY <2>1, AnsweredIsStored
  <2>3. x = t /\ upload[t].blob = Reel(t) /\ upload[t].blob # <<>>
    BY <2>1, <2>2 DEF RecordingInv, TakesApart, UploadIsItsOwn
  <2>4. OnlyFirst(upload[t].blob, Len(upload[t].blob), Contents(files[t]))
    BY <2>1, <2>2, <2>3 DEF RecordingInv, TakesApart, FileIsItsOwn
  <2>5. Contents(files[t]) = upload[t].blob
    BY <2>1, <2>2, <2>3, <2>4, SeqEqual DEF OnlyFirst
  <2> QED
    BY <2>3, <2>5 DEF Contents
<1> QED
  BY <1>1, RecordingInvariant, PTL

\* Once its link is out, no step changes such a file: no late frame of its
\* stream, no other upload and no restart.
THEOREM LinkedFilesStay == Spec => LinkedFilesAreFinal
<1>1. RecordingInv /\ [Next]_vars => [\A t \in Links \ rushed : Served(t)' = Served(t)]_vars
  <2> SUFFICES ASSUME RecordingInv, Next, NEW t \in Links \ rushed
               PROVE  files'[t] = files[t]
    BY DEF Served
  <2>1. PICK x \in Take : upload[x].phase = "linked" /\ upload[x].id = t
    BY DEF Links
  <2>2. upload[x].id \in Take /\ Started(x) /\ stream[x].state = "answered"
    BY <2>1, AnsweredIsStored DEF RecordingInv, StagesAgree, StageAgrees
  <2>3. ASSUME NEW s \in Take, StoreChunk(s)
        PROVE  files'[t] = files[t]
    <3>1. /\ upload[s].id \in Take /\ Started(s) /\ stream[s].state = "open"
          /\ OthersKeep(files, files', upload[s].id)
      BY <2>3, StoresNext DEF RecordingInv, WritesNext
    <3>2. x = t /\ (upload[s].id = t => s = t)
      BY <2>1, <2>2, <3>1 DEF RecordingInv, TakesApart, UploadIsItsOwn
    <3>3. upload[s].id # t
      BY <2>2, <3>1, <3>2
    <3> QED
      BY <2>1, <2>2, <3>1, <3>3 DEF OthersKeep
  <2>4. CASE StartClick \/ StopClick \/ LeavePage \/ StorageRestarts
    BY <2>4, StartSteps, StopSteps, LeaveSteps, RestartSteps DEF storage, RecordingInv
  <2>5. ASSUME NEW s \in Take, OnData(s) \/ OnStop(s)
        PROVE  files' = files
    BY <2>5, DataSteps, EndSteps DEF storage, RecordingInv
  <2>6. ASSUME NEW s \in Take, OnResponse(s) \/ ProxyStep(s) \/ GivesUp(s) \/ SealStream(s)
        PROVE  files' = files
    BY <2>6, UploadSteps DEF UploadStep, storage, RecordingInv
  <2> QED
    BY <2>3, <2>4, <2>5, <2>6, StepKinds
<1> QED
  BY <1>1, RecordingInvariant, PTL DEF Spec, LinkedFilesAreFinal
=============================================================================
