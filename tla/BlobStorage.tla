---------------------------- MODULE BlobStorage ----------------------------
(***************************************************************************)
(* Upload and download of one BLOB: the pipelines of                       *)
(* pkg/processors/blobber on top of pkg/iblobstoragestg.  The upload books *)
(* an ID, writes a state row, the chunks in buckets and the final state    *)
(* row, marks the document as completed and answers.  The download checks  *)
(* the state, then reads bucket after bucket and compares the sizes.       *)
(*                                                                         *)
(* A key is never uploaded twice: persistent BLOBs have new record IDs,    *)
(* temporary ones random SUUIDs.  Any storage call may fail, with or       *)
(* without effect; the process may die anywhere.                           *)
(***************************************************************************)
EXTENDS Naturals, Sequences

CONSTANTS
    ChunkSize,      \* bytes of a chunk
    BucketSize,     \* full chunks of a bucket
    Base,           \* values of a byte
    Quota,          \* bytes WLimiterType lets pass
    MaxBytes        \* bound: bytes of the BLOB

ASSUME BlobConstants ==
    /\ ChunkSize \in Nat \ {0} /\ BucketSize \in Nat \ {0} /\ Base \in Nat \ {0, 1}
    /\ Quota \in Nat /\ MaxBytes \in Nat

VARIABLES
    upload,     \* [at, temp, total, sent, cut, chunks, bucket]
    doc,        \* WDoc<sys.BLOB>: "none", "unknown" or "completed"
    blobState,  \* the state row, or NoState
    chunks,     \* chunk rows in the order they were written
    download    \* [at, exists, size, bucket, rows, bytesRead, out]

blobVars == <<upload, doc, blobState, chunks, download>>

NoState    == [status |-> "none", size |-> 0]
NoDownload == [at |-> "none", exists |-> FALSE, size |-> 0, bucket |-> 0, rows |-> {},
               bytesRead |-> 0, out |-> <<>>]

BlobInit ==
    /\ \E t \in BOOLEAN, n \in 0 .. MaxBytes :
          upload = [at |-> "new", temp |-> t, total |-> n, sent |-> 0, cut |-> FALSE,
                    chunks |-> 0, bucket |-> 1]
    /\ doc = "none" /\ blobState = NoState /\ chunks = <<>> /\ download = NoDownload

Min2(a, b) == IF a < b THEN a ELSE b

-----------------------------------------------------------------------------
(***************************************************************************)
(* The upload.                                                             *)
(***************************************************************************)
GoOn(at) == upload' = [upload EXCEPT !.at = at]

\* UploadBLOBHelper or RegisterTempBLOB1d
RegisterBLOB ==
    /\ upload.at = "new"
    /\ \/ GoOn("state") /\ doc' = IF upload.temp THEN "none" ELSE "unknown"
       \/ GoOn("failed") /\ doc' \in IF upload.temp THEN {"none"} ELSE {"none", "unknown"}
    /\ UNCHANGED <<blobState, chunks, download>>

WriteState ==
    /\ upload.at = "state"
    /\ \/ GoOn("chunks") /\ blobState' = [status |-> "InProcess", size |-> 0]
       \/ GoOn("failed") /\ blobState' \in {NoState, [status |-> "InProcess", size |-> 0]}
    /\ UNCHANGED <<doc, chunks, download>>

\* The bucket of a chunk after which n bytes are read.
NextBucket(b, n) == IF n > ChunkSize * BucketSize * b THEN b + 1 ELSE b

\* A chunk holds the bytes of the body from a position on.
ChunkRow(n) ==
    [bucket |-> NextBucket(upload.bucket, upload.sent + n), number |-> upload.chunks,
     from |-> upload.sent, size |-> n]

\* Mutated form of WriteChunk: the upload goes on after an error of the storage.
WriteChunkErrorIgnored ==
    /\ upload.at = "chunks" /\ ~upload.cut
    /\ \E n \in 1 .. Min2(ChunkSize, upload.total - upload.sent), cut \in BOOLEAN :
          LET sent == upload.sent + n
              row  == ChunkRow(n)
          IN /\ upload' = [upload EXCEPT !.sent = sent, !.cut = cut, !.chunks = @ + 1,
                                         !.bucket = row.bucket,
                                         !.at = IF sent <= Quota THEN @ ELSE "error"]
             /\ chunks' \in IF sent <= Quota THEN {chunks, Append(chunks, row)} ELSE {chunks}
    /\ UNCHANGED <<doc, blobState, download>>

\* The reader gives at most a chunk, often less.  An error that it returns with
\* the bytes (the rest of the body is cut off) is overwritten by the results of
\* the limiter and the inserter; it has no bytes for the next Read.
WriteChunk ==
    /\ upload.at = "chunks" /\ ~upload.cut
    /\ \E n \in 1 .. Min2(ChunkSize, upload.total - upload.sent), cut \in BOOLEAN :
          LET sent == upload.sent + n
              row  == ChunkRow(n)
          IN \/ /\ sent <= Quota
                /\ upload' = [upload EXCEPT !.sent = sent, !.cut = cut, !.chunks = @ + 1,
                                            !.bucket = row.bucket]
                /\ chunks' = Append(chunks, row)
             \/ /\ upload' = [upload EXCEPT !.sent = sent, !.cut = cut, !.at = "error"]
                /\ chunks' \in IF sent <= Quota THEN {chunks, Append(chunks, row)}
                                                ELSE {chunks}
    /\ UNCHANGED <<doc, blobState, download>>

\* io.EOF without bytes: the body ends, or a body that was cut off answers the
\* next Read so, as that of net/http does when its length was announced.
EndOfBody ==
    /\ upload.at = "chunks" /\ (upload.sent = upload.total \/ upload.cut)
    /\ GoOn("eof")
    /\ UNCHANGED <<doc, blobState, chunks, download>>

\* The reader fails or the request is cancelled.
BodyFails ==
    /\ upload.at = "chunks"
    /\ GoOn("error")
    /\ UNCHANGED <<doc, blobState, chunks, download>>

\* Mutated form of FinalState: the status is set before the error is looked at.
FinalStateCompleted ==
    [status |-> "Completed", size |-> upload.sent]

FinalState ==
    [status |-> IF upload.at = "eof" THEN "Completed" ELSE "Unknown", size |-> upload.sent]

\* A temporary BLOB swaps its state row, which may have expired meanwhile.
UpdateState ==
    /\ upload.at \in {"eof", "error"}
    /\ \/ /\ upload.temp => blobState # NoState
          /\ blobState' = FinalState
          /\ GoOn(IF upload.at = "eof" THEN "written" ELSE "failed")
       \/ /\ blobState' \in IF upload.temp /\ blobState = NoState THEN {NoState}
                                                                  ELSE {blobState, FinalState}
          /\ GoOn("failed")
    /\ UNCHANGED <<doc, chunks, download>>

SetBLOBStatusCompleted ==
    /\ upload.at = "written"
    /\ \/ GoOn("replied") /\ doc' = IF upload.temp THEN "none" ELSE "completed"
       \/ ~upload.temp /\ GoOn("failed") /\ doc' \in {"unknown", "completed"}
    /\ UNCHANGED <<blobState, chunks, download>>

Upload ==
    \/ RegisterBLOB \/ WriteState \/ WriteChunk \/ EndOfBody \/ BodyFails
    \/ UpdateState \/ SetBLOBStatusCompleted

-----------------------------------------------------------------------------

Downloadable == blobState.status = "Completed"

QueryAndCheckBLOBState ==
    /\ download.at = "none"
    /\ download' = [NoDownload EXCEPT !.at = CASE blobState = NoState -> "not found"
                                               [] Downloadable -> "checked"
                                               [] OTHER -> "failed"]
    /\ UNCHANGED <<upload, doc, blobState, chunks>>

\* ReadBLOB asks for the state once more; a missing row is not yet the end.
ReadState ==
    /\ download.at = "checked"
    /\ download' = [download EXCEPT
                      !.at = IF blobState.status = "Unknown" THEN "corrupted" ELSE "reading",
                      !.exists = blobState # NoState, !.size = blobState.size]
    /\ UNCHANGED <<upload, doc, blobState, chunks>>

\* What each of the eight bytes of a chunk number counts.
PlaceValues ==
    LET b2 == Base * Base
        b4 == b2 * b2
    IN  {1, Base, b2, b2 * Base, b4, b4 * Base, b4 * b2, b4 * b2 * Base}

\* Chunk numbers are little-endian and rows are sorted by bytes: the lowest place
\* in which two numbers differ decides.
SortsBefore(m, n) ==
    \E p \in PlaceValues : m % p = n % p /\ m % (p * Base) < n % (p * Base)

BucketRows(b) == {chunks[i] : i \in {j \in 1 .. Len(chunks) : chunks[j].bucket = b}}

\* IAppStorage.Read of the next bucket: a snapshot of its rows ...
ReadBucket ==
    LET rows == BucketRows(download.bucket + 1)
    IN /\ download.at = "reading" /\ download.rows = {} /\ rows # {}
       /\ download' = IF download.exists
                      THEN [download EXCEPT !.bucket = @ + 1, !.rows = rows]
                      ELSE [download EXCEPT !.at = "corrupted"]
       /\ UNCHANGED <<upload, doc, blobState, chunks>>

\* ... which the callback writes to the client one by one.
WriteRow ==
    /\ download.at = "reading"
    /\ \E r \in download.rows :
          /\ \A s \in download.rows \ {r} : SortsBefore(r.number, s.number)
          /\ download' = [download EXCEPT !.rows = @ \ {r}, !.bytesRead = @ + r.size,
                                          !.out = Append(@, r)]
    /\ UNCHANGED <<upload, doc, blobState, chunks>>

Verdict ==
    IF ~download.exists /\ download.bytesRead = 0  THEN "not found"
    ELSE IF download.bytesRead # download.size THEN "corrupted"
    ELSE "ok"

EndOfBuckets ==
    /\ download.at = "reading" /\ download.rows = {}
    /\ BucketRows(download.bucket + 1) = {}
    /\ download' = [download EXCEPT !.at = Verdict]
    /\ UNCHANGED <<upload, doc, blobState, chunks>>

DownloadFails ==
    /\ download.at \in {"checked", "reading"}
    /\ download' = [download EXCEPT !.at = "failed"]
    /\ UNCHANGED <<upload, doc, blobState, chunks>>

DownloadAgain ==
    /\ download.at \in {"ok", "not found", "corrupted", "failed"}
    /\ download' = NoDownload
    /\ UNCHANGED <<upload, doc, blobState, chunks>>

Download ==
    \/ QueryAndCheckBLOBState \/ ReadState \/ ReadBucket \/ WriteRow \/ EndOfBuckets
    \/ DownloadFails \/ DownloadAgain

-----------------------------------------------------------------------------
\* Rows of a temporary BLOB expire in the order they were written; the state
\* row was written first, and last when the upload ended.
Expire ==
    /\ upload.temp
    /\ \/ /\ blobState.status = "InProcess" \/ chunks = <<>>
          /\ blobState # NoState
          /\ blobState' = NoState /\ UNCHANGED chunks
       \/ /\ blobState.status # "InProcess" /\ chunks # <<>>
          /\ chunks' = Tail(chunks) /\ UNCHANGED blobState
    /\ UNCHANGED <<upload, doc, download>>

BlobCrash ==
    /\ upload.at \notin {"failed", "replied"}
    /\ GoOn("failed")
    /\ download' = NoDownload
    /\ UNCHANGED <<doc, blobState, chunks>>

BlobNext == Upload \/ Download \/ Expire \/ BlobCrash

BlobSpec == BlobInit /\ [][BlobNext]_blobVars

-----------------------------------------------------------------------------

\* The positions in the body of the bytes of some rows.
BytesOf(rows) == UNION {r.from .. r.from + r.size - 1 : r \in rows}

\* The rows are the first n bytes of the body in their order.
AreFirstBytes(rows, n) ==
    /\ \A i \in 1 .. Len(rows) :
          rows[i].from = IF i = 1 THEN 0 ELSE rows[i - 1].from + rows[i - 1].size
    /\ n = IF rows = <<>> THEN 0 ELSE rows[Len(rows)].from + rows[Len(rows)].size

RowsOf(rows) == {rows[i] : i \in 1 .. Len(rows)}

\* A download that ends without an error has written every byte that the reader of
\* the upload gave, none of them twice, in their order as long as the chunk
\* numbers have one byte: neither a BLOB that is still being uploaded, one whose
\* upload failed or died, nor one whose rows are expiring passes.  The body was
\* read to its end unless it was cut off.
DownloadIsWhole ==
    download.at = "ok" =>
        /\ BytesOf(RowsOf(download.out)) = 0 .. upload.sent - 1
        /\ download.bytesRead = upload.sent
        /\ upload.chunks <= Base => AreFirstBytes(download.out, upload.sent)
        /\ upload.sent = upload.total \/ upload.cut

\* What the client was told to be stored stays readable: the document, the state
\* and all chunks of a persistent BLOB are there, and no download of it is refused
\* as corrupted, in whatever order its rows are read.
RepliedIsReadable ==
    upload.at = "replied" /\ ~upload.temp =>
        /\ doc = "completed"
        /\ blobState = [status |-> "Completed", size |-> upload.sent]
        /\ AreFirstBytes(chunks, upload.sent)
        /\ download.at # "corrupted"

\* What is read is what was written (impl_test.go: the bytes of a BLOB of many
\* chunks are equal): the bytes come in the order of the body.
DownloadKeepsOrder == download.at = "ok" => AreFirstBytes(download.out, upload.sent)

\* A BLOB with status Completed has the size of the body (impl_test.go).
CompletedIsTheBody == blobState.status = "Completed" => blobState.size = upload.total
=============================================================================
