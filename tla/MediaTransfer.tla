---------------------------- MODULE MediaTransfer ----------------------------
(***************************************************************************)
(* Uploading a file and sending it (sendLocalMedia, UploadFile), and       *)
(* downloading one (DownloadFile), part by part, under withFloodWait:      *)
(* every call of a transfer may be answered with FLOOD_WAIT, and then the  *)
(* WHOLE transfer is called again after the wait, with the same reader or  *)
(* writer and whatever has become of it.                                   *)
(*                                                                         *)
(* A byte is named by its offset in the file.  The reader's position and   *)
(* the writer's content belong to the caller; the file is on disk for an   *)
(* upload, at Telegram for a download.  An uploaded file is then sent with *)
(* messages.sendMedia, a request like the others.                          *)
(***************************************************************************)
EXTENDS Requests

CONSTANTS Sizes,          \* sizes of files
          Limits,         \* DownloadOptions.Limit; 0 for none
          PartSizes,      \* PartSize of the options; 0 for the default
          DefaultUploadPartSize, minUploadPartSize, maxUploadPartSize,
          PartStep        \* part sizes are multiples of this

ASSUME MediaAssumption ==
  /\ Sizes \subseteq Nat /\ Limits \subseteq Nat /\ PartSizes \subseteq Int
  /\ PartStep \in Nat \ {0} /\ minUploadPartSize \in Nat \ {0}
  /\ maxUploadPartSize \in Nat /\ minUploadPartSize <= maxUploadPartSize
  /\ DefaultUploadPartSize \in Int

VARIABLES
  size,     \* the size of the file, as Stat or Telegram gives it
  avail,    \* what the reader really yields (a file may be cut meanwhile)
  limit,    \* opts.Limit
  partSize, \* the normalised part size
  pos,      \* the reader's position
  chunk,    \* the chunk just read: its bytes
  stored,   \* the parts Telegram has under the file id of this attempt
  offset,   \* how far this attempt of the download is
  out       \* what the writer has been given

input == <<size, avail, limit, partSize>>
transferVars == <<input, pos, chunk, stored, offset, out>>
callVars == <<requestVars, pc, floods, result, transferVars>>

Clamp(v, lo, hi) == IF v < lo THEN lo ELSE IF v > hi THEN hi ELSE v

\* The last line is for a minimum that is no multiple of the step.
normalizePartSize(v) ==
  LET asked   == Clamp(IF v <= 0 THEN DefaultUploadPartSize ELSE v,
                       minUploadPartSize, maxUploadPartSize)
      rounded == (asked \div PartStep) * PartStep
  IN  IF rounded <= 0 THEN minUploadPartSize ELSE rounded

Init ==
  /\ RequestInit
  /\ op \in RequestOps \cup {"media", "download"}
  /\ IF op \in RequestOps
     THEN pc = "check" /\ size = 0 /\ avail = 0 /\ limit = 0 /\ partSize = 0
     ELSE /\ pc = "call" /\ size \in Sizes
          /\ \E v \in PartSizes : partSize = normalizePartSize(v)
          /\ IF op = "media" THEN avail \in 0..size /\ limit = 0
                             ELSE avail = size /\ limit \in Limits
  /\ pos = 0 /\ chunk = <<>> /\ stored = <<>> /\ offset = 0 /\ out = <<>>
------------------------------------------------------------------------------
\* The bytes from lo up to, not including, hi.
Bytes(lo, hi) == [i \in 1..(hi - lo) |-> lo + i - 1]

AtMost(a, b) == IF a < b THEN a ELSE b

\* The wait ends and the transfer is called again.
WaitCall ==
  /\ pc = "waitCall" /\ Waited("call")
  /\ UNCHANGED <<floods, transferVars>>

\* Without a client, or without the file, nothing is transferred.
CallFails ==
  /\ pc = "call" /\ Fails
  /\ UNCHANGED transferVars
------------------------------------------------------------------------------
(***************************************************************************)
(* Upload.                                                                 *)
(***************************************************************************)
parts == IF size = 0 THEN 1 ELSE (size + partSize - 1) \div partSize

\* UploadFile is called: a fresh file id, and the reader as it is.
UploadCall ==
  /\ pc = "call" /\ op = "media" /\ ready.client
  /\ stored' = <<>> /\ pc' = "read"
  /\ UNCHANGED <<input, pos, chunk, offset, out, floods, result>>

\* Mutant of UploadRead: a short read is taken for a chunk.
UploadReadShort ==
  /\ pc = "read"
  /\ LET want == AtMost(partSize, size - Len(stored) * partSize)
         got  == AtMost(want, avail - pos)
     IN  chunk' = Bytes(pos, pos + got) /\ pos' = pos + got
  /\ pc' = "save"
  /\ UNCHANGED <<input, stored, offset, out, floods, result>>

\* io.ReadFull of the next chunk, which may find the reader short.
UploadRead ==
  /\ pc = "read"
  /\ LET want == AtMost(partSize, size - Len(stored) * partSize)
     IN  IF pos + want <= avail
         THEN /\ chunk' = Bytes(pos, pos + want) /\ pos' = pos + want
              /\ pc' = "save" /\ UNCHANGED result
         ELSE Ends("error") /\ pos' = avail /\ UNCHANGED chunk
  /\ UNCHANGED <<input, stored, offset, out, floods>>

\* upload.saveFilePart: stored, refused or failed, or a FLOOD_WAIT.
UploadSave ==
  /\ pc = "save"
  /\ \/ /\ stored' = Append(stored, chunk)
        /\ pc' = IF Len(stored) + 1 = parts THEN "check" ELSE "read"
        /\ UNCHANGED <<floods, result>>
     \/ Fails /\ UNCHANGED stored
     \/ Flooded("waitCall") /\ UNCHANGED stored
  /\ UNCHANGED <<input, pos, chunk, offset, out>>

------------------------------------------------------------------------------
(***************************************************************************)
(* Download.                                                               *)
(***************************************************************************)
\* DownloadFile is called: from the start of the file.
DownloadCall ==
  /\ pc = "call" /\ op = "download" /\ ready.client
  /\ offset' = 0 /\ pc' = "get"
  /\ UNCHANGED <<input, pos, chunk, stored, out, floods, result>>

\* Mutant of partLimit: opts.Limit only bounds the first part.
partLimitFirst == IF limit > 0 /\ limit < partSize THEN limit ELSE partSize

partLimit ==
  IF limit > 0 /\ limit - offset < partSize THEN limit - offset ELSE partSize

\* External: upload.getFile answers with what the file has at the offset.
Part == Bytes(offset, AtMost(offset + partLimit, size))

\* The loop ends: the limit is reached, or the part is short or empty.
DownloadGet ==
  /\ pc = "get"
  /\ IF partLimit <= 0
     THEN Ends("ok") /\ UNCHANGED <<offset, out, floods>>
     ELSE \/ /\ out' = out \o Part /\ offset' = offset + Len(Part)
             /\ IF Len(Part) < partLimit THEN Ends("ok") ELSE UNCHANGED <<pc, result>>
             /\ UNCHANGED floods
          \/ Fails /\ UNCHANGED <<offset, out>>
          \/ Flooded("waitCall") /\ UNCHANGED <<offset, out>>
  /\ UNCHANGED <<input, pos, chunk, stored>>

\* The writer takes only some of the part.
DownloadShortWrite ==
  /\ pc = "get" /\ partLimit > 0
  /\ \E n \in 0..(Len(Part) - 1) :
       /\ out' = out \o SubSeq(Part, 1, n)
       /\ offset' = offset + n
  /\ Fails
  /\ UNCHANGED <<input, pos, chunk, stored>>

TransferStep ==
  \/ WaitCall \/ CallFails
  \/ UploadCall \/ UploadRead \/ UploadSave
  \/ DownloadCall \/ DownloadGet \/ DownloadShortWrite

Next ==
  \/ RequestStep /\ UNCHANGED transferVars
  \/ TransferStep /\ UNCHANGED requestVars

Spec == Init /\ [][Next]_callVars
------------------------------------------------------------------------------
(***************************************************************************)
(* Types.                                                                  *)
(***************************************************************************)
TypeOK ==
  /\ op \in RequestOps \cup {"media", "download"}
  /\ pc \in {"check", "query", "invoke", "reply", "waitQuery", "call", "waitCall",
             "read", "save", "get", "returned"}
  /\ sends \in 0..MaxAttempts /\ packets \in Nat /\ used \subseteq 1..random
  /\ result \in {"none", "ok", "error"} /\ (result # "none" <=> pc = "returned")
  /\ pos \in 0..avail /\ offset \in 0..size /\ floods \in 0..MaxFloods
  /\ Len(stored) <= parts
  /\ \A i \in 1..Len(stored) : Len(stored[i]) <= partSize

(***************************************************************************)
(* Media is only sent whole.  A retried upload starts on a reader that is  *)
(* no longer at its beginning; it must fail rather than hand over a file   *)
(* that lacks its head.  The parts cover the file exactly, the last one    *)
(* shorter, also when the size is zero or a multiple of the part size.     *)
(***************************************************************************)
SentWhole ==
  op = "media" /\ result = "ok" =>
    /\ size <= Len(stored) * partSize
    /\ \A i \in 1..Len(stored) : stored[i] = Bytes((i - 1) * partSize, AtMost(i * partSize, size))

Wanted == IF limit > 0 THEN AtMost(limit, size) ELSE size

(***************************************************************************)
(* The count DownloadFile returns is about its last attempt: the writer's  *)
(* last offset bytes are the first bytes of the file, and on success they  *)
(* are all that was asked for.                                             *)
(***************************************************************************)
DownloadedTail ==
  op = "download" /\ pc = "returned" =>
    /\ SubSeq(out, Len(out) - offset + 1, Len(out)) = Bytes(0, offset)
    /\ result = "ok" => offset = Wanted
==============================================================================
