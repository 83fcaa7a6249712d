----------------------------- MODULE FileTransfer -----------------------------
(***************************************************************************)
(* One file crossing a socket: CHandler::sendFile() at one end, and at the *)
(* other CHandler::readFile(), which writes it to a local file, or         *)
(* RRemoteFile::readFromRemote(), which keeps it in memory.  The size goes *)
(* first, then the contents in pieces of up to TRANSFER_SIZE bytes; each   *)
(* recv() yields some of what has arrived.  Bytes are only counted.        *)
(***************************************************************************)
EXTENDS Naturals

CONSTANTS
    TRANSFER_SIZE,  \* bytes per call to read() or write()
    Sizes,          \* sizes of the file being sent
    StreamWindow,   \* bytes the network holds before send() blocks
    Modulus         \* 2^32: the uint32_t counter of readFromRemote() wraps

ASSUME TransferAssumption ==
    /\ TRANSFER_SIZE \in Nat \ {0}
    /\ Sizes \subseteq Nat
    /\ StreamWindow \in Nat /\ StreamWindow >= TRANSFER_SIZE
    /\ Modulus \in Nat \ {0}

VARIABLES
    source,     \* the length of the file at the sender
    changed,    \* another program has changed or removed it
    sPc, sOff,  \* where sendFile() is, and its offset in the file
    size,       \* the size on the wire, as a set of at most one element
    onWire,     \* bytes of contents in flight
    lost,       \* the connection has been lost
    target,     \* "file" for readFile(), "memory" for readFromRemote()
    rPc,        \* where the receiver is
    fileSize, bytesRead,   \* its variables of the same names
    chunk, part,           \* RSocket::read(): a_size, and retVal so far
    room,       \* the size of the memory buffer
    written,    \* bytes that reached the local file
    retVal      \* its result

sender == <<source, changed, sPc, sOff>>
network == <<size, onWire, lost>>
receiver == <<target, rPc, fileSize, bytesRead, chunk, part, room, written, retVal>>
transferVars == <<sender, network, receiver>>

Smaller(a, b) == IF a < b THEN a ELSE b

\* The type invariant.
TransferTypeOK ==
    /\ source \in Sizes /\ changed \in BOOLEAN /\ sOff \in Nat
    /\ sPc \in {"stat", "open", "copy", "done", "threw"}
    /\ size \subseteq Sizes /\ onWire \in 0 .. StreamWindow /\ lost \in BOOLEAN
    /\ target \in {"file", "memory"}
    /\ rPc \in {"size", "create", "next", "recv", "done", "threw"}
    /\ fileSize \in Nat /\ bytesRead \in Nat
    /\ chunk \in 0 .. TRANSFER_SIZE /\ part \in 0 .. chunk
    /\ room \in Nat /\ written \in Nat
    /\ retVal \in {"KErrNone", "KErrGeneral"}

TransferInit ==
    /\ source \in Sizes /\ changed = FALSE /\ sPc = "stat" /\ sOff = 0
    /\ size = {} /\ onWire = 0 /\ lost = FALSE
    /\ target \in {"file", "memory"} /\ rPc = "size"
    /\ fileSize = 0 /\ bytesRead = 0 /\ chunk = 0 /\ part = 0
    /\ room = 0 /\ written = 0 /\ retVal = "KErrNone"

--------------------------------------------------------------------------------
(***************************************************************************)
(* CHandler::sendFile(): the size is the one GetFileInfo() returned, before *)
(* the file was opened; the contents are whatever the reads yield.         *)
(***************************************************************************)
SendSize ==
    /\ sPc = "stat" /\ ~lost
    /\ size' = {source} /\ sPc' = "open"
    /\ UNCHANGED <<source, changed, sOff, onWire, lost, receiver>>

\* RFile::open() can fail although the size has been sent: the file may have gone,
\* be in use, or be one that may be looked at and not read.
OpenSource ==
    /\ sPc = "open"
    /\ sPc' \in {"copy", "done"}
    /\ UNCHANGED <<source, changed, sOff, network, receiver>>

SendPiece ==
    LET n == Smaller(TRANSFER_SIZE, source - sOff) IN
    /\ sPc = "copy" /\ sOff < source /\ ~lost
    /\ onWire + n <= StreamWindow
    /\ onWire' = onWire + n /\ sOff' = sOff + n
    /\ UNCHANGED <<source, changed, sPc, size, lost, receiver>>

SendEnds ==
    /\ sPc = "copy" /\ sOff >= source
    /\ sPc' = "done"
    /\ UNCHANGED <<source, changed, sOff, network, receiver>>

\* RSocket::write() throws.
SendThrows ==
    /\ sPc \in {"stat", "copy"} /\ lost
    /\ sPc = "copy" => sOff < source
    /\ sPc' = "threw"
    /\ UNCHANGED <<source, changed, sOff, network, receiver>>

--------------------------------------------------------------------------------
(***************************************************************************)
(* The receiver.                                                           *)
(***************************************************************************)
ReadFileSize ==
    /\ rPc = "size" /\ size # {}
    /\ fileSize' \in size /\ size' = {}
    /\ IF target = "file"
         THEN rPc' = "create" /\ UNCHANGED room
         ELSE rPc' = "next" /\ room' = fileSize' % Modulus
    /\ UNCHANGED <<sender, onWire, lost, target, bytesRead, chunk, part, written, retVal>>

\* If the file cannot be created, readFile() returns the error.
CreateTarget ==
    /\ rPc = "create"
    /\ \E ok \in BOOLEAN :
         /\ rPc' = IF ok THEN "next" ELSE "done"
         /\ retVal' = IF ok THEN "KErrNone" ELSE "KErrGeneral"
    /\ UNCHANGED <<sender, network, target, fileSize, bytesRead, chunk, part, room, written>>

\* MUTANT: a whole buffer is asked for even when less is left.
AlwaysFull == TRANSFER_SIZE

BytesToRead == IF fileSize - bytesRead >= TRANSFER_SIZE
                 THEN TRANSFER_SIZE ELSE fileSize - bytesRead

\* The head of the do-while loop, which is entered even for an empty file.
NextPiece ==
    /\ rPc = "next"
    /\ chunk' = BytesToRead
    /\ part' = 0 /\ rPc' = "recv"
    /\ UNCHANGED <<sender, network, target, fileSize, bytesRead, room, written, retVal>>

\* RSocket::read() of chunk bytes: recv() until they are all there.
Recv ==
    /\ rPc = "recv" /\ onWire > 0
    /\ \E n \in 1 .. Smaller(onWire, chunk - part) :
         onWire' = onWire - n /\ part' = part + n
    /\ UNCHANGED <<sender, size, lost, target, rPc, fileSize, bytesRead,
                   chunk, room, written, retVal>>

\* The count of readFromRemote() is 32 bits wide, that of readFile() 64.
Counted(n) == IF target = "file" THEN n ELSE n % Modulus

\* MUTANT: a failing write ends the loop.
UntilWriteFails == bytesRead' < fileSize /\ retVal' = "KErrNone"

Continues == bytesRead' < fileSize

\* MUTANT: a successful write overwrites the error of an earlier one.
WriteForgets == written' = written + chunk /\ retVal' = "KErrNone"

WriteSucceeds == written' = written + chunk /\ UNCHANGED retVal

LocalWriteFails == target = "file" /\ retVal' = "KErrGeneral" /\ UNCHANGED written

\* The foot of the loop.  A failing write() to the local file is remembered
\* and the loop goes on, so that the stream stays in step.
PieceDone ==
    /\ rPc = "recv" /\ part = chunk /\ chunk > 0
    /\ bytesRead' = Counted(bytesRead + chunk)
    /\ WriteSucceeds \/ LocalWriteFails
    /\ rPc' = IF Continues THEN "next" ELSE "done"
    /\ chunk' = 0 /\ part' = 0
    /\ UNCHANGED <<sender, network, target, fileSize, room>>

\* recv() returned 0 or an error: the stream has ended, or 0 bytes were asked.
RecvThrows ==
    /\ \/ rPc = "recv" /\ chunk = 0
       \/ rPc = "recv" /\ part < chunk /\ onWire = 0 /\ lost
       \/ rPc = "size" /\ size = {} /\ lost
    /\ rPc' = "threw"
    /\ UNCHANGED <<sender, network, target, fileSize, bytesRead, chunk, part,
                   room, written, retVal>>

LinkLost ==
    /\ ~lost /\ lost' = TRUE
    /\ onWire' \in 0 .. onWire
    /\ size' \in SUBSET size
    /\ onWire' > 0 => size' = size
    /\ UNCHANGED <<sender, receiver>>

\* Another program at the sender changes the file, or puts another in its place.
SourceChange ==
    /\ source' \in Sizes \ {source} /\ changed' = TRUE
    /\ UNCHANGED <<sPc, sOff, network, receiver>>

Transfer == \/ SendSize \/ OpenSource \/ SendPiece \/ SendEnds \/ SendThrows
            \/ ReadFileSize \/ CreateTarget \/ NextPiece \/ Recv \/ PieceDone
            \/ RecvThrows

TransferNext == Transfer \/ LinkLost \/ SourceChange

TransferSpec == TransferInit /\ [][TransferNext]_transferVars /\ WF_transferVars(Transfer)

--------------------------------------------------------------------------------
\* When the receiver returns to its caller, which goes on with the next command
\* or reply on the same stream, every byte of the file has been taken off it,
\* however the pieces were cut and whether or not the local writes failed, if
\* its file could be created and the sender's did not change.
LeavesStreamInStep ==
    rPc = "done" /\ bytesRead > 0 /\ ~changed =>
        onWire = 0 /\ (sPc \in {"stat", "open", "copy"} => sOff = source)

\* Success means the whole of the file that was announced.
SuccessIsComplete ==
    rPc = "done" /\ retVal = "KErrNone" => written = fileSize

\* recv() never stores beyond the end of the memory buffer, nor, by the types,
\* beyond that of the buffer for one piece.
StaysInBuffer ==
    /\ TransferTypeOK
    /\ rPc = "recv" /\ target = "memory" => bytesRead + chunk <= room

(***************************************************************************)
(* The inductive invariant behind the three.                               *)
(***************************************************************************)

\* The sender never goes beyond the size it has announced, and what the
\* receiver has counted and what is in flight has been sent, even when a
\* 32-bit count has wrapped.
SentFirst ==
    /\ onWire + part + bytesRead <= sOff
    /\ ~changed => /\ sOff <= source /\ size \subseteq {source}
                   /\ rPc \notin {"size", "threw"} => fileSize = source

\* The receiver asks for no more than is left, and ends only at the end.
CountsToSize ==
    /\ rPc \in {"size", "create"} => bytesRead = 0 /\ part = 0 /\ written = 0
    /\ rPc = "size" => retVal = "KErrNone"
    /\ rPc = "create" => target = "file"
    /\ target = "memory" => retVal = "KErrNone" /\ room = fileSize % Modulus
    /\ rPc = "next" => bytesRead <= fileSize
    /\ rPc = "recv" => bytesRead + chunk <= fileSize
    /\ rPc = "done" => \/ bytesRead = fileSize
                       \/ bytesRead = 0 /\ retVal = "KErrGeneral"
    /\ rPc = "done" /\ target = "memory" => fileSize < Modulus

\* Until a write has failed, what was counted was written.
WritesCounted ==
    retVal = "KErrNone" /\ (target = "file" \/ fileSize < Modulus)
        => written = bytesRead

TransferInv == TransferTypeOK /\ SentFirst /\ CountsToSize /\ WritesCounted

\* The sender has returned with less sent than it has announced: the file could not
\* be opened, or has become shorter.
EndsShort == sPc = "done" /\ rPc # "size" /\ sOff < fileSize

\* The receiver returns, and not in an exception unless the connection is lost; it
\* waits for ever for the contents of no file but one that the sender has cut short,
\* which nothing on the wire can tell it.
ReceiverReturns == <>(rPc = "done" \/ (rPc = "threw" /\ lost) \/ EndsShort)
================================================================================
