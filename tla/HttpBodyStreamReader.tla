------------------------ MODULE HttpBodyStreamReader ------------------------
(***************************************************************************)
(* The body stream of one request (src/http/http_body_stream_reader.h and  *)
(* .cpp): the parser's callbacks write body bytes into a buffer, the       *)
(* handler's coroutine takes them out with readAny and sleeps on a         *)
(* steady_timer while the buffer is empty.  Bytes are counted, not named:  *)
(* the streambuf is a FIFO and nothing in the class looks at its content.  *)
(*                                                                         *)
(* mBodyReadLock is the timer as asio presents it to one waiter.  No       *)
(* expiry is ever set, so a wait is over as soon as the reactor looks at   *)
(* it ("expired"), unless cancel() reaches the wait first, in which case   *)
(* it completes with operation_aborted ("cancelled").                      *)
(***************************************************************************)
EXTENDS Integers

VARIABLES mBodyContentLength, mBuffer, mTotalWritten, mDataReadSize, mEof,
          mBodyReadLock

readerVars == <<mBodyContentLength, mBuffer, mTotalWritten, mDataReadSize,
                mEof, mBodyReadLock>>

\* mBodyContentLength of a request that has no reader.
NoReader == -1

Least(a, b) == IF a < b THEN a ELSE b

ReaderTypeOK ==
  /\ mBodyContentLength \in Nat \cup {NoReader}
  /\ mBuffer \in Nat
  /\ mTotalWritten \in Nat
  /\ mDataReadSize \in Nat
  /\ mEof \in BOOLEAN
  /\ mBodyReadLock \in {"idle", "waiting", "expired", "cancelled"}

\* No reader yet: the builder makes one when the headers are complete.
ReaderInit ==
  /\ mBodyContentLength = NoReader
  /\ mBuffer = 0
  /\ mTotalWritten = 0
  /\ mDataReadSize = 0
  /\ mEof = FALSE
  /\ mBodyReadLock = "idle"

\* Mistake: what the handler has not read instead of what was not written.
bytesRemainingByReads == mBodyContentLength - mDataReadSize

bytesRemaining == mBodyContentLength - mTotalWritten

\* The constructor, followed by the write of the n body bytes that came in
\* the same read as the end of the headers (n = 0: no on_body callback).
Construct(length, n) ==
  /\ mBodyContentLength' = length
  /\ mBuffer' = n
  /\ mTotalWritten' = Least(n, length)
  /\ mDataReadSize' = 0
  /\ mEof' = FALSE
  /\ mBodyReadLock' = "idle"

\* cancel() reaches a wait that is still pending and no other.
Cancelled(lock) == IF lock = "waiting" THEN "cancelled" ELSE lock

\* write: all n bytes are buffered, but only those the Content-Length leaves
\* room for are counted as written.
Write(n) ==
  /\ mBuffer' = mBuffer + n
  /\ mTotalWritten' = mTotalWritten + Least(n, bytesRemaining)
  /\ mBodyReadLock' = Cancelled(mBodyReadLock)
  /\ UNCHANGED <<mBodyContentLength, mDataReadSize, mEof>>

\* readAny with an empty buffer: async_wait suspends the handler.
AwaitData ==
  /\ ~mEof
  /\ mBuffer = 0
  /\ mBodyReadLock' = "waiting"
  /\ UNCHANGED <<mBodyContentLength, mBuffer, mTotalWritten, mDataReadSize,
                 mEof>>

\* The reactor finds the timer expired and queues the waiter.
Expire ==
  /\ mBodyReadLock = "waiting"
  /\ mBodyReadLock' = "expired"
  /\ UNCHANGED <<mBodyContentLength, mBuffer, mTotalWritten, mDataReadSize,
                 mEof>>

\* The waiter is resumed; the wait it slept in is over.
EndWait ==
  /\ mBodyReadLock' = "idle"
  /\ UNCHANGED <<mBodyContentLength, mBuffer, mTotalWritten, mDataReadSize,
                 mEof>>

\* Mistakes: the end is reached when all that was written so far is read, or
\* when one piece is as long as the body.
TakesLastSoFar == mDataReadSize + mBuffer = mTotalWritten
TakesWholeAtOnce == mBuffer = mBodyContentLength

\* What was read with this piece is exactly the Content-Length.
TakesLast == mDataReadSize + mBuffer = mBodyContentLength

\* readAny with bytes in the buffer: it takes them all.
TakeAll ==
  /\ ~mEof
  /\ mBuffer > 0
  /\ mBuffer' = 0
  /\ mDataReadSize' = mDataReadSize + mBuffer
  /\ mEof' = TakesLast
  /\ UNCHANGED <<mBodyContentLength, mTotalWritten, mBodyReadLock>>

=============================================================================
