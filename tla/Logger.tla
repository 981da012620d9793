-------------------------------- MODULE Logger --------------------------------
(***************************************************************************)
(* The process-wide logger of cess-ffi (cesscrypto.h, cess_init_log_fd).  *)
(* The header says: the logger is initialised on the invocation of         *)
(* cess_init_log_fd, subsequent calls have no effect, and the call must   *)
(* come before any other call, "else the logger will be initialized       *)
(* implicitly and log to stderr".  So the sink is fixed by whichever comes *)
(* first, cess_init_log_fd or any other call of the interface, and never   *)
(* changes after that.  Log records themselves are left out.              *)
(***************************************************************************)
CONSTANTS
  LogFds,  \* file descriptors a caller may pass to cess_init_log_fd
  Stderr   \* model value: the sink of an implicitly initialised logger

VARIABLE logSink  \* "none" before the logger is initialised, then its sink

LogInit == logSink = "none"

(* cess_init_log_fd(log_fd): initialises the logger with log_fd, unless it *)
(* already is initialised; then the call has no effect.                    *)
InitLogFd(fd) == logSink' = IF logSink = "none" THEN fd ELSE logSink

(* The part every other call of the interface plays: it initialises the   *)
(* logger to stderr if nothing has yet.                                    *)
ImplicitInit == logSink' = IF logSink = "none" THEN Stderr ELSE logSink

=============================================================================
