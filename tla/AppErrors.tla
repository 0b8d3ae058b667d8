------------------------------ MODULE AppErrors ------------------------------
(***************************************************************************)
(* Errors as the services pass them on (utils/error) and as HTTP answers   *)
(* (httpx).  An AppError goes by its code, a sentinel error by its name,   *)
(* and no error is Nil.                                                    *)
(***************************************************************************)

Nil == "nil"

\* An error that holds a nil *AppError.  It is not Nil.
NilPointer == "nil pointer"

\* The codes that New and Wrap are called with.
AppCodes == {"NotFound", "InvalidInput", "Unavailable", "Internal"}

\* Wrap returns a *AppError, which its callers return as an error.
Wrap(err, code) == IF err = Nil THEN NilPointer ELSE code

\* Both errors.Is, through Unwrap, and errors.As with a look at the Code
\* dereference the pointer.
Panics(err) == err = NilPointer

\* errors.Is with a sentinel: an AppError is none, and none is wrapped in one.
ErrorIs(err, sentinel) == err = sentinel

CodeOf(err) == IF err \in AppCodes THEN err ELSE "Unknown"

IsNotFound(err) == CodeOf(err) = "NotFound"
IsInvalidInput(err) == CodeOf(err) = "InvalidInput"

\* What a request may be answered; a panic is the middleware's to answer.
Statuses == {"bad request", "unauthorized", "forbidden", "not found", "conflict",
             "internal error", "unavailable", "timeout", "panic"}

\* The answer to an error.  "Not found" has no case of its own, and an error
\* that is no AppError is an internal one.
MapError(err) ==
    CASE Panics(err)             -> "panic"
      [] err = "InvalidInput"    -> "bad request"
      [] err = "Unavailable"     -> "unavailable"
      [] OTHER                   -> "internal error"
=============================================================================
