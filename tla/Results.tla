------------------------------ MODULE Results ------------------------------
(***************************************************************************)
(* Result codes and exceptions (gnomevfs/vfsmodule.c).  An exception class *)
(* of gnomevfs is named by the code it stands for.  An error that passes   *)
(* a method written in Python becomes an exception and a code again.       *)
(***************************************************************************)

\* The codes initialize_exceptions makes a class for.
Classes ==
    {"NOT_FOUND", "GENERIC", "INTERNAL", "BAD_PARAMETERS", "NOT_SUPPORTED",
     "IO", "CORRUPTED_DATA", "WRONG_FORMAT", "BAD_FILE", "TOO_BIG",
     "NO_SPACE", "READ_ONLY", "INVALID_URI", "NOT_OPEN",
     "INVALID_OPEN_MODE", "ACCESS_DENIED", "TOO_MANY_OPEN_FILES", "EOF",
     "NOT_A_DIRECTORY", "IN_PROGRESS", "INTERRUPTED", "FILE_EXISTS", "LOOP",
     "NOT_PERMITTED", "IS_DIRECTORY", "NO_MEMORY", "HOST_NOT_FOUND",
     "INVALID_HOST_NAME", "HOST_HAS_NO_ADDRESS", "LOGIN_FAILED",
     "CANCELLED", "DIRECTORY_BUSY", "DIRECTORY_NOT_EMPTY",
     "TOO_MANY_LINKS", "READ_ONLY_FILE_SYSTEM", "NOT_SAME_FILE_SYSTEM",
     "NAME_TOO_LONG", "SERVICE_NOT_AVAILABLE", "SERVICE_OBSOLETE",
     "PROTOCOL_ERROR", "NO_MASTER_BROWSER"}

\* Codes GnomeVFS has and the switch leaves to its default.
Unmapped == {"NO_DEFAULT", "NO_HANDLER", "PARSE", "LAUNCH"}

Codes == {"OK"} \cup Classes \cup Unmapped

\* What Python code may raise: a class above, or any other exception.
Exceptions == Classes \cup {"other"}

\* The exception a code raises, or "none": success, and every code that has
\* no class.
pygnome_vfs_result_check(code) == IF code \in Classes THEN code ELSE "none"

\* Mutant: the switch has no case for BAD_FILE.
exception_check_no_bad_file(exception) ==
    CASE exception = "none" -> "-1"
      [] exception = "BAD_FILE" -> "-2"
      [] exception = "BAD_PARAMETERS" -> "BAD_FILE"
      [] exception \in Classes \ {"BAD_FILE", "BAD_PARAMETERS"} -> exception
      [] OTHER -> "-2"

\* The code of the pending exception.  BadParametersError gives the code of
\* BadFileError.
pygnome_vfs_exception_check(exception) ==
    CASE exception = "none" -> "-1"
      [] exception = "BAD_PARAMETERS" -> "BAD_FILE"
      [] exception \in Classes \ {"BAD_PARAMETERS"} -> exception
      [] OTHER -> "-2"

\* EXCEPTION_CHECK: what a method written in Python answers if its code ends
\* with the exception, or without one.
MethodAnswers(exception) ==
    IF exception = "none" THEN "OK"
    ELSE IF pygnome_vfs_exception_check(exception) \in Classes
         THEN pygnome_vfs_exception_check(exception)
         ELSE "GENERIC"

=============================================================================
