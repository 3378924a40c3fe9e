-------------------------------- MODULE Server --------------------------------
(***************************************************************************)
(* What the service modules share: the threads that serve requests, in one *)
(* server process unless a module says otherwise, and None, the value of a *)
(* missing record.  A record is read by one action and saved whole by a    *)
(* later one (database.py, save_record), so a save may go over what        *)
(* another thread saved since the read.                                    *)
(***************************************************************************)
CONSTANTS Threads, None

ASSUME ServerAssumption == None \notin Threads

\* A whole record saved by a handler that read `read` undoes what `stored`
\* gained since.
Stale(stored, read) == stored # read
===============================================================================
