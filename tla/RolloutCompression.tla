-------------------------- MODULE RolloutCompression --------------------------
(***************************************************************************)
(* The two representations of one rollout on disk                          *)
(* (codex-rs/rollout/src/compression.rs).                                  *)
(*                                                                         *)
(* A background worker replaces a plain rollout that nobody has written to *)
(* for a week by its compressed form; a recorder that appends to it turns  *)
(* it back first, and keeps its file handle open; readers take whichever   *)
(* form is there.  They share nothing but the file system, so that every   *)
(* system call is a step of its own.  A file that is removed while it is   *)
(* open lives on for its handles only.                                     *)
(***************************************************************************)
EXTENDS Naturals

CONSTANTS
    Appenders,  \* recorders and metadata updates that append to the rollout
    Creates,    \* those that reopen it after a failed write, with create(true)
    Readers,    \* open_rollout_line_reader
    MaxAppends, \* bound: items appended in all
    MaxTries,   \* MAX_NOT_FOUND_RETRIES and the last attempt
    None        \* no file

Base == 0                           \* what the rollout held at the start
Data == SUBSET (0 .. MaxAppends)    \* contents, as the set of their items
Plain == [data : Data, old : BOOLEAN]

ASSUME CompressionConstants ==
    /\ Creates \subseteq Appenders /\ MaxAppends \in Nat /\ MaxTries \in Nat \ {0}
    /\ \A d \in Data : d # None
    /\ \A f \in Plain : f # None

VARIABLES
    plain,      \* the .jsonl file: its contents, and whether its mtime is a week old
    zst,        \* the contents of the .jsonl.zst file
    wpc,        \* the worker, in compress_rollout_if_cold_blocking
    before,     \* the FileState it saw first
    wtemp,      \* its temporary file
    apc,        \* the appenders
    atemp,      \* their temporary files
    linked,     \* appenders whose handle is the file at the plain path
    appended,   \* items appended so far
    confirmed,  \* history: the items whose append returned Ok
    safe,       \* history: those appended before the worker's last look
    rpc,        \* the readers
    tries,      \* their failed attempts
    got         \* what they opened

worker == <<wpc, before, wtemp>>
appender == <<apc, atemp, linked, appended, confirmed, safe>>
reader == <<rpc, tries, got>>
compression_vars == <<plain, zst, worker, appender, reader>>

CompressionTypeOK ==
    /\ plain \in Plain \cup {None}
    /\ zst \in Data \cup {None}
    /\ wpc \in {"idle", "exists", "encode", "check", "persist", "recheck", "remove"}
    /\ before \in Plain \cup {None} /\ wtemp \in Data
    /\ apc \in [Appenders -> {"idle", "zst", "decompress", "link", "unzst", "open", "opened"}]
    /\ atemp \in [Appenders -> Data]
    /\ linked \subseteq {a \in Appenders : apc[a] = "opened"}
    /\ linked # {} => plain # None
    /\ appended \in 0 .. MaxAppends /\ confirmed \in Data /\ safe \in Data
    /\ rpc \in [Readers -> {"idle", "zst", "openPlain", "openZst", "found", "notfound"}]
    /\ tries \in [Readers -> 0 .. MaxTries]
    /\ got \in [Readers -> Data]

\* A plain rollout, or one that an earlier run has compressed.
CompressionInit ==
    /\ \/ plain = [data |-> {Base}, old |-> TRUE] /\ zst = None
       \/ plain = None /\ zst = {Base}
    /\ wpc = "idle" /\ before = None /\ wtemp = {}
    /\ apc = [a \in Appenders |-> "idle"]
    /\ atemp = [a \in Appenders |-> {}]
    /\ linked = {} /\ appended = 0 /\ confirmed = {} /\ safe = {}
    /\ rpc = [r \in Readers |-> "idle"]
    /\ tries = [r \in Readers |-> 0]
    /\ got = [r \in Readers |-> {}]

-----------------------------------------------------------------------------
(* The worker.  The run marker keeps a second one away.                    *)

\* The worker's next step, or idle when it skips or fails.
wgoto(p) == wpc' = p /\ UNCHANGED before

\* cold_file_state
cold_file_state ==
    /\ wpc = "idle"
    /\ plain # None /\ plain.old
    /\ before' = plain
    /\ wpc' = "exists"
    /\ UNCHANGED <<plain, zst, wtemp, appender, reader>>

alreadyCompressed ==
    /\ wpc = "exists"
    /\ wgoto(IF zst # None THEN "idle" ELSE "encode")
    /\ UNCHANGED <<plain, zst, wtemp, appender, reader>>

encode_zstd ==
    /\ wpc = "encode"
    /\ IF plain = None THEN wgoto("idle") /\ UNCHANGED wtemp
       ELSE wgoto("check") /\ wtemp' = plain.data
    /\ UNCHANGED <<plain, zst, appender, reader>>

same_file_state == plain = before

checkSame ==
    /\ wpc = "check"
    /\ wgoto(IF same_file_state THEN "persist" ELSE "idle")
    /\ UNCHANGED <<plain, zst, wtemp, appender, reader>>

persist_noclobber ==
    /\ wpc = "persist"
    /\ IF zst = None THEN zst' = wtemp /\ wgoto("recheck")
       ELSE wgoto("idle") /\ UNCHANGED zst
    /\ UNCHANGED <<plain, wtemp, appender, reader>>

\* Mutant: the file is not looked at again once its compressed form is there.
recheckBlind ==
    /\ wpc = "recheck"
    /\ wgoto("remove")
    /\ UNCHANGED <<plain, zst, wtemp, appender, reader>>

recheck ==
    /\ wpc = "recheck"
    /\ IF same_file_state THEN wgoto("remove") /\ UNCHANGED zst
       ELSE zst' = None /\ wgoto("idle")
    /\ UNCHANGED <<plain, wtemp, appender, reader>>

remove_plain ==
    /\ wpc = "remove"
    /\ plain' = None /\ linked' = {}
    /\ wgoto("idle")
    /\ UNCHANGED <<zst, wtemp, apc, atemp, appended, confirmed, safe, reader>>

\* The process of the worker dies; its temporary file is cleaned up later.
workerDies ==
    /\ wpc # "idle"
    /\ wgoto("idle")
    /\ UNCHANGED <<plain, zst, wtemp, appender, reader>>

-----------------------------------------------------------------------------
(* The appenders: materialize_rollout_for_append, open, append.            *)

agoto(a, p) == apc' = [apc EXCEPT ![a] = p]

plainExists(a) ==
    /\ apc[a] = "idle"
    /\ agoto(a, IF plain # None THEN "open" ELSE "zst")
    /\ UNCHANGED <<plain, zst, worker, atemp, linked, appended, confirmed, safe, reader>>

zstExists(a) ==
    /\ apc[a] = "zst"
    /\ agoto(a, IF zst # None THEN "decompress" ELSE "open")
    /\ UNCHANGED <<plain, zst, worker, atemp, linked, appended, confirmed, safe, reader>>

decompress(a) ==
    /\ apc[a] = "decompress"
    /\ IF zst = None THEN agoto(a, "idle") /\ UNCHANGED atemp
       ELSE agoto(a, "link") /\ atemp' = [atemp EXCEPT ![a] = zst]
    /\ UNCHANGED <<plain, zst, worker, linked, appended, confirmed, safe, reader>>

\* An existing plain file stays; a new one has a new mtime.
hard_link(a) ==
    /\ apc[a] = "link"
    /\ plain' = IF plain = None THEN [data |-> atemp[a], old |-> FALSE] ELSE plain
    /\ agoto(a, "unzst")
    /\ UNCHANGED <<zst, worker, atemp, linked, appended, confirmed, safe, reader>>

remove_zst(a) ==
    /\ apc[a] = "unzst"
    /\ zst' = None
    /\ agoto(a, "open")
    /\ UNCHANGED <<plain, worker, atemp, linked, appended, confirmed, safe, reader>>

\* A resume or an update fails when the file is not there; open_log_file
\* creates it.
open_append(a) ==
    /\ apc[a] = "open"
    /\ plain' = IF plain = None /\ a \in Creates THEN [data |-> {}, old |-> FALSE] ELSE plain
    /\ IF plain' = None THEN agoto(a, "idle") /\ UNCHANGED linked
       ELSE agoto(a, "opened") /\ linked' = linked \cup {a}
    /\ UNCHANGED <<zst, worker, atemp, appended, confirmed, safe, reader>>

\* write_rollout_item on the open handle, wherever its file is.
append_item(a) ==
    /\ apc[a] = "opened"
    /\ appended < MaxAppends
    /\ appended' = appended + 1
    /\ confirmed' = confirmed \cup {appended'}
    /\ IF a \in linked
       THEN /\ plain' = [data |-> plain.data \cup {appended'}, old |-> FALSE]
            /\ safe' = IF wpc = "remove" THEN safe ELSE safe \cup {appended'}
       ELSE UNCHANGED <<plain, safe>>
    /\ UNCHANGED <<zst, worker, apc, atemp, linked, reader>>

\* The appender closes its file, or its process dies where it is.
appenderEnds(a) ==
    /\ apc[a] # "idle"
    /\ agoto(a, "idle")
    /\ linked' = linked \ {a}
    /\ UNCHANGED <<plain, zst, worker, atemp, appended, confirmed, safe, reader>>

-----------------------------------------------------------------------------
(* The readers: open_rollout_line_reader.                                  *)

\* A NotFound: once more, up to the limit.
retry(r) ==
    /\ tries' = [tries EXCEPT ![r] = @ + 1]
    /\ rpc' = [rpc EXCEPT ![r] = IF tries[r] + 1 = MaxTries THEN "notfound" ELSE "idle"]
    /\ UNCHANGED got

rgoto(r, p) == rpc' = [rpc EXCEPT ![r] = p] /\ UNCHANGED <<tries, got>>

rfound(r, data) ==
    /\ rpc' = [rpc EXCEPT ![r] = "found"]
    /\ got' = [got EXCEPT ![r] = data]
    /\ UNCHANGED tries

\* existing_rollout_path prefers the plain file.
existing_rollout_path(r) ==
    /\ \/ rpc[r] = "idle" /\ rgoto(r, IF plain # None THEN "openPlain" ELSE "zst")
       \/ rpc[r] = "zst" /\ IF zst # None THEN rgoto(r, "openZst") ELSE retry(r)
    /\ UNCHANGED <<plain, zst, worker, appender>>

\* Mutant: a file that has gone is not looked for again.
open_onceGivesUp(r) ==
    /\ \/ /\ rpc[r] = "openPlain"
          /\ IF plain # None THEN rfound(r, plain.data) ELSE rgoto(r, "notfound")
       \/ /\ rpc[r] = "openZst"
          /\ IF zst # None THEN rfound(r, zst) ELSE rgoto(r, "notfound")
    /\ UNCHANGED <<plain, zst, worker, appender>>

open_once(r) ==
    /\ \/ /\ rpc[r] = "openPlain"
          /\ IF plain # None THEN rfound(r, plain.data) ELSE retry(r)
       \/ /\ rpc[r] = "openZst"
          /\ IF zst # None THEN rfound(r, zst) ELSE retry(r)
    /\ UNCHANGED <<plain, zst, worker, appender>>

\* The caller has its lines, and reads again later.
readerEnds(r) ==
    /\ rpc[r] \in {"found", "notfound"}
    /\ rpc' = [rpc EXCEPT ![r] = "idle"]
    /\ tries' = [tries EXCEPT ![r] = 0]
    /\ got' = [got EXCEPT ![r] = {}]
    /\ UNCHANGED <<plain, zst, worker, appender>>

-----------------------------------------------------------------------------

\* A week passes without a write; no call takes that long, but a recorder
\* may keep its file open all the while.
grow_old ==
    /\ plain # None /\ ~plain.old
    /\ wpc = "idle"
    /\ \A a \in Appenders : apc[a] \in {"idle", "opened"}
    /\ \A r \in Readers : rpc[r] \in {"idle", "found"} /\ tries[r] = 0
    /\ plain' = [plain EXCEPT !.old = TRUE]
    /\ UNCHANGED <<zst, worker, appender, reader>>

CompressionNext ==
    \/ cold_file_state \/ alreadyCompressed \/ encode_zstd \/ checkSame
    \/ persist_noclobber \/ recheck \/ remove_plain \/ workerDies
    \/ \E a \in Appenders :
          \/ plainExists(a) \/ zstExists(a) \/ decompress(a) \/ hard_link(a)
          \/ remove_zst(a) \/ open_append(a) \/ append_item(a) \/ appenderEnds(a)
    \/ \E r \in Readers : existing_rollout_path(r) \/ open_once(r) \/ readerEnds(r)
    \/ grow_old

CompressionSpec == CompressionInit /\ [][CompressionNext]_compression_vars

-----------------------------------------------------------------------------
(* Properties.                                                             *)

\* What a reader that starts now would find.
Visible == IF plain # None THEN plain.data ELSE IF zst # None THEN zst ELSE {}

\* The history stays visible through every change of representation,
\* whoever dies half way, and with it every append that came before the
\* worker's second look at the file: that look is there to notice it.
CheckedIsKept == {Base} \cup safe \subseteq Visible

\* A reader sees the history, and never runs out of attempts while the
\* representation changes under it.
ReaderFinds ==
    \A r \in Readers : rpc[r] # "notfound" /\ (rpc[r] = "found" => Base \in got[r])

\* "Flush all queued writes and wait until they are committed by the writer
\* task": an append that returned Ok is in the rollout.
ConfirmedIsVisible == confirmed \subseteq Visible
=============================================================================
