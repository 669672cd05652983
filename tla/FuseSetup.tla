----------------------------- MODULE FuseSetup -----------------------------
(***************************************************************************)
(* Start and end of the program: main of CachingFileSystem.cpp and, below  *)
(* it, fuse_main (lib/helper.c), the mount (lib/mount.c), fuse_new         *)
(* (lib/fuse.c), the session (lib/fuse_session.c, lib/fuse_lowlevel.c) and *)
(* the signal handlers (lib/fuse_signals.c).  Every call that can fail     *)
(* fails in some behaviour, and each function undoes what it did as its    *)
(* error path says.                                                        *)
(*                                                                         *)
(* A function is an operator from the state s before it to the set of its  *)
(* outcomes [s, res]: the state after it and what it returns.              *)
(***************************************************************************)
EXTENDS Integers, FiniteSets

CONSTANT SetupOptions   \* the settings a start may have, see OptionSpace

OptionSpace == [mountpoint : BOOLEAN, help : BOOLEAN, subtype : BOOLEAN, auto_unmount : BOOLEAN,
                module : BOOLEAN, intr : BOOLEAN, foreground : BOOLEAN, root : BOOLEAN]

ASSUME SetupAssumption == SetupOptions \subseteq OptionSpace

VARIABLE su     \* the starting program: where it is (pc), its settings (opt), what it holds,
                \* what it misused (bad), the descriptor in its channel (chfd), whether the
                \* channel belongs to the session (linked), whether INIT has come (inited),
                \* and the calls that failed (lost)

Dev == 3        \* the descriptor of /dev/fuse

SetupStarts ==
    {[pc |-> "main", opt |-> opt, held |-> {}, bad |-> {}, chfd |-> -1, linked |-> FALSE,
      inited |-> FALSE, lost |-> {}] : opt \in SetupOptions}
SetupInit == su \in SetupStarts

Acquire(s, R) == [s EXCEPT !.held = @ \cup R]
\* Releasing or using what is not held is misuse; free(NULL) is not.
Release(s, r) == IF r \in s.held THEN [s EXCEPT !.held = @ \ {r}] ELSE [s EXCEPT !.bad = @ \cup {r}]
Drop(s, r) == [s EXCEPT !.held = @ \ {r}]
Touch(s, r) == IF r \in s.held THEN s ELSE [s EXCEPT !.bad = @ \cup {r}]
Lost(s, what) == [s EXCEPT !.lost = @ \cup {what}]

Outcome(s, res) == [s |-> s, res |-> res]
Closed(s, fd) == IF fd = Dev THEN Release(s, "dev") ELSE IF fd = 0 THEN [s EXCEPT !.bad = @ \cup {"stdin"}] ELSE s

-----------------------------------------------------------------------------
(* Mounting: the descriptor, or -1 for an error and -2 for "try fusermount". *)

out_close(s, res) == Outcome(Release(s, "dev"), res)
out_umount(s, res) == out_close(Release(s, "mounted"), res)

\* fuse_mount_sys: without memory for the type it returns the 0 of the call before.
fuse_mount_sys(s) ==
    LET opened == Acquire(s, {"dev"})
        mounted == Acquire(opened, {"mounted"})
        direct == {Outcome(s, -1), out_close(opened, -1), out_close(Lost(opened, "type"), 0),
                   out_close(opened, -2), Outcome(mounted, Dev)}
    IN  IF ~s.opt.mountpoint THEN {Outcome(s, -1)}
        ELSE IF s.opt.auto_unmount THEN {Outcome(s, -1), Outcome(s, -2)}
        ELSE direct \cup (IF s.opt.root THEN {out_umount(mounted, -1)} ELSE {})

\* fuse_mount_fusermount: with auto_unmount the socket stays open, whatever comes through it.
fuse_mount_fusermount(s) ==
    LET pair == Acquire(s, {"comm"})
        kept(t) == IF s.opt.auto_unmount THEN t ELSE Drop(t, "comm")
    IN  IF ~s.opt.mountpoint THEN {Outcome(s, -1)}
        ELSE {Outcome(s, -1), Outcome(IF "comm" \in s.held THEN pair ELSE Release(pair, "comm"), -1),
              Outcome(kept(pair), -1), Outcome(kept(Acquire(pair, {"dev", "mounted"})), Dev)}

\* The end of fuse_kern_mount: with a subtype, without it if that fails.
WithFusermount(s) ==
    IF ~s.opt.subtype THEN fuse_mount_fusermount(s)
    ELSE {Outcome(s, -1)} \cup
         UNION {IF o.res # -1 THEN {o} ELSE fuse_mount_fusermount(o.s) : o \in fuse_mount_fusermount(s)}

\* fuse_kern_mount: help is no error and returns 0; an option that cannot be added
\* before the fallback leaves the -2.
fuse_kern_mount(s) ==
    LET again(t) == WithFusermount(t) \cup
           (IF s.opt.auto_unmount \/ ~s.opt.subtype THEN {Outcome(Lost(t, "fusermount_opts"), -2)} ELSE {})
    IN  {Outcome(s, -1)} \cup
        IF s.opt.help THEN {Outcome(s, 0)}
        ELSE UNION {IF o.res = -2 THEN again(o.s) ELSE {o} : o \in fuse_mount_sys(s)}

\* fuse_kern_unmount: closes the descriptor; unless polling it says that the file
\* system is gone, unmounts what is on the mount point.  Nobody looks whether umount or
\* fusermount succeeds.
fuse_kern_unmount(s, fd) ==
    LET closed == Closed(s, fd)
    IN  IF ~s.opt.mountpoint THEN {s}
        ELSE IF fd = Dev /\ "mounted" \notin s.held THEN {closed}
        ELSE {Release(closed, "mounted"), Lost(closed, "umount")}

\* fuse_mount_common, with fuse_kern_chan_new: 1 for a channel, 0 for none.
fuse_mount_common(s) ==
    UNION {IF o.res = -1 THEN {Outcome(o.s, 0)}
           ELSE {Outcome([Acquire(o.s, {"ch"}) EXCEPT !.chfd = o.res], 1)}
                \cup {Outcome(t, 0) : t \in fuse_kern_unmount(o.s, o.res)} : o \in fuse_kern_mount(s)}

-----------------------------------------------------------------------------
(* The session.                                                              *)

\* fuse_chan_destroy and fuse_kern_chan_destroy.
fuse_chan_destroy(s) ==
    [Release(Closed(Touch(s, "ch"), s.chfd), "ch") EXCEPT !.linked = FALSE, !.chfd = -1]

\* fuse_fs_destroy: a module's destroy destroys the file system below it; the file
\* system's own destroy writes to the log.
fuse_fs_destroy(s, callback) ==
    LET below == IF "modfs" \in s.held THEN Release(Release(s, "modref"), "modfs") ELSE s
    IN  Release(IF callback THEN Touch(below, "log") ELSE below, "fs")

\* fuse_ll_destroy: the library's destroy is called if INIT has come and DESTROY not.
ll_destroy(s) ==
    LET s1 == IF s.inited /\ "fs" \in s.held THEN fuse_fs_destroy(s, TRUE) ELSE s
    IN  Release(Release(s1, "pipe_key"), "ll")

\* fuse_session_destroy.
fuse_session_destroy(s) ==
    LET s1 == ll_destroy(Touch(s, "se"))
    IN  Release(IF s.linked THEN fuse_chan_destroy(s1) ELSE s1, "se")

\* fuse_lowlevel_new_common with fuse_session_new: the options' proc refuses help.
fuse_lowlevel_new_common(s) ==
    LET ll == Acquire(s, {"ll"})
        key == Acquire(ll, {"pipe_key"})
    IN  {Outcome(s, 0), Outcome(Release(ll, "ll"), 0), Outcome(Release(Release(key, "pipe_key"), "ll"), 0)}
        \cup (IF s.opt.help THEN {} ELSE {Outcome(Acquire(key, {"se"}), 1)})

\* fuse_push_module: a reference to the module and a file system on top of the other.
fuse_push_module(s) ==
    LET ref == Acquire(s, {"modref"})
    IN  {Outcome(s, -1), Outcome(Release(ref, "modref"), -1), Outcome(Acquire(ref, {"modfs"}), 0)}

out_delete_context_key(s) == Release(s, "context_key")
out_free(s) == out_delete_context_key(Release(s, "f"))

\* Mutant: the list of modules is not freed.
M_out_free_fs(s) == out_free(fuse_fs_destroy(s, FALSE))
out_free_fs(s) == out_free(Drop(fuse_fs_destroy(s, FALSE), "modules"))
out_free_session(s) == out_free_fs(fuse_session_destroy(s))
out_free_name_table(s) == out_free_session(Release(s, "name_table"))
out_free_id_table(s) == out_free_name_table(Release(s, "id_table"))
\* The root node lies in a slab, so that free is none of its own.
out_free_root(s) == out_free_id_table([s EXCEPT !.bad = @ \cup {"root"}])

\* fuse_new_common up to the session: the settings' list of modules is parsed, and a
\* module pushed; a failure returns with the label its goto names.
BeforeSession(s) ==
    LET key == Acquire(s, {"context_key"})
        f == Acquire(key, {"f"})
        fs == Acquire(f, {"fs"})
        parsed == IF s.opt.module THEN Acquire(fs, {"modules"}) ELSE fs
        pushed == IF s.opt.module THEN fuse_push_module(parsed) ELSE {Outcome(parsed, 0)}
    IN  {Outcome(s, 0), Outcome(out_delete_context_key(key), 0), Outcome(out_free(f), 0),
         Outcome(out_free_fs(parsed), 0)}
        \cup {IF o.res = -1 THEN Outcome(out_free_fs(o.s), 0) ELSE Outcome(o.s, 1) : o \in pushed}

\* The rest of it, the channel in the session.
AfterSession(s) ==
    LET added == [s EXCEPT !.linked = TRUE]
        name == Acquire(added, {"name_table"})
        id == Acquire(name, {"id_table"})
        root == Acquire(id, {"slab"})
        intr == IF s.opt.intr THEN Acquire(root, {"intr_signal"}) ELSE root
        failed(t) == Outcome(Lost(t, "new"), 0)
    IN  {failed(out_free_session(added)), failed(out_free_name_table(name)), failed(out_free_id_table(id)),
         Outcome(intr, 1)} \cup (IF s.opt.intr THEN {failed(out_free_root(root))} ELSE {})

fuse_new_common(s) ==
    UNION {IF b.res = 0 THEN {b}
           ELSE UNION {IF l.res = 0 THEN {Outcome(out_free_fs(l.s), 0)} ELSE AfterSession(l.s) :
                         l \in fuse_lowlevel_new_common(b.s)} : b \in BeforeSession(s)}

-----------------------------------------------------------------------------
(* The end.                                                                  *)

\* fuse_destroy: the file system itself is destroyed only by the session's destroy.
fuse_destroy(s) ==
    LET s1 == Release(Release(Release(Drop(s, "intr_signal"), "slab"), "id_table"), "name_table")
        s2 == IF s.inited THEN s1 ELSE Lost(s1, "INIT")
    IN  out_free(Drop(fuse_session_destroy(Touch(s2, "f")), "modules"))

\* fuse_unmount_common.
fuse_unmount_common(s) ==
    IF ~s.opt.mountpoint THEN {s}
    ELSE {fuse_chan_destroy(t) : t \in fuse_kern_unmount([Touch(s, "ch") EXCEPT !.chfd = -1], s.chfd)}

\* err_unmount and err_free of fuse_setup_common.
err_free(s) == [Drop(s, "mountpoint") EXCEPT !.pc = "returned"]
err_unmount(s, fuse) ==
    {err_free(IF fuse THEN fuse_destroy(t) ELSE t) : t \in fuse_unmount_common(s)}

\* fuse_remove_signal_handlers.
fuse_remove_signal_handlers(s) == Drop(Drop(s, "instance"), "handlers")

fuse_teardown_common(s) ==
    {err_free(fuse_destroy(t)) : t \in fuse_unmount_common(fuse_remove_signal_handlers(s))}

-----------------------------------------------------------------------------
(* The steps of the program.                                                 *)

At(pc) == su.pc = pc
Goto(s, pc) == [s EXCEPT !.pc = pc]

\* main: wrong arguments end it; otherwise the cache, the root's name and the log.
Start ==
    /\ At("main")
    /\ \/ su' = Goto(su, "exited")
       \/ su' = Goto(Acquire(su, {"cacheManager", "rootdir", "log"}), "parse")

\* fuse_parse_cmdline and add_default_subtype: its error frees the mount point, and
\* nobody the arguments.
ParseCmdline ==
    /\ At("parse")
    /\ LET args == Acquire(su, {"args"} \cup (IF su.opt.mountpoint THEN {"mountpoint"} ELSE {}))
       IN  su' \in {Goto(Lost(args, "parse"), "returned"), Goto(args, "mount")}
               \cup (IF su.opt.subtype THEN {Goto(Lost(Drop(args, "mountpoint"), "parse"), "returned")} ELSE {})

\* fuse_setup_common, call by call.
Mount ==
    /\ At("mount")
    /\ \E o \in fuse_mount_common(su) :
          su' = IF o.res = 0 THEN err_free(Release(o.s, "args")) ELSE Goto(o.s, "new")

New ==
    /\ At("new")
    /\ \E o \in fuse_new_common(su) :
          LET s == Release(o.s, "args")
          IN  IF o.res = 0 THEN su' \in err_unmount(s, FALSE) ELSE su' = Goto(s, "daemonize")

\* fuse_daemonize: in the background a fork and a setsid may fail.
Daemonize ==
    /\ At("daemonize")
    /\ \/ su' = Goto(su, "signals")
       \/ ~su.opt.foreground /\ su' \in err_unmount(su, TRUE)

\* fuse_set_signal_handlers: the handlers set before the one that fails remain.
SetSignalHandlers ==
    /\ At("signals")
    /\ \/ su' = Goto(Acquire(su, {"handlers", "instance"}), "loop")
       \/ su' \in err_unmount(su, TRUE)
       \/ su' \in err_unmount(Lost(Acquire(su, {"handlers"}), "signals"), TRUE)

\* fuse_loop: the kernel's INIT comes or not (a descriptor that is not the device's
\* gives an error), its DESTROY when the file system is unmounted.
Loop ==
    /\ At("loop")
    /\ \/ su' = Goto(su, "teardown")
       \/ su.chfd = Dev /\ su' = Goto([su EXCEPT !.inited = TRUE], "teardown")
       \/ su.chfd = Dev /\ su' = Goto(Drop(fuse_fs_destroy([su EXCEPT !.inited = TRUE], TRUE), "mounted"), "teardown")

Teardown == At("teardown") /\ su' \in fuse_teardown_common(su)

\* The end of main.
MainReturns ==
    /\ At("returned")
    /\ su' = Goto(Release(Release(su, "rootdir"), "cacheManager"), "exited")

SetupNext ==
    Start \/ ParseCmdline \/ Mount \/ New \/ Daemonize \/ SetSignalHandlers \/ Loop \/ Teardown \/ MainReturns

-----------------------------------------------------------------------------
(* Properties.                                                               *)

\* fuse_common.h says of fuse_mount: "@return the communication channel on success, NULL
\* on failure", so whoever has a channel has the device of a mounted file system.  (A
\* call for help mounts nothing and is no failure.)
ChannelOnlyOnSuccess ==
    su.pc = "new" /\ ~su.opt.help => su.chfd = Dev /\ {"dev", "mounted"} \subseteq su.held

\* ChannelOnlyOnSuccess does not hold: these starts go on with a 0 or -2 for a descriptor.
Unusual == su.lost \cap {"type", "fusermount_opts"} # {} \/ su.opt.help

\* However the start fails or the run ends, nothing is freed twice or used after it
\* was freed.  The exceptions are in the code: a failure of fuse_new after the channel
\* has been given to the session destroys the channel, which fuse_setup_common then
\* uses again; and a "descriptor" 0 or -2, which ChannelOnlyOnSuccess finds, is closed and
\* the mount point unmounted.
NothingMisused ==
    \/ su.bad = {}
    \/ "new" \in su.lost /\ su.bad \subseteq {"ch", "root", "dev", "mounted"}
    \/ Unusual /\ su.bad \subseteq {"stdin", "mounted", "ch", "root"}

\* When the program ends it holds nothing but the log, which no function closes: the
\* device is closed, the mount gone, and each error path has undone what was done.
\* The exceptions: the arguments after a failed parse, the socket to fusermount, the
\* handlers after one that failed, the file system if INIT never came, the mount if
\* umount itself failed, without a mount point the channel of a help.
NothingLeft ==
    su.pc = "exited" =>
       su.held \subseteq {"log"}
          \cup (IF "parse" \in su.lost THEN {"args", "mountpoint"} ELSE {})
          \cup (IF su.opt.auto_unmount THEN {"comm"} ELSE {})
          \cup (IF "signals" \in su.lost THEN {"handlers"} ELSE {})
          \cup (IF "umount" \in su.lost THEN {"mounted"} ELSE {})
          \cup (IF "INIT" \in su.lost THEN {"fs", "modfs", "modref"} ELSE {})
          \cup (IF "new" \in su.lost THEN {"slab"} ELSE {})
          \cup (IF su.opt.help THEN {"ch"} ELSE {})

\* The loop runs only over the device of a file system that has been mounted, but for
\* the failed mounts that ChannelOnlyOnSuccess finds.
LoopIsMounted ==
    su.pc = "loop" => Unusual \/ (su.chfd = Dev /\ {"dev", "mounted", "ch"} \subseteq su.held /\ su.linked)

\* However far the start gets and wherever it fails, nothing is used after it was given
\* back, nothing is left, and the loop runs over a mounted file system only.
SetupRight == NothingMisused /\ NothingLeft /\ LoopIsMounted
=============================================================================
