------------------------------- MODULE Shell -------------------------------
(***************************************************************************)
(* The shell's commands (user-shell.c) as sequences of file system calls.  *)
(* The shell is the only process that runs, so a command that changes the  *)
(* disk once is one step; cd along a path, cp and echo take several.       *)
(*                                                                         *)
(* Names are sequences of letters, because the shell does not always set   *)
(* all eight bytes of request.name: rm copies only the letters it was      *)
(* given over the name of the previous request, and touch and echo copy    *)
(* from an array they have not initialised behind the terminating zero.    *)
(* The return code of a call is stored as ONE byte in the shell's 32-bit   *)
(* retcode, while the moves of cd store a whole cluster number in it.      *)
(***************************************************************************)
EXTENDS FAT32

CONSTANTS
    TypedNames,     \* names the user types, all of one length
    FileExts,       \* extensions the user types, of three letters
    BannerName,     \* "kaguya", the file shown at the start
    BannerExt,      \* "txt"
    JUNK,           \* an extension made of left-over bytes; no file has it
    NUL,            \* a zero byte inside a name, with left-over bytes behind
    ByteSize,       \* 256
    MaxPath         \* bound: components of a typed path

Garbled(n) == Append(n, NUL)

ASSUME ShellAssumption ==
    /\ TypedNames \subseteq Seq(STRING) \ {<<>>}
    /\ \A m, n \in TypedNames : Len(m) = Len(n)
    /\ \A n \in TypedNames : n \in Names /\ Garbled(n) \in Names
    /\ NoName = <<>>
    /\ FileExts \subseteq Exts \ {NoExt} /\ JUNK \notin Exts
    /\ BannerName \in Seq(STRING) /\ BannerExt \in FileExts
    /\ ByteSize \in Nat /\ ByteSize > 4
    /\ MaxPath \in Nat /\ ClusterSize \in Sizes /\ 0 \in Sizes
    /\ SIGNATURE \notin Tables    \* its twelfth byte, a space, marks no folder

VARIABLES
    cwd,           \* cwd_cluster_number
    current_dir,   \* the names shown in the prompt
    request,       \* name and extension left in the global request
    retcode,       \* the shell's 32-bit retcode; 0 when a command starts
    job            \* the command under way

shellVars == <<cwd, current_dir, request, retcode, job>>
allVars == <<vars, shellVars>>

DOTDOT == <<"..">>
Prompt == [op |-> "prompt"]
Paths(S) == UNION {[1 .. k -> S] : k \in 1 .. MaxPath}

\* At the first prompt: main has shown the banner with cat.
ShellInit ==
    /\ Init
    /\ cwd = ROOT
    /\ current_dir = <<>>
    /\ request = [name |-> BannerName, ext |-> BannerExt]
    /\ retcode = 0
    /\ job = Prompt
-----------------------------------------------------------------------------
(* What the commands compute.                                              *)

\* retcode after a call that answers with an int8_t.
Answer(code) == retcode - (retcode % ByteSize) + (code % ByteSize)

\* memcpy of strlen(new) letters over an older name.
Overlay(new, old) ==
    IF Len(new) >= Len(old) THEN new ELSE new \o SubSeq(old, Len(new) + 1, Len(old))

\* The name touch and echo copy: the bytes behind its end are indeterminate.
Unpadded(n) == {n, Garbled(n)}

\* What is left of the argument of rm behind split_by_first.
ArgExt(n, e) == IF e = NoExt /\ Len(n) > 1 THEN JUNK ELSE e

AtPrompt == job = Prompt /\ fault = "none"
Asks(n, e) == request' = [name |-> n, ext |-> e]
Write(d, n, e, b, v) ==
    WriteRefused(d, n, e, b) \/ (IF b = 0 THEN WriteFolder(d, n, e) ELSE WriteFile(d, n, e, b, v))

\* Mutant: delete is not called.
RemoveSkipped(d, n, e) == ret' = 0 /\ copied' = <<>> /\ UNCHANGED <<fat, store, fault>>

Remove(d, n, e) == DeleteRefused(d, n, e) \/ Delete(d, n, e)
-----------------------------------------------------------------------------
(* cd                                                                      *)

\* Mutant: the name stays in the prompt.
UpKeepsName == UNCHANGED current_dir

\* The loop that cuts the last name off current_dir.
UpDropsName == current_dir' = SubSeq(current_dir, 1, Len(current_dir) - 1)

CdUp ==
    IF cwd = ROOT THEN UNCHANGED <<vars, cwd, current_dir, retcode>>
    ELSE /\ MoveToParent(cwd)
         /\ retcode' = ret'
         /\ cwd' = ret'
         /\ UpDropsName

CdDown(n) ==
    IF Answer(ReadDirectoryCode(cwd, n, DirExt)) = 0
    THEN /\ MoveToChild(cwd, n)
         /\ retcode' = ret'
         /\ cwd' = ret'
         /\ current_dir' = Append(current_dir, n)
    ELSE /\ ReadDirectory(cwd, n, DirExt)
         /\ retcode' = Answer(ret')
         /\ UNCHANGED <<cwd, current_dir>>

cd(n) == IF n = DOTDOT THEN CdUp /\ UNCHANGED request
         ELSE CdDown(n) /\ Asks(n, DirExt)

CdCommand(path) ==
    /\ AtPrompt
    /\ job' = [op |-> "cd", rest |-> path]
    /\ UNCHANGED <<vars, cwd, current_dir, request, retcode>>

\* One component; main resets retcode when the command is over.
CdStep ==
    /\ job.op = "cd"
    /\ \/ /\ Len(job.rest) > 0
          /\ cd(Head(job.rest))
          /\ job' = [job EXCEPT !.rest = Tail(@)]
       \/ /\ job.rest = <<>>
          /\ job' = Prompt /\ retcode' = 0
          /\ UNCHANGED <<vars, cwd, current_dir, request>>
-----------------------------------------------------------------------------
(* Commands that call the file system once, after looking.                 *)

mkdir(n) ==
    /\ AtPrompt
    /\ Asks(n, DirExt)
    /\ IF Answer(ReadDirectoryCode(cwd, n, DirExt)) = 2
       THEN \E v \in Values : Write(cwd, n, DirExt, 0, v)
       ELSE ReadDirectory(cwd, n, DirExt)
    /\ UNCHANGED <<cwd, current_dir, retcode, job>>

touch(n, e) ==
    /\ AtPrompt
    /\ \E w \in Unpadded(n) :
          /\ Asks(w, e)
          /\ IF Answer(ReadCode(cwd, w, e, ClusterSize)) = 3
             THEN \E v \in Values : Write(cwd, w, e, ClusterSize, v)
             ELSE Read(cwd, w, e, ClusterSize)
    /\ UNCHANGED <<cwd, current_dir, retcode, job>>

\* An extension that is not typed leaves the previous one in the request.
cat(n, e) ==
    LET x == IF e = NoExt THEN request.ext ELSE e
    IN  /\ AtPrompt
        /\ Asks(n, x)
        /\ Read(cwd, n, x, ClusterSize)
        /\ UNCHANGED <<cwd, current_dir, retcode, job>>

\* The process exec then creates is the business of module Process.
exec(n, e) ==
    /\ AtPrompt
    /\ Asks(n, e)
    /\ Read(cwd, n, e, ClusterSize)
    /\ UNCHANGED <<cwd, current_dir, retcode, job>>

\* find fills the request before it calls the path search.
find(n) ==
    /\ AtPrompt
    /\ Asks(n, DirExt)
    /\ UNCHANGED <<vars, cwd, current_dir, retcode, job>>

\* The name and extension rm asks to delete. The typed extension is only
\* used when the previous request's extension leads to a file.
RmName(n) == Overlay(n, request.name)
RmExt(n, e) ==
    LET code == Answer(ReadDirectoryCode(cwd, RmName(n), request.ext))
    IN  IF code = 0 THEN DirExt
        ELSE IF code = 1
        THEN IF ReadCode(cwd, RmName(n), request.ext, 0) = 0 THEN NoExt ELSE ArgExt(n, e)
        ELSE request.ext

rm(n, e) ==
    /\ AtPrompt
    /\ Asks(RmName(n), RmExt(n, e))
    /\ Remove(cwd, RmName(n), RmExt(n, e))
    /\ UNCHANGED <<cwd, current_dir, retcode, job>>
-----------------------------------------------------------------------------
(* echo: read, delete and write. The read overwrites the text.             *)

\* Codes that stop echo; -1 is not among them, since retcode is then 255.
EchoStops == {1, 2, 3}

\* echo copies four bytes into the three of request.ext; the fourth, a zero,
\* is the low byte of parent_cluster_number.
EchoFolder == cwd - (cwd % ByteSize)

\* The text is copied to the start of buf, where the typed extension is kept:
\* the extension x echo asks for is what stands there then, three letters of
\* the text or what lies behind its end.
echo(n, x) ==
    /\ AtPrompt
    /\ \E w \in Unpadded(n), v \in Values :
          /\ Asks(w, x)
          /\ LET code == ReadCode(EchoFolder, w, x, ClusterSize)
             IN  IF Answer(code) \in EchoStops
                 THEN Read(EchoFolder, w, x, ClusterSize) /\ UNCHANGED job
                 ELSE /\ Remove(EchoFolder, w, x)
                      /\ job' = [op |-> "echo", found |-> code = 0,
                                 content |-> IF code # 0 THEN v
                                             ELSE ReadClusters(EchoFolder, w, x)[1][1]]
    /\ UNCHANGED <<cwd, current_dir, retcode>>

EchoWrite ==
    /\ job.op = "echo"
    /\ Write(EchoFolder, request.name, request.ext, ClusterSize, job.content)
    /\ job' = Prompt
    /\ UNCHANGED <<cwd, current_dir, request, retcode>>
-----------------------------------------------------------------------------
(* cp to a name in the same folder, or along a path of folders.            *)

\* The source is read into the buffer.
CpRead(n, e, found) ==
    /\ AtPrompt
    /\ Asks(n, e)
    /\ Read(cwd, n, e, ClusterSize)
    /\ found <=> Answer(ReadCode(cwd, n, e, ClusterSize)) = 0
    /\ UNCHANGED <<cwd, current_dir, retcode>>

CpRefused(n, e) == CpRead(n, e, FALSE) /\ UNCHANGED job

CpToFile(n, e, target, x) ==
    /\ CpRead(n, e, TRUE)
    /\ job' = [op |-> "cp write", name |-> target, ext |-> x, count |-> 0,
               content |-> copied'[1][1], home |-> cwd]

\* A destination with a dot in it is no path.
CpToPath(n, e, path) ==
    /\ CpRead(n, e, TRUE)
    /\ job' = [op |-> "cp", name |-> n, ext |-> e, rest |-> path, count |-> 0,
               content |-> copied'[1][1], home |-> cwd]

\* Mutant: a step that failed is counted too.
CountAll(code) == job.count + 1

\* cd_count after a step whose retcode is code.
Count(code) == IF code = 2 THEN job.count ELSE job.count + 1

\* Two things end the walk: a retcode of 2, and the last component.
CpWalk ==
    /\ job.op = "cp"
    /\ cd(Head(job.rest))
    /\ LET n == Count(retcode')
       IN  job' = CASE retcode' = 2 -> [op |-> "back", count |-> n, home |-> job.home]
                    [] retcode' # 2 /\ Len(job.rest) > 1 ->
                           [job EXCEPT !.rest = Tail(@), !.count = n]
                    [] OTHER ->
                           [op |-> "cp write", name |-> job.name, ext |-> job.ext,
                            count |-> n, content |-> job.content, home |-> job.home]

CpWrite ==
    /\ job.op = "cp write"
    /\ Asks(job.name, job.ext)
    /\ Write(cwd, job.name, job.ext, ClusterSize, job.content)
    /\ retcode' = Answer(ret')
    /\ job' = [op |-> "back", count |-> job.count, home |-> job.home]
    /\ UNCHANGED <<cwd, current_dir>>

CpBack ==
    /\ job.op = "back"
    /\ \/ /\ job.count > 0
          /\ cd(DOTDOT)
          /\ job' = [job EXCEPT !.count = @ - 1]
       \/ /\ job.count = 0
          /\ job' = Prompt /\ retcode' = 0
          /\ UNCHANGED <<vars, cwd, current_dir, request>>
-----------------------------------------------------------------------------
Command ==
    \/ \E path \in Paths(TypedNames \cup {DOTDOT}) : CdCommand(path)
    \/ \E n \in TypedNames :
          \/ mkdir(n) \/ find(n) \/ cat(n, NoExt) \/ rm(n, NoExt)
          \/ \E x \in FileExts \cup {NoExt, JUNK} : echo(n, x)
          \/ \E e \in FileExts :
                \/ touch(n, e) \/ cat(n, e) \/ exec(n, e) \/ rm(n, e)
                \/ CpRefused(n, e)
                \/ \E m \in TypedNames, x \in FileExts : CpToFile(n, e, m, x)
                \/ \E path \in Paths(TypedNames \ {DOTDOT}) : CpToPath(n, e, path)

Continue == fault = "none" /\ (CdStep \/ EchoWrite \/ CpWalk \/ CpWrite \/ CpBack)

ShellNext ==
    \/ Command
    \/ Continue
    \/ Stopped /\ UNCHANGED shellVars

ShellSpec == ShellInit /\ [][ShellNext]_allVars
-----------------------------------------------------------------------------
(* Properties.                                                             *)

\* The cluster cd reaches from the root along a path of names.
Reached(path) ==
    LET at[i \in 0 .. Len(path)] ==
            IF i = 0 THEN ROOT ELSE ChildOf(at[i - 1], path[i])
    IN  at[Len(path)]

\* The directory shown in the prompt is the working directory: whatever the
\* commands do, current_dir names a path that leads from the root to
\* cwd_cluster_number, so no command removes a folder one is in.
PromptIsTrue == fault = "none" => Reached(current_dir) = cwd /\ cwd \in Folders

\* cp counts its moves and takes them back: at its end the shell is in the
\* folder where cp was entered. (Not when a cluster number does not fit in a
\* byte, which leaves the next call's retcode wrong, nor when a file bears the
\* extension of folders: both count as moves.)
CpReturns ==
    [][ /\ job.op = "back" /\ job' = Prompt
        /\ \A c \in Folders : c < ByteSize
        /\ \A c \in Folders : \A i \in Used(c) :
               store[c][i].ext = DirExt => store[c][i].attr
        => cwd' = job.home ]_allVars

\* echo deletes the file it finds before it writes it again; the write finds
\* the cluster and the slot delete gave back, so the file is never lost, and
\* an echo into a cluster that is no folder touches nothing.
EchoKeepsFile ==
    [][ job.op = "echo" /\ job' = Prompt =>
            /\ fault' = "none"
            /\ IF job.found THEN ret' = 0 ELSE UNCHANGED <<fat, store>> ]_allVars

\* The help text: "rm [file]". What rm removes has the name, and the extension,
\* that were typed.
RmRemovesNamed ==
    [][ \A n \in TypedNames, e \in FileExts :
            rm(n, e) =>
                \A i \in Used(cwd) :
                    ~store'[cwd][i].used => /\ store[cwd][i].name \in Unpadded(n)
                                            /\ store[cwd][i].ext = e ]_allVars
=============================================================================
