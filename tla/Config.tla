------------------------------- MODULE Config -------------------------------
(***************************************************************************)
(* Config (src/src/lib/config.h): processes of one program, each of which  *)
(* reads the same ini file when it starts, or writes it with its defaults  *)
(* if it is not there.  A step ends at a system call: the test for the     *)
(* file, its truncation, the write, the measuring of its size and the read *)
(* are different steps of different processes, without a lock.             *)
(*                                                                         *)
(* The size of a text is its number of lines, each ended by a newline, so  *)
(* that a short read cuts between lines.  Nobody removes the file.         *)
(***************************************************************************)
EXTENDS MINI

CONSTANTS Procs,    \* the processes
          NoFile,   \* there is no ini file
          Presets,  \* what a program may put into the map before Init
          Texts     \* what an administrator may put into the file

\* A name of zero bytes, which parse makes of what it did not read.
Nul == "NUL"

ASSUME ConfigAssumption ==
    /\ Texts \subseteq Seq(Lines)
    /\ \A m \in Presets : IsMap(m)
    /\ Nul \in Names

VARIABLES
    file,    \* the ini file's text, or NoFile
    config,  \* config[p]: the map of process p
    size,    \* size[p]: tellg() in parseFile, 0 outside
    pc       \* pc[p]: where the main function of p is

configVars == <<file, config, size>>

NoConfig == << >>

ConfigInit ==
    /\ file = NoFile
    /\ config = [p \in Procs |-> NoConfig]
    /\ size = [p \in Procs |-> 0]

\* fileExists.
CheckFile(p) ==
    /\ pc[p] = "init"
    /\ pc' = [pc EXCEPT ![p] = IF file = NoFile THEN "create" ELSE "open"]
    /\ UNCHANGED configVars

\* dumpFile: the ofstream truncates what another process may have written.
OpenTruncated(p) ==
    /\ pc[p] = "create"
    /\ file' = << >>
    /\ pc' = [pc EXCEPT ![p] = "write"]
    /\ UNCHANGED <<config, size>>

\* The write, from the beginning of what is there by then.
WriteDump(p) ==
    /\ pc[p] = "write"
    /\ LET text == Dump(config[p])
       IN  file' = text \o SubSeq(file, Len(text) + 1, Len(file))
    /\ pc' = [pc EXCEPT ![p] = "configured"]
    /\ UNCHANGED <<config, size>>

\* The file cannot be opened or written: nobody looks, Init returns true.
DumpFails(p) ==
    /\ pc[p] \in {"create", "write"}
    /\ pc' = [pc EXCEPT ![p] = "configured"]
    /\ UNCHANGED configVars

\* parseFile, up to tellg.
OpenToRead(p) ==
    /\ pc[p] = "open"
    /\ size' = [size EXCEPT ![p] = Len(file)]
    /\ pc' = [pc EXCEPT ![p] = "read"]
    /\ UNCHANGED <<file, config>>

\* The file cannot be read: Init returns false, main returns 1.
OpenFails(p) ==
    /\ pc[p] = "open"
    /\ config' = [config EXCEPT ![p] = NoConfig]
    /\ pc' = [pc EXCEPT ![p] = "rejected"]
    /\ UNCHANGED <<file, size>>

\* What read leaves in a buffer of size[p]: a file that shrank leaves zero
\* bytes at its end, which parse takes for a name.
Buffer(p) ==
    IF size[p] > Len(file) THEN Append(file, Pair(Nul, ""))
                           ELSE SubSeq(file, 1, size[p])

\* The rest of parseFile.  If parse throws, Init returns false.
ReadFile(p) ==
    /\ pc[p] = "read"
    /\ size' = [size EXCEPT ![p] = 0]
    /\ \/ /\ Trimmable(Buffer(p))
          /\ config' = [config EXCEPT ![p] = Parse(Buffer(p), @)]
          /\ pc' = [pc EXCEPT ![p] = "configured"]
       \/ /\ ~Trimmable(Buffer(p))
          /\ config' = [config EXCEPT ![p] = NoConfig]
          /\ pc' = [pc EXCEPT ![p] = "rejected"]
    /\ UNCHANGED file

\* An administrator writes the file.
Edit ==
    /\ file' \in Texts
    /\ UNCHANGED <<config, size, pc>>

InitConfig(p) ==
    \/ CheckFile(p) \/ OpenTruncated(p) \/ WriteDump(p) \/ DumpFails(p)
    \/ OpenToRead(p) \/ OpenFails(p) \/ ReadFile(p)

-----------------------------------------------------------------------------
(* What an ini file means, without parse's loop.                           *)

\* The section of line i, and the lines that give key k a value.
SectionAt(text, i) ==
    LET above == {j \in 1 .. i : text[j].kind = "section"}
    IN  IF above = {} THEN "" ELSE text[Max(above)].tag

LinesOf(text, k) ==
    {i \in DOMAIN text :
        text[i].kind = "pair" /\ k = <<SectionAt(text, i), text[i].name>>}

\* A process that reads the file whole has, for every key the file names, the
\* last value it gives, under its section, and for every other key the default
\* it had; a default without a dot is therefore never overridden.  A file with a
\* line that cannot be trimmed is rejected, and no other: a process that finds the
\* file empty, because one died between truncation and write, has its defaults.
ConfigReads ==
    [][\A p \in Procs : ReadFile(p) /\ size[p] = Len(file) =>
        IF ~Trimmable(file)
        THEN pc'[p] = "rejected"
        ELSE /\ pc'[p] = "configured"
             /\ \A k \in Keys :
                  LET lines == LinesOf(file, k)
                  IN  IF lines = {}
                      THEN /\ k \in DOMAIN config'[p] <=> k \in DOMAIN config[p]
                           /\ k \in DOMAIN config[p] => config'[p][k] = config[p][k]
                      ELSE /\ k \in DOMAIN config'[p]
                           /\ config'[p][k] = file[Max(lines)].val]_<<file, config, size, pc>>
=============================================================================
