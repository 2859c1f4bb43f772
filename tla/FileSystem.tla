----------------------------- MODULE FileSystem -----------------------------
(***************************************************************************)
(* The files that the input module works on: the system calls of POSIX as  *)
(* service/src/input_module.c uses them, one byte at a time.  External     *)
(* code: only what input_module.c can observe is here.                     *)
(*                                                                         *)
(* disk.names gives the file of each name, disk.content the bytes of each  *)
(* file, and disk.open the open descriptors of the input module.  Stdin    *)
(* and Stdout are files without a name and without an offset to seek.      *)
(***************************************************************************)
EXTENDS Integers, SequencesExt, TLC

\* The descriptors that neither stderr nor the memory of the queues occupies.
CONSTANT Descriptors

ASSUME DescriptorsAssumption == Descriptors \subseteq Nat /\ {0, 1} \subseteq Descriptors

Stdin == 0
Stdout == 1
Terminals == {Stdin, Stdout}

\* names: the files there are, by name, all of them empty.
InitialDisk(input, names) ==
    [names |-> [n \in names |-> 2 + n],
     content |-> [f \in Terminals \cup {2 + n : n \in names} |->
                     IF f = Stdin THEN input ELSE <<>>],
     open |-> [d \in {0, 1} |->
                  [file |-> d, offset |-> 0, reads |-> d = 0, writes |-> d = 1]]]

\* What a call returns, with the disk it leaves behind.
Answer(disk, result) == [disk |-> disk, result |-> result]

\* open(name, flags): the lowest free descriptor, or -1.
Open(disk, name, reads, writes, creates, truncates) ==
    LET free == Descriptors \ DOMAIN disk.open
        exists == name \in DOMAIN disk.names
        file == IF exists THEN disk.names[name] ELSE 1 + Max(DOMAIN disk.content)
        content == IF exists /\ ~truncates THEN disk.content[file] ELSE <<>>
    IN  IF free = {} \/ (~exists /\ ~creates)
        THEN Answer(disk, -1)
        ELSE Answer(
               [names |-> (name :> file) @@ disk.names,
                content |-> (file :> content) @@ disk.content,
                open |-> (Min(free) :> [file |-> file, offset |-> 0,
                                        reads |-> reads, writes |-> writes]) @@ disk.open],
               Min(free))

Readable(disk, fd) == fd \in DOMAIN disk.open /\ disk.open[fd].reads
Writable(disk, fd) == fd \in DOMAIN disk.open /\ disk.open[fd].writes

\* The bytes that are still to be read.
Rest(disk, fd) ==
    LET d == disk.open[fd]
    IN  SubSeq(disk.content[d.file], d.offset + 1, Len(disk.content[d.file]))

\* read(fd, &byte, 1): 1, 0 at the end, or -1.
Read(disk, fd) ==
    IF ~Readable(disk, fd) THEN Answer(disk, -1)
    ELSE IF Rest(disk, fd) = <<>> THEN Answer(disk, 0)
    ELSE Answer([disk EXCEPT !.open[fd].offset = @ + 1], 1)

\* Byte number n of a file becomes byte; a gap before it is filled with zeros.
PutByte(content, n, byte) ==
    [i \in 1 .. (IF n > Len(content) THEN n ELSE Len(content)) |->
        IF i = n THEN byte ELSE IF i > Len(content) THEN 0 ELSE content[i]]

\* write(fd, &byte, 1): 1 or -1.
Write(disk, fd, byte) ==
    IF ~Writable(disk, fd) THEN Answer(disk, -1)
    ELSE Answer([disk EXCEPT
                    !.open[fd].offset = @ + 1,
                    !.content[disk.open[fd].file] =
                        IF disk.open[fd].file \in Terminals
                        THEN Append(@, byte)
                        ELSE PutByte(@, disk.open[fd].offset + 1, byte)], 1)

\* Data on stdout, through whichever process.
Display(disk, data) == [disk EXCEPT !.content[Stdout] = Append(@, data)]

\* system("/bin/ls"): the names, in order, on stdout.
List(disk) ==
    Answer([disk EXCEPT !.content[Stdout] = @ \o SetToSortSeq(DOMAIN disk.names, <)], 0)

\* close(fd).
Close(disk, fd) ==
    IF fd \in DOMAIN disk.open
    THEN Answer([disk EXCEPT !.open = Restrict(@, DOMAIN @ \ {fd})], 0)
    ELSE Answer(disk, -1)

\* unlink(name): a descriptor of the file stays usable.
Unlink(disk, name) ==
    IF name \in DOMAIN disk.names
    THEN Answer([disk EXCEPT !.names = Restrict(@, DOMAIN @ \ {name})], 0)
    ELSE Answer(disk, -1)

\* lseek(fd, offset, SEEK_SET).
Seek(disk, fd, offset) ==
    IF fd \in DOMAIN disk.open /\ disk.open[fd].file \notin Terminals /\ offset >= 0
    THEN Answer([disk EXCEPT !.open[fd].offset = offset], offset)
    ELSE Answer(disk, -1)
=============================================================================
