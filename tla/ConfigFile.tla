------------------------------ MODULE ConfigFile -----------------------------
(***************************************************************************)
(* raifull.conf and what xlab_config.c makes of it, line by line (Startup  *)
(* reads the lines).  A line is what its first characters make the parser  *)
(* take it for, with the number of its leading blanks.  Errors in a file   *)
(* are only logged: the parser goes on with whatever it has.               *)
(***************************************************************************)
EXTENDS Integers, Sequences

XLAB_DEFAULT_SERVER_PORT == 2001
XLAB_WORKERS_DEFAULT == 1
DefaultRequestSize == 8 * 4096

Ports == 2 .. 65534
ShortSpan == 32768
Shorts == 1 .. ShortSpan - 1   \* the positive ones

Blank == [kind |-> "blank"]     \* empty, or a comment in the first column
Section(name) == [kind |-> "section", name |-> name]
Entry(ind, key, val) == [kind |-> "entry", ind |-> ind, key |-> key, val |-> val]
Bare(ind) == [kind |-> "bare", ind |-> ind]    \* one word: a key without a value
Note(ind) == [kind |-> "note", ind |-> ind]    \* an indented comment, blanks

Line ==
    {Blank} \cup [kind : {"section"}, name : STRING]
            \cup [kind : {"entry"}, ind : Nat, key : STRING \ {"NULL"}, val : Int]
            \cup [kind : {"bare", "note"}, ind : Nat]

-----------------------------------------------------------------------------
(* xlab_config_create.                                                     *)

(* What is known after some lines: the sections in their order, the length *)
(* of the indentation (0 while it is not known), and whether the list of   *)
(* sections still is one.                                                  *)
NoLines == [sections |-> <<>>, indent |-> 0, intact |-> TRUE]

xlab_config_section_add(conf, name) ==
    [conf EXCEPT !.sections = Append(@, [name |-> name, entries |-> <<>>])]

(* Mutant of xlab_config_entry_add: the first section gets all entries. *)
EntryToFirst(conf, key, val) ==
    IF conf.sections = <<>>
      THEN [conf EXCEPT !.intact = FALSE]
      ELSE [conf EXCEPT !.sections[1].entries =
              Append(@, [key |-> key, val |-> val])]

(* The entry goes into the last section.  Without a section the last one   *)
(* of the empty list is the list itself, and the entry is written over it. *)
xlab_config_entry_add(conf, key, val) ==
    IF conf.sections = <<>>
      THEN [conf EXCEPT !.intact = FALSE]
      ELSE [conf EXCEPT !.sections[Len(conf.sections)].entries =
              Append(@, [key |-> key, val |-> val])]

(* The first line that is no header sets the indentation: its leading      *)
(* blanks, or its first character if that is none.                         *)
Indent(conf, line) ==
    IF conf.indent # 0 THEN conf.indent
    ELSE IF line.ind = 0 THEN 1 ELSE line.ind

(* Mutant of KeyRead: an indentation that is too short leaves no key. *)
KeyReadShort(line, n) ==
    IF line.kind \in {"bare", "entry"} /\ line.ind < n THEN "NULL"
    ELSE IF line.kind = "entry" /\ line.ind = n THEN line.key ELSE "unknown"

(* The key that is read behind n characters: NULL if no blank follows it;  *)
(* empty if a blank stands there; cut at its beginning if n is too many.   *)
KeyRead(line, n) ==
    IF line.kind = "bare" /\ line.ind <= n THEN "NULL"
    ELSE IF line.kind = "entry" /\ line.ind = n THEN line.key ELSE "unknown"

(* One round of the loop.                                                  *)
ReadLine(conf, line) ==
    CASE line.kind = "blank" -> conf
      [] line.kind = "section" -> xlab_config_section_add(conf, line.name)
      [] OTHER ->
           LET n == Indent(conf, line)
               known == [conf EXCEPT !.indent = n]
               val == IF line.kind = "entry" THEN line.val ELSE 0
           IN IF line.kind = "note" /\ line.ind = n
                THEN known
                ELSE xlab_config_entry_add(known, KeyRead(line, n), val)

-----------------------------------------------------------------------------
(* xlab_config_read_files.                                                 *)

First(S) == CHOOSE i \in S : \A j \in S : i <= j

Named(conf, name) ==
    {i \in 1 .. Len(conf.sections) : conf.sections[i].name = name}

xlab_config_section_get(conf, name) ==
    conf.sections[First(Named(conf, name))].entries

(* The entry the search for a key ends at; it can not pass a NULL key.     *)
Stops(entries, key) ==
    {i \in 1 .. Len(entries) : entries[i].key \in {key, "NULL"}}

SearchFails(entries, key) ==
    /\ Stops(entries, key) # {}
    /\ entries[First(Stops(entries, key))].key = "NULL"

(* What is not there reads as zero. *)
xlab_config_section_getval(entries, key) ==
    IF Stops(entries, key) = {} THEN 0
                                ELSE entries[First(Stops(entries, key))].val

(* Reading the configuration crashes on the overwritten list, the missing  *)
(* section, and the missing key.                                           *)
Crashes(conf) ==
    conf.intact /\ Named(conf, "SERVER") # {} =>
        \E key \in {"Listen", "Port", "Workers", "MaxRequestSize"} :
            SearchFails(xlab_config_section_get(conf, "SERVER"), key)

ToShort(n) == ((n + ShortSpan) % (2 * ShortSpan)) - ShortSpan

(* Mutant of PortOf: off by one. *)
PortUpTo65535(n) == IF n \in 2 .. 65535 THEN n ELSE XLAB_DEFAULT_SERVER_PORT

PortOf(n) == IF n \in Ports THEN n ELSE XLAB_DEFAULT_SERVER_PORT

(* A short below one is replaced. *)
WorkersOf(n) ==
    IF ToShort(n) \in Shorts THEN ToShort(n) ELSE XLAB_WORKERS_DEFAULT

(* Kilobytes; larger numbers than an int holds are left out. *)
SizeOf(n) == IF n \in Nat \ {0} THEN n * 1024 ELSE DefaultRequestSize

(* Division of C. *)
Quotient(a, b) == IF a >= 0 THEN a \div b ELSE -((-a) \div b)

(* Mutant of xlab_server_worker_capacity: nothing is kept for the server.  *)
CapacityUnreserved(nworkers, limit) == Quotient(limit, nworkers)

(* Three standard descriptors, the listening socket, an epoll instance per *)
(* worker and three more are set aside, and half of the rest.              *)
xlab_server_worker_capacity(nworkers, limit) ==
    Quotient(Quotient(limit - (3 + 1 + nworkers + 1 + 2), 2), nworkers)

ConfigOf(port, workers, capacity, size) ==
    [serverport |-> port, workers |-> workers, worker_capacity |-> capacity,
     max_request_size |-> size]

(* Without a directory or a file the function returns before it has        *)
(* computed the capacity: it still is the zero of malloc_z.                *)
NotRead ==
    ConfigOf(XLAB_DEFAULT_SERVER_PORT, XLAB_WORKERS_DEFAULT, 0, DefaultRequestSize)

xlab_config_read_files(conf, limit) ==
    LET server == xlab_config_section_get(conf, "SERVER")
        val(key) == xlab_config_section_getval(server, key)
        n == WorkersOf(val("Workers"))
    IN ConfigOf(PortOf(val("Port")), n, xlab_server_worker_capacity(n, limit),
                SizeOf(val("MaxRequestSize")))

-----------------------------------------------------------------------------
(* What a file means to who writes it.                                     *)

IsEntry(line) == line.kind \in {"entry", "note"}

Headers(lines) == {h \in 1 .. Len(lines) : lines[h].kind = "section"}
Servers(lines) == {h \in Headers(lines) : lines[h].name = "SERVER"}

(* Lines of some kinds that stand before every header. *)
Orphans(lines, kinds) ==
    {i \in 1 .. Len(lines) :
        lines[i].kind \in kinds /\ \A h \in Headers(lines) : i < h}

(* Headers first, one indentation, a value for every key, and numbers of   *)
(* 16 bits (65538 workers are taken for two).                              *)
Regular(lines) ==
    /\ \A i \in 1 .. Len(lines) :
         IsEntry(lines[i]) =>
           /\ lines[i].ind > 0
           /\ \E h \in Headers(lines) : h < i
           /\ \A j \in 1 .. Len(lines) :
                 IsEntry(lines[j]) => lines[j].ind = lines[i].ind
    /\ \A i \in 1 .. Len(lines) :
         /\ lines[i].kind # "bare"
         /\ lines[i].kind = "entry" => lines[i].val \in 0 .. 2 * ShortSpan - 1

WellFormed(lines) == Regular(lines) /\ Servers(lines) # {}

(* The lines that give the server a value for a key: those between the     *)
(* first header of the server and the next header.                         *)
Given(lines, key) ==
    {i \in First(Servers(lines)) + 1 .. Len(lines) :
        /\ lines[i].kind = "entry" /\ lines[i].key = key
        /\ \A h \in Headers(lines) : h > First(Servers(lines)) => i < h}

Values(lines, key) == {lines[i].val : i \in Given(lines, key)}

(* The first of them counts, if it is one the program can use. *)
Meant(lines, key, usable, default) ==
    LET val == lines[First(Given(lines, key))].val
    IN IF Given(lines, key) # {} /\ val \in usable THEN val ELSE default
=============================================================================
