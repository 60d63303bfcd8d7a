---------------------------- MODULE PackageIndex ----------------------------
(***************************************************************************)
(* The package index, bse/package_index.cpp: entries with a path and a     *)
(* range of bytes, written as a manifest of one line per entry.  Offsets   *)
(* and sizes are 64 bits wide and wrap, as ids do.                         *)
(***************************************************************************)
EXTENDS TextLines

CONSTANTS
  Letters,      \* the symbols of paths, in the order of their characters
  VersionSpace  \* how many values a version has: 2^32

ASSUME VersionAssumption == VersionSpace \in Nat \ {0}

Kinds == {"scene", "texture", "material_library", "metadata", "unknown"}

EndOf(entry) == (entry.offset + entry.size) % IdSpace

ByOffset(entries) == StableSort(entries, LAMBDA e : e.offset)

(* Variant: the end of a range is not compared with its beginning.         *)
ValidUnlessOverlapping(index) ==
  LET entries == ByOffset(index.entries)
  IN /\ index.name # << >>
     /\ \A e \in Range(entries) : e.path # << >>
     /\ \A i, j \in DOMAIN entries : i # j => entries[i].path # entries[j].path
     /\ \A i \in 2..Len(entries) : entries[i].offset >= EndOf(entries[i - 1])

(* ValidatePackageIndex: only neighbours in the order of their offsets are *)
(* compared.                                                               *)
ValidatePackageIndex(index) ==
  LET entries == ByOffset(index.entries)
  IN /\ index.name # << >>
     /\ \A e \in Range(entries) : e.path # << >> /\ EndOf(e) >= e.offset
     /\ \A i, j \in DOMAIN entries : i # j => entries[i].path # entries[j].path
     /\ \A i \in 2..Len(entries) : entries[i].offset >= EndOf(entries[i - 1])

(* Variant: backslashes are written as they are.                           *)
EscapeBarsOnly(text) == Substituted(text, LAMBDA c : IF c = "|" THEN <<"\\", c>> ELSE <<c>>)

Escape(text) == Substituted(text, LAMBDA c : IF c \in {"\\", "|"} THEN <<"\\", c>> ELSE <<c>>)

Unescape(text) ==
  LET step(state, c) ==
        IF state.escaped \/ c # "\\" THEN [out |-> Append(state.out, c), escaped |-> FALSE]
                                     ELSE [state EXCEPT !.escaped = TRUE]
      end == Seqs!FoldLeft(step, [out |-> << >>, escaped |-> FALSE], text)
  IN IF end.escaped THEN Append(end.out, "\\") ELSE end.out

SplitEscapedPipes(text) ==
  LET step(state, c) ==
        IF state.escaped THEN [state EXCEPT !.current = @ \o <<"\\", c>>, !.escaped = FALSE]
        ELSE IF c = "\\" THEN [state EXCEPT !.escaped = TRUE]
        ELSE IF c = "|" THEN [state EXCEPT !.parts = Append(@, Trim(state.current)),
                                           !.current = << >>]
        ELSE [state EXCEPT !.current = Append(@, c)]
      start == [parts |-> << >>, current |-> << >>, escaped |-> FALSE]
      end == Seqs!FoldLeft(step, start, text)
      last == IF end.escaped THEN Append(end.current, "\\") ELSE end.current
  IN Append(end.parts, Trim(last))

-----------------------------------------------------------------------------
(* WritePackageManifest.                                                   *)

PathLess(a, b) ==
  LET Place(c) == Seqs!SelectInSeq(Letters, LAMBDA letter : letter = c)
  IN \E n \in 0..Len(a) :
       /\ n < Len(b) /\ SubSeq(a, 1, n) = SubSeq(b, 1, n)
       /\ n = Len(a) \/ Place(a[n + 1]) < Place(b[n + 1])

(* In the order of offsets, and of paths where offsets are equal.          *)
InFileOrder(entries) ==
  SortSeq(entries, LAMBDA a, b : \/ a.offset < b.offset
                                 \/ a.offset = b.offset /\ PathLess(a.path, b.path))

PackageLine(index) ==
  <<"package", " ", "name", "=">> \o Escape(index.name)
    \o <<" ", "version", "=">> \o NumberText(index.version)
EntryLine(e) ==
  <<"entry", "|">> \o Escape(e.path) \o <<"|", e.kind, "|">> \o NumberText(e.offset)
    \o <<"|">> \o NumberText(e.size) \o <<"|">> \o NumberText(e.checksum)

WritePackageManifest(index) ==
  Substituted(<<PackageLine(index)>> \o Mapped(InFileOrder(index.entries), EntryLine),
              LAMBDA line : Append(line, Newline))

-----------------------------------------------------------------------------
(* ParsePackageManifest, a line at a time.                                 *)

EmptyIndex == [name |-> << >>, version |-> 1, entries |-> << >>]

IsPackageLine(line) == Len(line) > 1 /\ line[1] = "package" /\ line[2] = " "
IsEntryLine(line) == Len(line) > 1 /\ line[1] = "entry" /\ line[2] = "|"

(* The fields of a package line, apart by blanks; what is not key=value is *)
(* passed over, and a later field replaces an earlier one.                 *)
Values(line, key) ==
  LET fields == SelectSeq(Mapped(Pieces(SubSeq(line, 3, Len(line)), " "), Trim),
                          LAMBDA f : Find(f, "=") # 0 /\ Before(f, "=") = <<key>>)
  IN Mapped(fields, LAMBDA f : After(f, "="))

ManifestLineIsGood(line) ==
  \/ /\ IsPackageLine(line)
     /\ \A version \in Range(Values(line, "version")) : IsNumber(version)
  \/ /\ ~IsPackageLine(line) /\ IsEntryLine(line)
     /\ LET parts == SplitEscapedPipes(line)
        IN /\ Len(parts) = 6
           /\ parts[3] \in {<<kind>> : kind \in Kinds}
           /\ IsNumber(parts[4]) /\ IsNumber(parts[5]) /\ IsNumber(parts[6])

(* ParseU64: strtoull answers the largest number for those that are larger.*)
ParseU64(text) == IF NumberOf(text) < IdSpace THEN NumberOf(text) ELSE IdSpace - 1

AddManifestLine(index, line) ==
  LET parts == SplitEscapedPipes(line)
      names == Values(line, "name")
      versions == Values(line, "version")
  IN IF IsPackageLine(line)
       THEN [index EXCEPT !.name = IF names = << >> THEN @ ELSE Unescape(names[Len(names)]),
                          !.version = IF versions = << >> THEN @
                                      ELSE ParseU64(versions[Len(versions)]) % VersionSpace]
       ELSE [index EXCEPT !.entries =
               Append(@, [path |-> Unescape(parts[2]), kind |-> parts[3][1],
                          offset |-> ParseU64(parts[4]), size |-> ParseU64(parts[5]),
                          checksum |-> ParseU64(parts[6])])]

FinishManifest(index) == [ok |-> ValidatePackageIndex(index), value |-> index]
=============================================================================
