-------------------------------- MODULE Path --------------------------------
(***************************************************************************)
(* Class path (filesystem/path.cpp): a string that is taken apart, edited  *)
(* and put together as a path of Windows.  What is a drive, a file name or *)
(* an extension is asked anew of the whole string by every method.         *)
(*                                                                         *)
(* A definition named X_Y is X with the fault Y.                           *)
(***************************************************************************)
EXTENDS Naturals, Sequences, FiniteSets, SequencesExt

CONSTANTS
  Chars,         \* characters of a path, the terminator "nul" too
  DriveLetters,  \* those that can name a drive
  Inputs,        \* strings that a user gives to a method
  Folders,       \* current directories and
  Executables,   \* paths of the executable, as the system tells them: not empty
  MaxLength,     \* bound of a path
  W              \* number of values of size_t

ASSUME PathAssumption ==
  /\ {"\\", "/", ".", ":", "nul"} \subseteq Chars
  /\ DriveLetters \subseteq Chars \ {"\\", "/", ".", ":", "nul"}
  /\ Inputs \cup Folders \cup Executables \subseteq Seq(Chars \ {"nul"})
  /\ MaxLength \in Nat /\ W \in Nat
  /\ <<>> \notin Executables
  /\ \A r \in {<<>>} \cup Inputs \cup Folders \cup Executables :
       2 * (MaxLength + Len(r) + 2) < W

VARIABLE path    \* _Mystr

Npos == W - 1

IsSlash(c) == c \in {"\\", "/"}

\* The first n characters.
Cut(p, n) == SubSeq(p, 1, n)

\* What follows the position k.
After(p, k) == SubSeq(p, k + 2, Len(p))

FindLast(p, c) ==
  LET places == {k \in DOMAIN p : p[k] = c}
  IN  IF places = {} THEN Npos ELSE Max(places) - 1

LastSlash_NoFallback(p) == Max({FindLast(p, "\\"), FindLast(p, "/")})

\* One kind of slash may be missing, which counts as the largest position.
LastSlash(p) ==
  LET last == Max({FindLast(p, "\\"), FindLast(p, "/")})
  IN  IF last = Npos THEN Min({FindLast(p, "\\"), FindLast(p, "/")}) ELSE last

-----------------------------------------------------------------------------
(* Questions.  The first character of an empty string is a terminator.     *)

HasDrive(p) ==
  /\ Len(p) >= 3
  /\ p[2] = ":" /\ IsSlash(p[3])
  /\ p[1] \in DriveLetters

IsAbsolute(p) == HasDrive(p) \/ (p # <<>> /\ IsSlash(p[1]))

\* The last dot of the string counts, whether it is behind the last slash or not.
HasExtension(p) ==
  LET dot == FindLast(p, ".") IN
  /\ dot # Npos /\ dot # Len(p) - 1
  /\ LastSlash(p) # Npos => LastSlash(p) # Len(p) - 1

HasFilename(p) == HasExtension(p)

Drive(p) == IF HasDrive(p) THEN <<p[1], ":", "\\">> ELSE <<>>

Extension(p) == IF HasExtension(p) THEN After(p, FindLast(p, ".")) ELSE <<>>

Filename(p) ==
  IF ~HasFilename(p) THEN <<>>
  ELSE IF LastSlash(p) = Npos THEN p
  ELSE After(p, LastSlash(p))

-----------------------------------------------------------------------------
(* Edits.                                                                  *)

Written(c) == IF c = "/" THEN "\\" ELSE c

JoinsOn_SameSlash(new, c) ==
  IF new # <<>> /\ IsSlash(c) /\ Last(new) = c THEN new ELSE Append(new, Written(c))

\* A slash after a slash is left out.
JoinsOn(new, c) ==
  IF new # <<>> /\ IsSlash(c) /\ IsSlash(Last(new)) THEN new ELSE Append(new, Written(c))

Fixed(p) ==
  LET fixed[k \in 0..Len(p)] == IF k = 0 THEN <<>> ELSE JoinsOn(fixed[k - 1], p[k])
  IN  fixed[Len(p)]

Preferred(p) == [k \in DOMAIN p |-> Written(p[k])]

ExtensionRemoved(p) == IF HasExtension(p) THEN Cut(p, FindLast(p, ".")) ELSE p

FilenameRemoved(p) ==
  IF ~HasFilename(p) THEN p
  ELSE IF LastSlash(p) = Npos THEN <<>>
  ELSE Cut(p, LastSlash(p))

ExtensionReplaced(p, r) ==
  IF HasExtension(p) THEN ExtensionRemoved(p) \o <<".">> \o r ELSE p

FilenameReplaced_NoSlash(p, r) ==
  IF HasFilename(p) THEN FilenameRemoved(p) \o r ELSE p

\* A slash is put before the new name even if nothing is before it.
FilenameReplaced(p, r) ==
  IF HasFilename(p) THEN FilenameRemoved(p) \o <<"\\">> \o r ELSE p

CurrentPath_NotCompared(before, now) ==
  [k \in 1..(Len(before) + 1) |->
     IF Len(now) <= Len(before) /\ k <= Len(now) THEN now[k] ELSE "nul"]

\* The length is asked for in one call and the directory in the next: before is
\* the directory at the first, now at the second.  A directory of another length
\* is given up, and the string takes its terminator with it.
CurrentPath(before, now) ==
  IF Len(now) = Len(before) THEN Append(now, "nul") ELSE <<>>

InFolder(p, before, now) == CurrentPath(before, now) \o <<"\\">> \o p

ByExecutable(p, exe) ==
  IF exe = <<>> THEN <<>> ELSE FilenameRemoved(exe) \o <<"\\">> \o p

-----------------------------------------------------------------------------
(* One action per method.                                                  *)

Becomes(new) == Len(new) <= MaxLength /\ path' = new

Init == path = <<>>

Assign(p) == Becomes(p)
AppendTo(p) == Becomes(path \o p)
PushBack(c) == Becomes(Append(path, c))
Clear == Becomes(<<>>)
Fix == Becomes(Fixed(path))
MakePreferred == Becomes(Preferred(path))
RemoveExtension == Becomes(ExtensionRemoved(path))
RemoveFilename == Becomes(FilenameRemoved(path))
ReplaceExtension(r) == Becomes(ExtensionReplaced(path, r))
ReplaceFilename(r) == Becomes(FilenameReplaced(path, r))

Resize(n, c) ==
  Becomes([k \in 1..n |-> IF k <= Len(path) THEN path[k] ELSE c])

\* p = make_path(p, base): the directory may change between the calls.
MakePath ==
  \/ \E before, now \in Folders : Becomes(InFolder(path, before, now))
  \/ \E exe \in Executables \cup {<<>>} : Becomes(ByExecutable(path, exe))

Next ==
  \/ \E p \in Inputs : Assign(p) \/ AppendTo(p)
  \/ \E c \in Chars : PushBack(c)
  \/ Clear \/ Fix \/ MakePreferred
  \/ RemoveExtension \/ RemoveFilename
  \/ \E r \in Inputs : ReplaceExtension(r) \/ ReplaceFilename(r)
  \/ \E n \in 0..MaxLength, c \in Chars : Resize(n, c)
  \/ MakePath

Spec == Init /\ [][Next]_path

-----------------------------------------------------------------------------
\* Taking the file name or the extension off loses nothing: what is left, the
\* separator and what was taken give the path again, and the separator is the
\* last one, whichever slashes the path mixes.
PartsAddUp ==
  /\ HasFilename(path) =>
       /\ Filename(path) # <<>>
       /\ \A k \in DOMAIN Filename(path) : ~IsSlash(Filename(path)[k])
       /\ \/ FilenameRemoved(path) = <<>> /\ path = Filename(path)
          \/ \E c \in {"\\", "/"} :
               path = FilenameRemoved(path) \o <<c>> \o Filename(path)
  /\ HasExtension(path) =>
       path = ExtensionRemoved(path) \o <<".">> \o Extension(path)

\* The places of p but for a slash right behind a slash, and how many of them there
\* are up to the place k.
Kept(p) == {k \in DOMAIN p : k > 1 => ~(IsSlash(p[k - 1]) /\ IsSlash(p[k]))}
Rank(p, k) == Cardinality({j \in Kept(p) : j <= k})

\* fix() leaves out slashes behind slashes and nothing else, the drive, every folder
\* and the file name stay, and what comes out is in one form that another fix(), or a
\* make_preferred() before it, does not change.  Of the two slashes that a path of a
\* network begins with it leaves one.
FixKeepsMeaning ==
  LET p == Fixed(path) IN
  /\ Len(p) = Cardinality(Kept(path))
  /\ \A k \in Kept(path) : p[Rank(path, k)] = Written(path[k])
  /\ \A k \in DOMAIN p : p[k] # "/"
  /\ \A k \in DOMAIN p \ {1} : ~(IsSlash(p[k - 1]) /\ IsSlash(p[k]))
  /\ Fixed(p) = p /\ Fixed(Preferred(path)) = p
  /\ Drive(p) = Drive(path)
  /\ IsAbsolute(p) = IsAbsolute(path)
  /\ Filename(p) = Filename(path)

PlainName(r) == r # <<>> /\ \A k \in DOMAIN r : ~IsSlash(r[k])

\* What has been put in for a file name is the file name then, in the same folder,
\* and with the old one put back the path is as it was, but with a backslash before
\* its file name: the path is absolute if it was, or if it had no folder, as that
\* backslash is its first character then.  What has been put in for an extension is
\* the extension then, and with the old one put back the path is as it was.
ReplacedIsFound ==
  \A r \in Inputs :
    /\ HasFilename(path) /\ HasFilename(r) /\ PlainName(r) =>
         LET p == FilenameReplaced(path, r) IN
         /\ Filename(p) = r
         /\ FilenameRemoved(p) = FilenameRemoved(path)
         /\ FilenameReplaced(p, Filename(path)) =
              FilenameRemoved(path) \o <<"\\">> \o Filename(path)
         /\ IsAbsolute(p) <=> IsAbsolute(path) \/ FilenameRemoved(path) = <<>>
    /\ HasExtension(path) /\ PlainName(r) /\ FindLast(r, ".") = Npos =>
         LET p == ExtensionReplaced(path, r) IN
         /\ Extension(p) = r
         /\ ExtensionReplaced(p, Extension(path)) = path

\* What the system reads of a string.
Seen(p) ==
  LET ends == {k \in DOMAIN p : p[k] = "nul"}
  IN  IF ends = {} THEN p ELSE Cut(p, Min(ends) - 1)

\* However the directory changes between the two calls of current_path(), a path
\* made in it is never a torn one: for the system it is the directory as it was at
\* the second call (the terminator hides the rest), or the path from the root of
\* the drive.  A path made beside the executable keeps the file name.
MadeWhole ==
  /\ \A before, now \in Folders :
       Seen(InFolder(path, before, now)) \in {now, Seen(<<"\\">> \o path)}
  /\ \A exe \in Executables :
       HasFilename(path) => Filename(ByExecutable(path, exe)) = Filename(path)
=============================================================================
