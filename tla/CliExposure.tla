---------------------------- MODULE CliExposure ----------------------------
(***************************************************************************)
(* How `mb` becomes a command of the user's shell (assets.rs of the        *)
(* command line tool): it is on the PATH already, or a launcher is put     *)
(* into a directory of the PATH, or the start-up files of the shell source *)
(* ~/.memory_bank/env.sh.                                                  *)
(*                                                                         *)
(* A home is a record:                                                     *)
(*   shell     "zsh", "bash" or another                                    *)
(*   onPath    what `mb` is on the PATH: "none", "ours" (the program or    *)
(*             its launcher) or "foreign"                                  *)
(*   binDir    ~/.memory_bank/bin is on the PATH                           *)
(*   localBin  what ~/.local/bin or ~/bin holds, if it is on the PATH:     *)
(*             "off", "free", or "kept" with an `mb` that cannot run       *)
(*   envFile   env.sh is there as it should be                             *)
(*   rc        the start-up files by name, each a sequence of lines, or    *)
(*             NoFile                                                      *)
(*   torn      a history variable: the start-up files whose overwriting    *)
(*             broke off                                                   *)
(* A line is a string; the lines of Memory Bank's block are named here and *)
(* all others are the user's.                                              *)
(***************************************************************************)
EXTENDS Naturals, Sequences, SequencesExt, Lists

CONSTANT NoFile

RcFiles == {".zprofile", ".zshrc", ".bash_profile", ".bash_login", ".profile", ".bashrc"}

Start == "# >>> Memory Bank >>>"
End == "# <<< Memory Bank <<<"
Block == <<Start, "source env.sh", End>>
OurLines == {Start, "source env.sh", "old line", End}

\* Any line; ours are strings too, which the provers have to be told.
AnyLine == OurLines \cup STRING

ASSUME NoFileIsNoList == NoFile \notin Seq(AnyLine)

\* The first of the login files of bash that exists.
BashLoginFile(rc) ==
  IF rc[".bash_profile"] # NoFile THEN ".bash_profile"
  ELSE IF rc[".bash_login"] # NoFile THEN ".bash_login"
  ELSE IF rc[".profile"] # NoFile THEN ".profile" ELSE ".bash_profile"

\* The login file comes first.
LoginFile(home) ==
  CASE home.shell = "zsh" -> ".zprofile"
    [] home.shell = "bash" -> BashLoginFile(home.rc)
    [] OTHER -> ".profile"

Targets(home) ==
  {LoginFile(home)} \cup (CASE home.shell = "zsh" -> {".zshrc"}
                           [] home.shell = "bash" -> {".bashrc"}
                           [] OTHER -> {})

Lines(file) == IF file = NoFile THEN <<>> ELSE file

HasBlock(file) ==
  \E i \in 1..(Len(Lines(file)) - 2) : SubSeq(Lines(file), i, i + 2) = Block

\* From the first line that starts a block to the first after it that ends
\* one, whatever lies between; without both the block goes to the end.
ReplaceOrAppendBlock(lines) ==
  LET starts == {i \in DOMAIN lines : lines[i] = Start}
      first == CHOOSE i \in starts : \A j \in starts : i <= j
      ends == {i \in DOMAIN lines : lines[i] = End /\ i > first}
      last == CHOOSE i \in ends : \A j \in ends : i <= j IN
  IF starts = {} \/ ends = {} THEN lines \o Block
  ELSE SubSeq(lines, 1, first - 1) \o Block \o SubSeq(lines, last + 1, Len(lines))

WithBlock(file) == IF HasBlock(file) THEN file ELSE ReplaceOrAppendBlock(Lines(file))

\* ensure_cli_exposure_with_context: the `mb` found first decides.
CliCollides(home) ==
  \/ home.onPath = "foreign"
  \/ home.onPath = "none" /\ ~home.binDir /\ home.localBin = "kept"

\* env.sh and then the block in these files.
Sourced(home, done) ==
  [home EXCEPT !.envFile = TRUE,
               !.rc = [file \in RcFiles |-> IF file \in done THEN WithBlock(@[file]) ELSE @[file]]]

\* Nothing is left to be done, or can be.
Settled(home) == CliCollides(home) \/ home.onPath = "ours" \/ home.binDir

EnsureCliExposure(home) ==
  IF Settled(home) THEN home
  ELSE IF home.localBin = "free" THEN [home EXCEPT !.onPath = "ours"]
  ELSE Sourced(home, Targets(home))

\* The file is overwritten in place, and only its first lines get there.
TornFile(home, file, lines) ==
  LET before == {LoginFile(home)} \ {file} IN
  [Sourced(home, before) EXCEPT !.rc[file] = SubSeq(WithBlock(home.rc[file]), 1, lines),
                                !.torn = @ \cup {file}]

\* What is there when the exposure breaks off: a launcher that cannot run and is
\* not recognised, a part of env.sh, or env.sh and some of the start-up files, one
\* of them perhaps in part.
BrokenExposures(home) ==
  IF Settled(home) THEN {}
  ELSE IF home.localBin = "free" THEN {[home EXCEPT !.localBin = "kept"]}
  ELSE {[home EXCEPT !.envFile = FALSE], Sourced(home, {}), Sourced(home, {LoginFile(home)})}
       \cup UNION {{TornFile(home, file, lines) : lines \in 0..(Len(WithBlock(home.rc[file])) - 1)} :
                     file \in {f \in Targets(home) : ~HasBlock(home.rc[f])}}

\* What the doctor finds; the program itself is looked for apart from it.
CliExposed(home) ==
  \/ home.onPath = "ours"
  \/ home.onPath = "none" /\ home.binDir
  \/ /\ home.onPath = "none" /\ home.envFile
     /\ \A file \in Targets(home) : HasBlock(home.rc[file])

UserLines(file) == Picked(Lines(file), {i \in DOMAIN Lines(file) : Lines(file)[i] \notin OurLines})

\* Between the start of the block that is replaced and its end there is nothing else.
OwnBlock(lines) ==
  \A i, k \in DOMAIN lines :
    /\ lines[i] = Start /\ \A j \in 1..(i - 1) : lines[j] # Start
    /\ lines[k] = End /\ i < k /\ \A j \in i..(k - 1) : lines[j] # End
    => \A j \in i..k : lines[j] \in OurLines
=============================================================================
