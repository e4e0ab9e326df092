--------------------------- MODULE FileWrites_proofs ---------------------------
(***************************************************************************)
(* write_text_atomic and _write_text_maybe_sudo, for any writers, writes and *)
(* losses of power: what a reader finds, and what lasts.                    *)
(***************************************************************************)
EXTENDS FileWrites, SequenceTheorems, TLAPS

Mark == (Writer \cup {"before", "hole"}) \X Nat
Inode == [text : Seq(Mark), wide : BOOLEAN]
Name == Writer \cup {"path", "unit.tmp"}
M(p) == <<p, version[p]>>

(* No writer in the way of a unit file or of `install`.                     *)
NoneInPlace == Only({"atomic", "plain"})
AllAtomic == Only({"atomic"})

Fills(p) == step[p] \in {"write", "write rest", "sync", "mode", "replace"}

FileTypeOK ==
  /\ way \in [Writer -> Ways]
  /\ step \in [Writer -> {"start", "write", "write rest", "sync", "mode", "replace",
                          "sync directory", "stopped"}]
  /\ own \in [Writer -> Nat \cup {NoInode}]
  /\ version \in [Writer -> Nat] /\ writes \in Nat /\ outages \in Nat
  /\ file \in Seq(Inode)
  /\ entry \in [Name -> Nat \cup {NoInode}]
  /\ replaced \in Seq(Mark)
  /\ pending \subseteq DOMAIN file

(* A writer fills an inode of its own, which has its temporary name and has   *)
(* never been the path.                                                     *)
OwnInode ==
  /\ \A p \in Writer : Fills(p) => /\ own[p] \in DOMAIN file \ pending
                                   /\ entry[p] = own[p]
  /\ \A p, q \in Writer : Fills(p) /\ Fills(q) /\ own[p] = own[q] => p = q
  /\ \A p \in Writer : step[p] \in {"start", "sync directory"} => entry[p] = NoInode

(* How far its text is.                                                     *)
OwnText ==
  \A p \in Writer :
    /\ step[p] = "write" => Text(own[p]) = <<>>
    /\ step[p] = "write rest" => Text(own[p]) = <<M(p)>>
    /\ step[p] \in {"sync", "mode", "replace"} => Text(own[p]) = <<M(p), M(p)>>
    /\ way[p] = "atomic" /\ step[p] \in {"mode", "replace"} => own[p] \in onDisk

(* What the path is may be on disk.                                         *)
PathThere == entry["path"] \in pending

Filling == FileTypeOK /\ PathThere /\ OwnInode /\ OwnText

-----------------------------------------------------------------------------
LEMMA WaysStay == [FileNext]_fileVars => (NoneInPlace' <=> NoneInPlace) /\ (AllAtomic' <=> AllAtomic)
<1> SUFFICES ASSUME [FileNext]_fileVars PROVE way' = way
  BY DEF NoneInPlace, AllAtomic, Only
<1> QED BY DEF FileNext, FileStep, fileVars, CreateTemp, Piece, Sync, SetMode, Replace, SyncDirectory,
               InstallUnlink, InstallCopy, InstallFinish, DiskFull, Killed, Outage

LEMMA OwnWay ==
  ASSUME NoneInPlace, FileTypeOK, NEW p \in Writer
  PROVE  way[p] \in {"atomic", "plain"} /\ TempName(p) = p
  BY DEF NoneInPlace, Only, TempName

LEMMA NewInode ==
  ASSUME FileTypeOK, NEW new \in Inode
  PROVE  /\ Append(file, new) \in Seq(Inode)
         /\ Len(file) \in Nat /\ DOMAIN file = 1..Len(file)
         /\ DOMAIN Append(file, new) = 1..(Len(file) + 1)
         /\ \A i \in DOMAIN file : Append(file, new)[i] = file[i]
         /\ Append(file, new)[Len(file) + 1] = new
<1>1. file \in Seq(Inode)
  BY DEF FileTypeOK
<1>2. Append(file, new) \in Seq(Inode)
  BY <1>1, AppendProperties
<1>3. Len(file) \in Nat /\ DOMAIN file = 1..Len(file)
  BY <1>1, LenProperties
<1>4. Len(Append(file, new)) = Len(file) + 1
  BY <1>1, AppendProperties
<1>5. DOMAIN Append(file, new) = 1..(Len(file) + 1)
  BY <1>2, <1>4, LenProperties
<1>6. \A i \in 1..Len(file) : Append(file, new)[i] = file[i]
  BY <1>1, AppendProperties
<1>7. Append(file, new)[Len(file) + 1] = new
  BY <1>1, AppendProperties
<1> QED BY <1>2, <1>3, <1>5, <1>6, <1>7

LEMMA NewText ==
  ASSUME FileTypeOK, NEW i \in DOMAIN file, NEW t \in Seq(Mark)
  PROVE  LET f == [file EXCEPT ![i].text = t]
         IN /\ f \in Seq(Inode) /\ DOMAIN f = DOMAIN file
            /\ f[i].text = t /\ f[i].wide = file[i].wide
            /\ \A j \in DOMAIN file : j # i => f[j] = file[j]
<1> DEFINE e == [file[i] EXCEPT !.text = t]
           f == [file EXCEPT ![i] = e]
<1>1. file \in Seq(Inode) /\ i \in 1..Len(file) /\ DOMAIN file = 1..Len(file)
  BY LenProperties DEF FileTypeOK
<1>2. file[i] \in Inode
  BY <1>1, ElementOfSeq
<1>3. e \in Inode /\ e.text = t /\ e.wide = file[i].wide
  BY <1>2 DEF Inode
<1> HIDE DEF e
<1>4. f \in Seq(Inode)
  BY <1>1, <1>3, ExceptSeq
<1> QED BY <1>1, <1>3, <1>4 DEF e

LEMMA NewMode ==
  ASSUME FileTypeOK, NEW i \in DOMAIN file, NEW b \in BOOLEAN
  PROVE  LET f == [file EXCEPT ![i].wide = b]
         IN /\ f \in Seq(Inode) /\ DOMAIN f = DOMAIN file
            /\ f[i].text = file[i].text /\ f[i].wide = b
            /\ \A j \in DOMAIN file : j # i => f[j] = file[j]
<1> DEFINE e == [file[i] EXCEPT !.wide = b]
           f == [file EXCEPT ![i] = e]
<1>1. file \in Seq(Inode) /\ i \in 1..Len(file) /\ DOMAIN file = 1..Len(file)
  BY LenProperties DEF FileTypeOK
<1>2. file[i] \in Inode
  BY <1>1, ElementOfSeq
<1>3. e \in Inode /\ e.text = file[i].text /\ e.wide = b
  BY <1>2 DEF Inode
<1> HIDE DEF e
<1>4. f \in Seq(Inode)
  BY <1>1, <1>3, ExceptSeq
<1> QED BY <1>1, <1>3, <1>4 DEF e

LEMMA FillingInit == FileInit /\ NoneInPlace => Filling
<1> SUFFICES ASSUME FileInit, NoneInPlace PROVE Filling
  OBVIOUS
<1>1. file \in Seq(Inode) /\ DOMAIN file = {1}
  <2>1. <<"before", 0>> \in Mark
    BY DEF Mark
  <2>2. <<<<"before", 0>>, <<"before", 0>>>> \in Seq(Mark)
    BY <2>1
  <2> DEFINE first == [text |-> <<<<"before", 0>>, <<"before", 0>>>>, wide |-> ~private]
  <2>3. first \in Inode
    BY <2>2 DEF Inode
  <2>4. file = <<first>>
    BY DEF FileInit
  <2> HIDE DEF first
  <2> QED BY <2>3, <2>4
<1>2. entry \in [Name -> Nat \cup {NoInode}]
  BY DEF FileInit, Name
<1>3. FileTypeOK
  BY <1>1, <1>2 DEF FileInit, FileTypeOK
<1>4. \A p \in Writer : step[p] = "start" /\ entry[p] = NoInode
  BY FileAssumption DEF FileInit
<1>5. PathThere
  BY DEF FileInit, PathThere
<1> QED BY <1>3, <1>4, <1>5 DEF Filling, OwnInode, OwnText, Fills

(* A new temporary file.                                                    *)
LEMMA CreateTempFills ==
  ASSUME NoneInPlace, Filling, FileAssumption, NEW p \in Writer, CreateTemp(p)
  PROVE  Filling'
<1> USE DEF Filling
<1>1. TempName(p) = p /\ way[p] # "unit"
  BY OwnWay
<1>2. entry[p] = NoInode
  BY DEF CreateTemp, OwnInode
<1> DEFINE new == [text |-> <<>>, wide |-> FALSE]
<1>3. /\ file' = Append(file, new)
      /\ own' = [own EXCEPT ![p] = Len(file) + 1]
      /\ entry' = [entry EXCEPT ![p] = Len(file) + 1]
      /\ onDisk' = onDisk /\ pending' = pending /\ way' = way
      /\ step' = [step EXCEPT ![p] = "write"]
      /\ version' = [version EXCEPT ![p] = writes'] /\ writes' = writes + 1
      /\ replaced' = replaced /\ outages' = outages
  BY <1>1, <1>2 DEF CreateTemp
<1>4. new \in Inode
  BY EmptySeq DEF Inode
<1>5. /\ file' \in Seq(Inode) /\ Len(file) \in Nat /\ DOMAIN file = 1..Len(file)
      /\ DOMAIN file' = 1..(Len(file) + 1)
      /\ \A i \in DOMAIN file : file'[i] = file[i]
      /\ file'[Len(file) + 1] = new
  BY <1>3, <1>4, NewInode
<1> HIDE DEF new
<1>6. FileTypeOK'
  <2>1. Len(file) + 1 \in Nat
    BY <1>5
  <2>6. writes + 1 \in Nat
    <3>1. writes \in Nat
      BY DEF FileTypeOK
    <3> QED BY <3>1
  <2>2. entry' \in [Name -> Nat \cup {NoInode}] /\ own' \in [Writer -> Nat \cup {NoInode}]
    BY <1>3, <2>1 DEF FileTypeOK
  <2>3. version' \in [Writer -> Nat] /\ writes' \in Nat
    BY <1>3, <2>6 DEF FileTypeOK
  <2>4. step' \in [Writer -> {"start", "write", "write rest", "sync", "mode", "replace",
                             "sync directory", "stopped"}]
    BY <1>3 DEF FileTypeOK
  <2>5. pending' \subseteq DOMAIN file'
    <3>1. pending \subseteq 1..Len(file)
      BY <1>5 DEF FileTypeOK
    <3> QED BY <1>3, <1>5, <3>1
  <2> QED BY <1>3, <1>5, <2>2, <2>3, <2>4, <2>5 DEF FileTypeOK
<1>7. OwnInode'
  <2>1. \A q \in Writer : q # p => own'[q] = own[q] /\ step'[q] = step[q] /\ entry'[q] = entry[q]
    BY <1>3 DEF FileTypeOK, Name
  <2>2. own'[p] = Len(file) + 1 /\ step'[p] = "write" /\ entry'[p] = Len(file) + 1
    BY <1>3 DEF FileTypeOK, Name
  <2>3. Len(file) + 1 \notin DOMAIN file /\ Len(file) + 1 \in DOMAIN file'
    BY <1>5
  <2>4. Len(file) + 1 \notin pending'
    BY <1>3, <2>3 DEF FileTypeOK
  <2>5. DOMAIN file \subseteq DOMAIN file'
    BY <1>5
  <2>6. ASSUME NEW q \in Writer, Fills(q)' PROVE own'[q] \in DOMAIN file' \ pending' /\ entry'[q] = own'[q]
    <3>1. CASE q = p
      BY <2>2, <2>3, <2>4, <3>1
    <3>2. CASE q # p
      <4>1. Fills(q)
        BY <2>1, <2>6, <3>2 DEF Fills
      <4>2. own[q] \in DOMAIN file \ pending /\ entry[q] = own[q]
        BY <4>1 DEF OwnInode
      <4>3. pending' = pending
        BY <1>3
      <4> QED BY <2>1, <2>5, <3>2, <4>2, <4>3
    <3> QED BY <3>1, <3>2
  <2>7. ASSUME NEW q \in Writer, NEW r \in Writer, Fills(q)', Fills(r)', own'[q] = own'[r] PROVE q = r
    <3>1. ASSUME NEW w \in Writer, w # p, Fills(w)' PROVE Fills(w) /\ own'[w] = own[w] /\ own[w] \in DOMAIN file
      BY <2>1, <3>1 DEF Fills, OwnInode
    <3>2. ASSUME NEW w \in Writer, w # p, Fills(w)' PROVE own'[w] # own'[p]
      BY <2>2, <2>3, <3>1, <3>2
    <3>3. q = p \/ r = p => q = r
      BY <2>7, <3>2
    <3>4. q # p /\ r # p => q = r
      BY <2>7, <3>1 DEF OwnInode
    <3> QED BY <3>3, <3>4
  <2>8. ASSUME NEW q \in Writer, step'[q] \in {"start", "sync directory"} PROVE entry'[q] = NoInode
    BY <2>1, <2>2, <2>8 DEF OwnInode
  <2> QED BY <2>6, <2>7, <2>8 DEF OwnInode
<1>8. OwnText'
  <2>1. \A q \in Writer : q # p => /\ own'[q] = own[q] /\ step'[q] = step[q]
                                   /\ version'[q] = version[q]
    BY <1>3 DEF FileTypeOK
  <2>2. own'[p] = Len(file) + 1 /\ step'[p] = "write"
    BY <1>3 DEF FileTypeOK
  <2>3. ASSUME NEW q \in Writer, q # p, Fills(q) PROVE Text(own[q])' = Text(own[q])
    BY <1>5, <2>1, <2>3 DEF OwnInode, Text
  <2>4. Text(own[p])' = <<>>
    BY <1>5, <2>2 DEF Text, new
  <2>5. way' = way /\ onDisk' = onDisk
    BY <1>3
  <2> QED BY <2>1, <2>2, <2>3, <2>4, <2>5 DEF OwnText, Fills, M
<1>9. PathThere'
  <2>1. p # "path" /\ "path" \in Name
    BY FileAssumption DEF Name
  <2>2. entry'["path"] = entry["path"]
    BY <1>3, <2>1 DEF FileTypeOK
  <2>3. pending' = pending
    BY <1>3
  <2> QED BY <2>2, <2>3 DEF PathThere
<1> QED BY <1>6, <1>7, <1>8, <1>9

(* A write goes to the writer's own inode, after what is there.              *)
LEMMA PieceText ==
  ASSUME NoneInPlace, Filling, NEW p \in Writer, Piece(p)
  PROVE  /\ file' \in Seq(Inode) /\ DOMAIN file' = DOMAIN file
         /\ \A i \in DOMAIN file : i # own[p] => file'[i] = file[i]
         /\ step[p] = "write" => file'[own[p]].text = <<M(p)>>
         /\ step[p] = "write rest" => file'[own[p]].text = <<M(p), M(p)>>
         /\ own[p] \in DOMAIN file
<1> USE DEF Filling
<1>1. own[p] \in DOMAIN file
  BY DEF Piece, OwnInode, Fills
<1>2. M(p) \in Mark
  BY DEF M, Mark, FileTypeOK
<1>3. CASE step[p] = "write"
  <2>1. Text(own[p]) = <<>>
    BY <1>3 DEF OwnText
  <2> DEFINE t == [i \in 1..1 |-> IF i = 1 THEN M(p)
                                  ELSE IF i <= Len(Text(own[p])) THEN Text(own[p])[i]
                                  ELSE <<"hole", 0>>]
  <2>2. t = <<M(p)>>
    OBVIOUS
  <2>3. file' = [file EXCEPT ![own[p]].text = t]
    <3>1. ~(1 <= Len(Text(own[p])))
      BY <2>1
    <3> QED BY <1>3, <3>1 DEF Piece, M
  <2>4. t \in Seq(Mark)
    BY <2>2, <1>2
  <2> HIDE DEF t
  <2>5. /\ file' \in Seq(Inode) /\ DOMAIN file' = DOMAIN file
        /\ file'[own[p]].text = t
        /\ \A i \in DOMAIN file : i # own[p] => file'[i] = file[i]
    BY <1>1, <2>3, <2>4, NewText
  <2> QED BY <1>1, <1>3, <2>2, <2>5
<1>4. CASE step[p] = "write rest"
  <2>1. Text(own[p]) = <<M(p)>>
    BY <1>4 DEF OwnText
  <2> DEFINE t == [i \in 1..2 |-> IF i = 2 THEN M(p)
                                  ELSE IF i <= Len(Text(own[p])) THEN Text(own[p])[i]
                                  ELSE <<"hole", 0>>]
  <2>2. t = <<M(p), M(p)>>
    BY <2>1
  <2>3. file' = [file EXCEPT ![own[p]].text = t]
    <3>1. ~(2 <= Len(Text(own[p])))
      BY <2>1
    <3> QED BY <1>4, <3>1 DEF Piece, M
  <2>4. t \in Seq(Mark)
    BY <2>2, <1>2
  <2> HIDE DEF t
  <2>5. /\ file' \in Seq(Inode) /\ DOMAIN file' = DOMAIN file
        /\ file'[own[p]].text = t
        /\ \A i \in DOMAIN file : i # own[p] => file'[i] = file[i]
    BY <1>1, <2>3, <2>4, NewText
  <2> QED BY <1>1, <1>4, <2>2, <2>5
<1> QED BY <1>3, <1>4 DEF Piece

LEMMA PieceFills ==
  ASSUME NoneInPlace, Filling, NEW p \in Writer, Piece(p)
  PROVE  Filling'
<1> USE DEF Filling
<1>1. /\ file' \in Seq(Inode) /\ DOMAIN file' = DOMAIN file
      /\ \A i \in DOMAIN file : i # own[p] => file'[i] = file[i]
      /\ step[p] = "write" => file'[own[p]].text = <<M(p)>>
      /\ step[p] = "write rest" => file'[own[p]].text = <<M(p), M(p)>>
  BY PieceText
<1>2. /\ onDisk' = onDisk \ {own[p]}
      /\ step[p] = "write" => step' = [step EXCEPT ![p] = "write rest"]
      /\ step[p] = "write rest" =>
           step' = [step EXCEPT ![p] = IF way[p] = "atomic" THEN "sync" ELSE "mode"]
      /\ step[p] \in {"write", "write rest"}
      /\ way' = way /\ own' = own /\ version' = version /\ writes' = writes /\ entry' = entry
      /\ pending' = pending /\ replaced' = replaced /\ outages' = outages
  BY DEF Piece
<1>3. \A q \in Writer : q # p => step'[q] = step[q]
  BY <1>2 DEF FileTypeOK
<1>4. /\ step[p] = "write" => step'[p] = "write rest"
      /\ step[p] = "write rest" => step'[p] = IF way[p] = "atomic" THEN "sync" ELSE "mode"
      /\ step' \in [Writer -> {"start", "write", "write rest", "sync", "mode", "replace",
                              "sync directory", "stopped"}]
  BY <1>2 DEF FileTypeOK
<1>5. FileTypeOK'
  BY <1>1, <1>2, <1>4 DEF FileTypeOK
<1>6. OwnInode'
  <2>1. \A q \in Writer : Fills(q)' <=> Fills(q)
    BY <1>2, <1>3, <1>4 DEF Fills
  <2>2. \A q \in Writer : step'[q] \in {"start", "sync directory"} => step'[q] = step[q]
    BY <1>2, <1>3, <1>4
  <2> QED BY <1>1, <1>2, <2>1, <2>2 DEF OwnInode
<1>7. OwnText'
  <2>1. ASSUME NEW q \in Writer, q # p, Fills(q) PROVE own[q] # own[p] /\ own[q] \in DOMAIN file
    BY <1>2, <2>1 DEF OwnInode, Fills
  <2> SUFFICES ASSUME NEW q \in Writer
               PROVE  /\ step'[q] = "write" => Text(own[q])' = <<>>
                      /\ step'[q] = "write rest" => Text(own[q])' = <<M(q)'>>
                      /\ step'[q] \in {"sync", "mode", "replace"} => Text(own[q])' = <<M(q)', M(q)'>>
                      /\ way'[q] = "atomic" /\ step'[q] \in {"mode", "replace"} => own'[q] \in onDisk'
    BY DEF OwnText
  <2>2. M(q)' = M(q)
    BY <1>2 DEF M
  <2>3. CASE q = p
    BY <1>1, <1>2, <1>4, <2>2, <2>3 DEF Text
  <2>4. CASE q # p
    <3>1. step'[q] = step[q] /\ way'[q] = way[q] /\ own'[q] = own[q]
      BY <1>2, <1>3, <2>4
    <3>2. CASE Fills(q)
      <4>1. Text(own[q])' = Text(own[q])
        BY <1>1, <2>1, <2>4, <3>1, <3>2 DEF Text
      <4>2. own[q] \in onDisk => own'[q] \in onDisk'
        BY <1>2, <2>1, <2>4, <3>1, <3>2
      <4> QED BY <2>2, <3>1, <4>1, <4>2 DEF OwnText
    <3>3. CASE ~Fills(q)
      BY <3>1, <3>3 DEF Fills
    <3> QED BY <3>2, <3>3
  <2> QED BY <2>3, <2>4
<1>8. PathThere'
  BY <1>2 DEF PathThere
<1> QED BY <1>5, <1>6, <1>7, <1>8

LEMMA SyncFills ==
  ASSUME NoneInPlace, Filling, NEW p \in Writer, Sync(p)
  PROVE  Filling'
<1>1. /\ onDisk' = onDisk \cup {own[p]} /\ step[p] = "sync"
      /\ step' = [step EXCEPT ![p] = "mode"]
      /\ way' = way /\ own' = own /\ version' = version /\ writes' = writes /\ file' = file
      /\ entry' = entry /\ pending' = pending /\ replaced' = replaced /\ outages' = outages
  BY DEF Sync
<1>2. /\ \A q \in Writer : step'[q] = IF q = p THEN "mode" ELSE step[q]
      /\ FileTypeOK'
  BY <1>1 DEF Filling, FileTypeOK
<1>3. OwnInode'
  <2>1. \A q \in Writer : Fills(q)' <=> Fills(q)
    BY <1>1, <1>2 DEF Fills
  <2>2. \A q \in Writer : step'[q] \in {"start", "sync directory"} => step'[q] = step[q]
    BY <1>2
  <2>3. OwnInode
    BY DEF Filling
  <2> QED BY <1>1, <2>1, <2>2, <2>3 DEF OwnInode
<1>4. OwnText'
  <2>1. ASSUME NEW q \in Writer, q # p
        PROVE  step'[q] = step[q] /\ Text(own[q])' = Text(own[q]) /\ (own[q] \in onDisk => own[q] \in onDisk')
    BY <1>1, <1>2, <2>1 DEF Text
  <2>2. Text(own[p])' = Text(own[p]) /\ step'[p] = "mode" /\ own[p] \in onDisk'
    BY <1>1, <1>2 DEF Text
  <2> QED BY <1>1, <2>1, <2>2 DEF Filling, OwnText, M
<1>5. PathThere'
  BY <1>1 DEF PathThere, Filling
<1> QED BY <1>2, <1>3, <1>4, <1>5 DEF Filling

LEMMA SetModeFills ==
  ASSUME NoneInPlace, Filling, NEW p \in Writer, SetMode(p)
  PROVE  /\ Filling'
         /\ \A i \in DOMAIN file : file'[i].text = file[i].text
<1>1. way[p] # "sudo" /\ own[p] \in DOMAIN file
  <2>1. step[p] = "mode"
    BY DEF SetMode
  <2> QED BY <2>1, OwnWay DEF Filling, OwnInode, Fills
<1>2. /\ file' = [file EXCEPT ![own[p]].wide = ~private] /\ step[p] = "mode"
      /\ step' = [step EXCEPT ![p] = "replace"]
      /\ way' = way /\ own' = own /\ version' = version /\ writes' = writes /\ onDisk' = onDisk
      /\ entry' = entry /\ pending' = pending /\ replaced' = replaced /\ outages' = outages
  BY <1>1 DEF SetMode
<1>3. /\ file' \in Seq(Inode) /\ DOMAIN file' = DOMAIN file
      /\ file'[own[p]].text = file[own[p]].text
      /\ \A i \in DOMAIN file : i # own[p] => file'[i] = file[i]
  BY <1>1, <1>2, NewMode DEF Filling
<1>4. /\ \A q \in Writer : step'[q] = IF q = p THEN "replace" ELSE step[q]
      /\ FileTypeOK'
  BY <1>2, <1>3 DEF Filling, FileTypeOK
<1>5. OwnInode'
  <2>1. \A q \in Writer : Fills(q)' <=> Fills(q)
    BY <1>2, <1>4 DEF Fills
  <2>2. \A q \in Writer : step'[q] \in {"start", "sync directory"} => step'[q] = step[q]
    BY <1>4
  <2>3. OwnInode
    BY DEF Filling
  <2> QED BY <1>2, <1>3, <2>1, <2>2, <2>3 DEF OwnInode
<1>6. \A q \in Writer : Fills(q) => Text(own[q])' = Text(own[q])
  BY <1>2, <1>3 DEF Filling, OwnInode, Text
<1>7. OwnText'
  <2>1. \A q \in Writer : q # p => step'[q] = step[q]
    BY <1>4
  <2>2. ASSUME NEW q \in Writer, q # p, Fills(q) PROVE Text(own[q])' = Text(own[q])
    BY <1>6, <2>2
  <2>3. /\ Text(own[p])' = Text(own[p]) /\ step'[p] = "replace"
        /\ Text(own[p]) = <<M(p), M(p)>> /\ (way[p] = "atomic" => own[p] \in onDisk)
    BY <1>2, <1>4, <1>6 DEF Filling, OwnText, Fills
  <2> QED BY <1>2, <2>1, <2>2, <2>3 DEF OwnText, M, Fills, Filling
<1>8. PathThere'
  BY <1>2 DEF PathThere, Filling
<1> QED BY <1>3, <1>4, <1>5, <1>7, <1>8 DEF Filling

(* The temporary name of a writer that fills is there, so the rename is made.  *)
LEMMA ReplaceEffect ==
  ASSUME NoneInPlace, Filling, FileAssumption, NEW p \in Writer, Replace(p)
  PROVE  /\ step[p] = "replace" /\ own[p] \in DOMAIN file \ pending
         /\ entry' = [entry EXCEPT !["path"] = own[p], ![p] = NoInode]
         /\ pending' = pending \cup {own[p]}
         /\ replaced' = Append(replaced, M(p))
         /\ step' = [step EXCEPT ![p] = IF way[p] = "atomic" THEN "sync directory" ELSE "start"]
         /\ way' = way /\ own' = own /\ version' = version /\ writes' = writes /\ file' = file
         /\ onDisk' = onDisk /\ lasting' = lasting /\ outages' = outages
<1>1. step[p] = "replace" /\ TempName(p) = p
  BY OwnWay DEF Replace, Filling
<1>2. own[p] \in DOMAIN file \ pending /\ entry[p] = own[p]
  BY <1>1 DEF Filling, OwnInode, Fills
<1>3. DOMAIN file \subseteq Nat
  <2>1. file \in Seq(Inode)
    BY DEF Filling, FileTypeOK
  <2> QED BY <2>1, LenProperties
<1>4. entry[p] # NoInode
  BY <1>2, <1>3, FileAssumption
<1> QED BY <1>1, <1>2, <1>4 DEF Replace, M

LEMMA ReplaceFills ==
  ASSUME NoneInPlace, Filling, FileAssumption, NEW p \in Writer, Replace(p)
  PROVE  Filling'
<1>1. /\ step[p] = "replace" /\ own[p] \in DOMAIN file \ pending
      /\ entry' = [entry EXCEPT !["path"] = own[p], ![p] = NoInode]
      /\ pending' = pending \cup {own[p]}
      /\ replaced' = Append(replaced, M(p))
      /\ step' = [step EXCEPT ![p] = IF way[p] = "atomic" THEN "sync directory" ELSE "start"]
      /\ way' = way /\ own' = own /\ version' = version /\ writes' = writes /\ file' = file
      /\ onDisk' = onDisk /\ lasting' = lasting /\ outages' = outages
  BY ReplaceEffect
<1>2. /\ p # "path" /\ "path" \in Name /\ \A q \in Writer : q # "path" /\ q \in Name
  BY FileAssumption DEF Name
<1>3. /\ step'[p] \in {"start", "sync directory"}
      /\ \A q \in Writer : q # p => step'[q] = step[q]
      /\ step' \in [Writer -> {"start", "write", "write rest", "sync", "mode", "replace",
                              "sync directory", "stopped"}]
  BY <1>1 DEF Filling, FileTypeOK
<1>4. /\ entry'[p] = NoInode
      /\ \A q \in Writer : q # p => entry'[q] = entry[q]
      /\ entry' \in [Name -> Nat \cup {NoInode}]
  <2>1. own[p] \in Nat \cup {NoInode}
    BY DEF Filling, FileTypeOK
  <2> QED BY <1>1, <1>2, <2>1 DEF Filling, FileTypeOK
<1>5. replaced' \in Seq(Mark)
  <2>1. M(p) \in Mark
    BY DEF M, Mark, Filling, FileTypeOK
  <2> QED BY <1>1, <2>1, AppendProperties DEF Filling, FileTypeOK
<1>6. FileTypeOK'
  BY <1>1, <1>3, <1>4, <1>5 DEF Filling, FileTypeOK
<1>7. OwnInode'
  <2>1. \A q \in Writer : Fills(q)' => q # p /\ Fills(q) /\ own[q] # own[p]
    BY <1>1, <1>3 DEF Filling, OwnInode, Fills
  <2> QED BY <1>1, <1>3, <1>4, <2>1 DEF Filling, OwnInode
<1>8. OwnText'
  BY <1>1, <1>3 DEF Filling, OwnText, Text, M
<1>9. PathThere'
  <2>1. entry'["path"] = own[p]
    BY <1>1, <1>2 DEF Filling, FileTypeOK
  <2>2. own[p] \in pending'
    BY <1>1
  <2> QED BY <2>1, <2>2 DEF PathThere
<1> QED BY <1>6, <1>7, <1>8, <1>9 DEF Filling

(* A writer that ends, in whatever way, fills nothing more.                  *)
LEMMA EndFills ==
  ASSUME NoneInPlace, Filling, FileAssumption, NEW p \in Writer,
         SyncDirectory(p) \/ DiskFull(p) \/ Killed(p)
  PROVE  Filling'
<1>1. PICK to \in {"start", "stopped"} : step' = [step EXCEPT ![p] = to]
  BY DEF SyncDirectory, DiskFull, Killed
<1>2. /\ way' = way /\ own' = own /\ version' = version /\ writes' = writes /\ file' = file
      /\ onDisk' = onDisk /\ replaced' = replaced /\ outages' = outages
  BY DEF SyncDirectory, DiskFull, Killed
<1>3. /\ step' \in [Writer -> {"start", "write", "write rest", "sync", "mode", "replace",
                              "sync directory", "stopped"}]
      /\ \A q \in Writer : step'[q] = IF q = p THEN to ELSE step[q]
  BY <1>1 DEF Filling, FileTypeOK
<1>4. TempName(p) = p /\ way[p] # "unit"
  BY OwnWay DEF Filling
<1>5. entry' = entry \/ entry' = [entry EXCEPT ![p] = NoInode]
  BY <1>4 DEF SyncDirectory, DiskFull, Killed
<1>6. /\ entry' \in [Name -> Nat \cup {NoInode}]
      /\ \A q \in Writer : q # p => entry'[q] = entry[q]
  <2>1. entry \in [Name -> Nat \cup {NoInode}] /\ Writer \subseteq Name
    BY DEF Filling, FileTypeOK, Name
  <2>2. CASE entry' = entry
    BY <2>1, <2>2
  <2>3. CASE entry' = [entry EXCEPT ![p] = NoInode]
    BY <2>1, <2>3
  <2> QED BY <1>5, <2>2, <2>3
<1>7. step'[p] = "start" => entry'[p] = NoInode
  <2>1. CASE SyncDirectory(p)
    BY <2>1 DEF SyncDirectory, Filling, OwnInode
  <2>2. CASE DiskFull(p)
    BY <1>4, <2>2 DEF DiskFull, Filling, FileTypeOK, Name
  <2>3. CASE Killed(p)
    BY <2>3 DEF Killed, Filling, FileTypeOK
  <2> QED BY <2>1, <2>2, <2>3
<1>8. pending' = pending \/ pending' = {entry["path"]}
  BY DEF SyncDirectory, DiskFull, Killed
<1>9. entry["path"] \in pending /\ pending \subseteq DOMAIN file
  BY DEF Filling, PathThere, FileTypeOK
<1>10. entry'["path"] = entry["path"]
  <2>1. p # "path" /\ "path" \in Name
    BY FileAssumption DEF Name
  <2> QED BY <1>5, <2>1 DEF Filling, FileTypeOK
<1>11. pending' \subseteq pending /\ entry'["path"] \in pending'
  BY <1>8, <1>9, <1>10
<1>12. FileTypeOK' /\ PathThere'
  BY <1>2, <1>3, <1>6, <1>9, <1>11 DEF Filling, FileTypeOK, PathThere
<1>13. OwnInode'
  <2>1. \A q \in Writer : Fills(q)' => Fills(q) /\ q # p
    BY <1>3 DEF Fills
  <2>2. ASSUME NEW q \in Writer, step'[q] \in {"start", "sync directory"} PROVE entry'[q] = NoInode
    <3>1. CASE q = p
      BY <1>3, <1>7, <2>2, <3>1
    <3>2. CASE q # p
      BY <1>3, <1>6, <2>2, <3>2 DEF Filling, OwnInode
    <3> QED BY <3>1, <3>2
  <2> QED BY <1>2, <1>6, <1>11, <2>1, <2>2 DEF Filling, OwnInode
<1>14. OwnText'
  BY <1>2, <1>3 DEF Filling, OwnText, Text, M
<1> QED BY <1>12, <1>13, <1>14 DEF Filling

LEMMA OutageEffect ==
  ASSUME NoneInPlace, Filling, FileAssumption, Outage
  PROVE  \E i \in pending :
           /\ entry' \in [Name -> Nat \cup {NoInode}]
           /\ entry'["path"] = i /\ \A q \in Writer : entry'[q] = NoInode
           /\ pending' = {i} /\ i \in DOMAIN file
           /\ file' \in Seq(Inode) /\ DOMAIN file' = DOMAIN file
           /\ i \in onDisk => file' = file
           /\ onDisk' = DOMAIN file
           /\ step' = [p \in Writer |-> "start"]
           /\ way' = way /\ own' = own /\ version' = version /\ writes' = writes
           /\ replaced' = replaced /\ lasting' = lasting /\ outages' = outages + 1
<1>1. PICK i \in pending :
        /\ entry' = [n \in DOMAIN entry |-> IF n = "path" THEN i
                                          ELSE IF n \in Writer THEN NoInode ELSE entry[n]]
        /\ pending' = {i}
        /\ \/ UNCHANGED file
           \/ i \in DOMAIN file \ onDisk /\ file' = [file EXCEPT ![i].text = <<>>]
  BY DEF Outage
<1>2. i \in DOMAIN file /\ i \in Nat
  <2>1. file \in Seq(Inode) /\ i \in DOMAIN file
    BY DEF Filling, FileTypeOK
  <2> QED BY <2>1, LenProperties
<1>3. /\ file' \in Seq(Inode) /\ DOMAIN file' = DOMAIN file
      /\ i \in onDisk => file' = file
  <2>1. <<>> \in Seq(Mark)
    BY EmptySeq
  <2>2. FileTypeOK
    BY DEF Filling
  <2>3. file \in Seq(Inode)
    BY <2>2 DEF FileTypeOK
  <2>4. CASE file' = file
    BY <2>3, <2>4
  <2>5. CASE i \notin onDisk /\ file' = [file EXCEPT ![i].text = <<>>]
    BY <1>2, <2>1, <2>2, <2>5, NewText
  <2> QED BY <1>1, <2>4, <2>5
<1>4. /\ entry' \in [Name -> Nat \cup {NoInode}]
      /\ entry'["path"] = i /\ \A q \in Writer : entry'[q] = NoInode
  <2>1. DOMAIN entry = Name /\ entry \in [Name -> Nat \cup {NoInode}]
    BY DEF Filling, FileTypeOK
  <2>2. "path" \in Name /\ "path" \notin Writer /\ \A q \in Writer : q \in Name /\ q # "path"
    BY FileAssumption DEF Name
  <2> QED BY <1>1, <1>2, <2>1, <2>2
<1>5. /\ onDisk' = DOMAIN file
      /\ step' = [p \in Writer |-> "start"]
      /\ way' = way /\ own' = own /\ version' = version /\ writes' = writes
      /\ replaced' = replaced /\ lasting' = lasting /\ outages' = outages + 1
  BY DEF Outage
<1> QED BY <1>1, <1>2, <1>3, <1>4, <1>5

LEMMA OutageFills ==
  ASSUME NoneInPlace, Filling, FileAssumption, Outage
  PROVE  Filling'
<1>1. PICK i \in pending :
           /\ entry' \in [Name -> Nat \cup {NoInode}]
           /\ entry'["path"] = i /\ \A q \in Writer : entry'[q] = NoInode
           /\ pending' = {i} /\ i \in DOMAIN file
           /\ file' \in Seq(Inode) /\ DOMAIN file' = DOMAIN file
           /\ step' = [p \in Writer |-> "start"]
           /\ way' = way /\ own' = own /\ version' = version /\ writes' = writes
           /\ replaced' = replaced /\ outages' = outages + 1
  BY OutageEffect
<1>2. outages + 1 \in Nat
  <2>1. outages \in Nat
    BY DEF Filling, FileTypeOK
  <2> QED BY <2>1
<1>3. \A q \in Writer : step'[q] = "start"
  BY <1>1
<1>4. FileTypeOK' /\ PathThere'
  BY <1>1, <1>2 DEF Filling, FileTypeOK, PathThere
<1> QED BY <1>1, <1>3, <1>4 DEF Filling, OwnInode, OwnText, Fills

LEMMA FillingStep ==
  ASSUME NoneInPlace, Filling, FileAssumption, [FileNext]_fileVars
  PROVE  Filling'
<1>1. CASE UNCHANGED fileVars
  BY <1>1 DEF fileVars, Filling, FileTypeOK, PathThere, OwnInode, OwnText, Fills, Text, M
<1>2. CASE Outage
  BY <1>2, OutageFills
<1>3. ASSUME NEW p \in Writer, FileStep(p) PROVE Filling'
  <2>1. ~InstallUnlink(p) /\ ~InstallCopy(p) /\ ~InstallFinish(p)
    BY DEF InstallUnlink, InstallCopy, InstallFinish, Filling, FileTypeOK
  <2> QED BY <1>3, <2>1, CreateTempFills, PieceFills, SyncFills, SetModeFills, ReplaceFills, EndFills
          DEF FileStep
<1> QED BY <1>1, <1>2, <1>3 DEF FileNext

-----------------------------------------------------------------------------
(* The steps that leave the path and what it may be alone.                   *)
LEMMA Quiet ==
  ASSUME NoneInPlace, Filling, FileAssumption, NEW p \in Writer,
         CreateTemp(p) \/ Piece(p) \/ Sync(p) \/ SetMode(p) \/ DiskFull(p) \/ Killed(p)
  PROVE  /\ entry'["path"] = entry["path"] /\ pending' = pending
         /\ replaced' = replaced /\ lasting' = lasting /\ outages' = outages
         /\ \A i \in pending : Text(i)' = Text(i) /\ (i \in onDisk => i \in onDisk')
         /\ \A q \in Writer : step'[q] = "sync directory" => step[q] = "sync directory"
<1>1. /\ p # "path" /\ "path" \in Name /\ TempName(p) = p /\ way[p] # "unit"
      /\ pending \subseteq DOMAIN file
  BY OwnWay, FileAssumption DEF Name, Filling, FileTypeOK
<1>2. pending' = pending /\ replaced' = replaced /\ lasting' = lasting /\ outages' = outages
  BY DEF CreateTemp, Piece, Sync, SetMode, DiskFull, Killed
<1>3. \A q \in Writer : step'[q] = "sync directory" => step[q] = "sync directory"
  <2>1. PICK to \in {"write", "write rest", "sync", "mode", "unlink", "replace", "start", "stopped"} :
          step' = [step EXCEPT ![p] = to]
    BY DEF CreateTemp, Piece, Sync, SetMode, DiskFull, Killed
  <2> QED BY <2>1 DEF Filling, FileTypeOK
<1>4. CASE CreateTemp(p)
  <2>1. entry[p] = NoInode
    BY <1>4 DEF CreateTemp, Filling, OwnInode
  <2> DEFINE new == [text |-> <<>>, wide |-> FALSE]
  <2>2. /\ file' = Append(file, new) /\ onDisk' = onDisk
        /\ entry' = [entry EXCEPT ![p] = Len(file) + 1]
    BY <1>1, <1>4, <2>1 DEF CreateTemp
  <2>3. new \in Inode /\ FileTypeOK
    BY EmptySeq DEF Inode, Filling
  <2>4. \A i \in DOMAIN file : file'[i] = file[i]
    BY <2>2, <2>3, NewInode
  <2>5. entry'["path"] = entry["path"]
    BY <1>1, <2>2, <2>3 DEF FileTypeOK
  <2> QED BY <1>1, <1>2, <1>3, <2>2, <2>4, <2>5 DEF Text
<1>5. CASE Piece(p)
  <2>1. /\ \A i \in DOMAIN file : i # own[p] => file'[i] = file[i]
        /\ own[p] \notin pending
    BY <1>5, PieceText DEF Piece, Filling, OwnInode, Fills
  <2>2. entry' = entry /\ onDisk' = onDisk \ {own[p]}
    BY <1>5 DEF Piece
  <2> QED BY <1>1, <1>2, <1>3, <2>1, <2>2 DEF Text
<1>6. CASE Sync(p)
  BY <1>2, <1>3, <1>6 DEF Sync, Text
<1>7. CASE SetMode(p)
  <2>1. \A i \in DOMAIN file : file'[i].text = file[i].text
    BY <1>7, SetModeFills
  <2>2. entry' = entry /\ onDisk' = onDisk
    BY <1>7 DEF SetMode
  <2> QED BY <1>1, <1>2, <1>3, <2>1, <2>2 DEF Text
<1>8. CASE DiskFull(p) \/ Killed(p)
  <2>1. file' = file /\ onDisk' = onDisk /\ (entry' = entry \/ entry' = [entry EXCEPT ![p] = NoInode])
    BY <1>1, <1>8 DEF DiskFull, Killed
  <2>2. entry'["path"] = entry["path"]
    BY <1>1, <2>1 DEF Filling, FileTypeOK
  <2> QED BY <1>2, <1>3, <2>1, <2>2 DEF Text
<1> QED BY <1>4, <1>5, <1>6, <1>7, <1>8

-----------------------------------------------------------------------------
(* What the path is, and for write_text_atomic all it may be after a loss of  *)
(* power, is a whole text; there it is on disk.                             *)
Sound ==
  /\ AllAtomic => \A i \in pending : i \in onDisk /\ Whole(i)
  /\ AllAtomic \/ outages = 0 => Whole(entry["path"])

LEMMA WholeText == ASSUME NEW i, NEW m, Text(i) = <<m, m>> PROVE Whole(i)
  BY DEF Whole, Text

LEMMA SoundStep ==
  ASSUME NoneInPlace, Filling, Sound, FileAssumption, [FileNext]_fileVars
  PROVE  Sound'
<1>1. AllAtomic' <=> AllAtomic
  BY WaysStay
<1>2. CASE UNCHANGED fileVars
  BY <1>1, <1>2 DEF fileVars, Sound, Whole, Text
<1>3. CASE Outage
  <2>1. PICK i \in pending :
           /\ entry'["path"] = i /\ pending' = {i} /\ i \in DOMAIN file
           /\ i \in onDisk => file' = file
           /\ onDisk' = DOMAIN file
           /\ outages' = outages + 1
    BY <1>3, OutageEffect
  <2>2. outages + 1 # 0
    <3>1. outages \in Nat
      BY DEF Filling, FileTypeOK
    <3> QED BY <3>1
  <2>3. AllAtomic => i \in onDisk /\ Whole(i) /\ Whole(i)'
    BY <2>1 DEF Sound, Whole
  <2> QED BY <1>1, <2>1, <2>2, <2>3 DEF Sound, Whole
<1>4. ASSUME NEW p \in Writer, FileStep(p) PROVE Sound'
  <2>1. CASE CreateTemp(p) \/ Piece(p) \/ Sync(p) \/ SetMode(p) \/ DiskFull(p) \/ Killed(p)
    <3>1. /\ entry'["path"] = entry["path"] /\ pending' = pending /\ outages' = outages
          /\ \A i \in pending : Text(i)' = Text(i) /\ (i \in onDisk => i \in onDisk')
      BY <2>1, Quiet
    <3>2. \A i \in pending : Whole(i) => Whole(i)'
      BY <3>1 DEF Whole, Text
    <3> QED BY <1>1, <3>1, <3>2 DEF Sound, Filling, PathThere, Whole
  <2>2. CASE Replace(p)
    <3>1. /\ step[p] = "replace" /\ own[p] \in DOMAIN file \ pending
          /\ entry' = [entry EXCEPT !["path"] = own[p], ![p] = NoInode]
          /\ pending' = pending \cup {own[p]} /\ file' = file /\ onDisk' = onDisk
      BY <2>2, ReplaceEffect
    <3>2. Whole(own[p]) /\ (AllAtomic => own[p] \in onDisk)
      <4>1. Text(own[p]) = <<M(p), M(p)>> /\ (way[p] = "atomic" => own[p] \in onDisk)
        BY <3>1 DEF Filling, OwnText
      <4> QED BY <4>1, WholeText DEF AllAtomic, Only
    <3>3. entry'["path"] = own[p]
      <4>1. p # "path" /\ "path" \in Name
        BY FileAssumption DEF Name
      <4> QED BY <3>1, <4>1 DEF Filling, FileTypeOK
    <3>4. \A i : Whole(i)' <=> Whole(i)
      BY <3>1 DEF Whole
    <3>5. Whole(entry["path"])'
      BY <3>1, <3>2, <3>3 DEF Whole
    <3>6. AllAtomic => \A i \in pending' : i \in onDisk' /\ Whole(i)
      BY <3>1, <3>2 DEF Sound
    <3> QED BY <1>1, <3>1, <3>5, <3>6 DEF Sound, Whole
  <2>3. CASE SyncDirectory(p)
    <3>1. /\ entry' = entry /\ file' = file /\ onDisk' = onDisk /\ outages' = outages
          /\ pending' = pending \/ pending' = {entry["path"]}
      BY <2>3 DEF SyncDirectory
    <3> QED BY <1>1, <3>1 DEF Sound, Whole, Filling, PathThere
  <2>4. ~InstallUnlink(p) /\ ~InstallCopy(p) /\ ~InstallFinish(p)
    BY DEF InstallUnlink, InstallCopy, InstallFinish, Filling, FileTypeOK
  <2> QED BY <1>4, <2>1, <2>2, <2>3, <2>4 DEF FileStep
<1> QED BY <1>2, <1>3, <1>4 DEF FileNext

-----------------------------------------------------------------------------
(* Each text that the path may be after a loss of power is of a version at    *)
(* least as late as every one that was returned from.                       *)
Covers(k) ==
  \A i \in DOMAIN replaced :
    replaced[i] \in lasting => \E j \in i..Len(replaced) : Text(k) = <<replaced[j], replaced[j]>>

Numbered ==
  /\ lasting \subseteq Mark
  /\ \A p \in Writer : version[p] <= writes
  /\ \A m \in lasting : m[2] <= writes
  /\ \A p \in Writer : Fills(p) => M(p) \notin lasting

(* Between its rename and its fsync of the directory the path is the latest.   *)
LatestInPlace ==
  (\E p \in Writer : step[p] = "sync directory") =>
    /\ replaced # <<>>
    /\ Text(entry["path"]) = <<replaced[Len(replaced)], replaced[Len(replaced)]>>

Lasts == Numbered /\ LatestInPlace /\ \A k \in pending : Covers(k)

LEMMA NumberedStep ==
  ASSUME NoneInPlace, Filling, Numbered, FileAssumption, [FileNext]_fileVars
  PROVE  Numbered'
<1>0. /\ writes \in Nat /\ version \in [Writer -> Nat]
      /\ step \in [Writer -> {"start", "write", "write rest", "sync", "mode", "replace",
                             "sync directory", "stopped"}]
  BY DEF Filling, FileTypeOK
<1>1. CASE UNCHANGED fileVars
  BY <1>1 DEF fileVars, Numbered, Fills, M
<1>2. CASE Outage
  <2>1. /\ step' = [p \in Writer |-> "start"]
        /\ version' = version /\ writes' = writes /\ lasting' = lasting
    BY <1>2, OutageEffect
  <2> QED BY <2>1 DEF Numbered, Fills
<1>3. ASSUME NEW p \in Writer, CreateTemp(p) PROVE Numbered'
  <2>1. /\ version' = [version EXCEPT ![p] = writes + 1] /\ writes' = writes + 1
        /\ lasting' = lasting /\ step' = [step EXCEPT ![p] = "write"]
    BY <1>3 DEF CreateTemp
  <2>2. \A q \in Writer : version'[q] = IF q = p THEN writes + 1 ELSE version[q]
    BY <1>0, <2>1
  <2>3. \A q \in Writer : q # p => step'[q] = step[q]
    BY <1>0, <2>1
  <2>4. \A m \in lasting : m[2] \in Nat /\ m[2] <= writes
    BY DEF Numbered, Mark
  <2>0. writes \in Nat /\ \A q \in Writer : version[q] \in Nat /\ version[q] <= writes
    BY <1>0 DEF Numbered
  <2>5. <<p, writes + 1>> \notin lasting
    <3> SUFFICES ASSUME <<p, writes + 1>> \in lasting PROVE FALSE
      OBVIOUS
    <3>1. writes + 1 <= writes
      BY <2>4
    <3> QED BY <2>0, <3>1
  <2>6. \A q \in Writer : Fills(q)' => M(q)' \notin lasting
    <3>1. ASSUME NEW q \in Writer, Fills(q)' PROVE M(q)' \notin lasting
      <4>1. CASE q = p
        BY <2>2, <2>5, <4>1 DEF M
      <4>2. CASE q # p
        BY <2>2, <2>3, <3>1, <4>2 DEF M, Fills, Numbered
      <4> QED BY <4>1, <4>2
    <3> QED BY <3>1
  <2>7. \A q \in Writer : version'[q] <= writes'
    BY <2>0, <2>1, <2>2
  <2>8. \A m \in lasting' : m[2] <= writes'
    BY <2>0, <2>1, <2>4
  <2> QED BY <2>1, <2>6, <2>7, <2>8 DEF Numbered
<1>4. ASSUME NEW p \in Writer, SyncDirectory(p) PROVE Numbered'
  <2>1. /\ step[p] = "sync directory" /\ step' = [step EXCEPT ![p] = "start"]
        /\ version' = version /\ writes' = writes
        /\ lasting' = lasting \/ lasting' = lasting \cup {M(p)}
    BY <1>4 DEF SyncDirectory, M
  <2>2. M(p) \in Mark /\ M(p)[2] = version[p]
    BY <1>0 DEF M, Mark
  <2>3. \A q \in Writer : Fills(q)' => Fills(q) /\ q # p /\ M(q) # M(p)
    BY <1>0, <2>1 DEF Fills, M
  <2>4. \A q \in Writer : M(q)' = M(q)
    BY <2>1 DEF M
  <2>5. lasting' \subseteq Mark /\ \A m \in lasting' : m[2] <= writes
    BY <2>1, <2>2 DEF Numbered
  <2>6. \A q \in Writer : Fills(q)' => M(q) \notin lasting'
    BY <2>1, <2>3 DEF Numbered
  <2> QED BY <2>1, <2>4, <2>5, <2>6 DEF Numbered
<1>5. ASSUME NEW p \in Writer,
             Piece(p) \/ Sync(p) \/ SetMode(p) \/ Replace(p) \/ DiskFull(p) \/ Killed(p)
      PROVE  Numbered'
  <2>1. version' = version /\ writes' = writes /\ lasting' = lasting
    BY <1>5 DEF Piece, Sync, SetMode, Replace, DiskFull, Killed
  <2>2. \A q \in Writer : Fills(q)' => Fills(q)
    <3>1. \E to : step' = [step EXCEPT ![p] = to]
      BY <1>5 DEF Piece, Sync, SetMode, Replace, DiskFull, Killed
    <3>2. \A q \in Writer : q # p => step'[q] = step[q]
      BY <1>0, <3>1
    <3>3. CASE Fills(p)
      BY <3>2, <3>3 DEF Fills
    <3>4. CASE ~Fills(p)
      <4>1. Killed(p)
        BY <1>5, <3>4 DEF Piece, Sync, SetMode, Replace, DiskFull, Fills
      <4>2. step'[p] = "stopped"
        BY <1>0, <4>1 DEF Killed
      <4> QED BY <3>2, <4>2 DEF Fills
    <3> QED BY <3>3, <3>4
  <2> QED BY <2>1, <2>2 DEF Numbered, M
<1>6. ASSUME NEW p \in Writer PROVE ~InstallUnlink(p) /\ ~InstallCopy(p) /\ ~InstallFinish(p)
  BY DEF InstallUnlink, InstallCopy, InstallFinish, Filling, FileTypeOK
<1> QED BY <1>1, <1>2, <1>3, <1>4, <1>5, <1>6 DEF FileNext, FileStep

LEMMA LastsStep ==
  ASSUME AllAtomic, NoneInPlace, Filling, Sound, Lasts, FileAssumption, [FileNext]_fileVars
  PROVE  Lasts'
<1>1. Numbered'
  BY NumberedStep DEF Lasts
<1>2. Len(replaced) \in Nat /\ DOMAIN replaced = 1..Len(replaced) /\ replaced \in Seq(Mark)
  BY LenProperties DEF Filling, FileTypeOK
<1>3. CASE UNCHANGED fileVars
  BY <1>1, <1>3 DEF fileVars, Lasts, LatestInPlace, Covers, Text
<1>4. CASE Outage
  <2>1. PICK i \in pending :
           /\ entry'["path"] = i /\ pending' = {i} /\ i \in DOMAIN file
           /\ i \in onDisk => file' = file
           /\ step' = [p \in Writer |-> "start"]
           /\ replaced' = replaced /\ lasting' = lasting
    BY <1>4, OutageEffect
  <2>2. file' = file
    BY <2>1 DEF Sound
  <2>3. LatestInPlace'
    BY <2>1 DEF LatestInPlace
  <2>4. Covers(i)'
    <3>1. Covers(i)
      BY DEF Lasts
    <3> QED BY <2>1, <2>2, <3>1 DEF Covers, Text
  <2> QED BY <1>1, <2>1, <2>3, <2>4 DEF Lasts
<1>5. ASSUME NEW p \in Writer, FileStep(p) PROVE Lasts'
  <2>1. CASE CreateTemp(p) \/ Piece(p) \/ Sync(p) \/ SetMode(p) \/ DiskFull(p) \/ Killed(p)
    <3>1. /\ entry'["path"] = entry["path"] /\ pending' = pending
          /\ replaced' = replaced /\ lasting' = lasting
          /\ \A i \in pending : Text(i)' = Text(i)
          /\ \A q \in Writer : step'[q] = "sync directory" => step[q] = "sync directory"
      BY <2>1, Quiet
    <3>2. \A k \in pending' : Covers(k)'
      <4>1. ASSUME NEW k \in pending PROVE Covers(k)'
        <5>1. Covers(k) /\ Text(k)' = Text(k)
          BY <3>1 DEF Lasts
        <5> QED BY <3>1, <5>1 DEF Covers
      <4> QED BY <3>1, <4>1
    <3>3. Text(entry["path"])' = Text(entry["path"])
      BY <3>1 DEF Filling, PathThere, Text
    <3>4. LatestInPlace'
      BY <3>1, <3>3 DEF Lasts, LatestInPlace
    <3> QED BY <1>1, <3>2, <3>4 DEF Lasts
  <2>2. CASE Replace(p)
    <3>1. /\ step[p] = "replace" /\ own[p] \in DOMAIN file \ pending
          /\ entry' = [entry EXCEPT !["path"] = own[p], ![p] = NoInode]
          /\ pending' = pending \cup {own[p]} /\ replaced' = Append(replaced, M(p))
          /\ file' = file /\ lasting' = lasting
      BY <2>2, ReplaceEffect
    <3>2. M(p) \in Mark /\ M(p) \notin lasting
      BY <3>1 DEF M, Mark, Filling, FileTypeOK, Lasts, Numbered, Fills
    <3>3. /\ Len(replaced') = Len(replaced) + 1 /\ replaced' # <<>>
          /\ \A i \in 1..Len(replaced) : replaced'[i] = replaced[i]
          /\ replaced'[Len(replaced) + 1] = M(p)
          /\ replaced' \in Seq(Mark)
      BY <1>2, <3>1, <3>2, AppendProperties
    <3>4. DOMAIN replaced' = 1..(Len(replaced) + 1)
      BY <3>3, LenProperties
    <3>5. Text(own[p]) = <<M(p), M(p)>>
      BY <3>1 DEF Filling, OwnText
    <3>6. entry'["path"] = own[p]
      <4>1. p # "path" /\ "path" \in Name
        BY FileAssumption DEF Name
      <4> QED BY <3>1, <4>1 DEF Filling, FileTypeOK
    <3>7. LatestInPlace'
      BY <3>1, <3>3, <3>5, <3>6 DEF LatestInPlace, Text
    <3>8. ASSUME NEW k \in pending', NEW i \in DOMAIN replaced', replaced'[i] \in lasting'
          PROVE  \E j \in i..Len(replaced') : Text(k)' = <<replaced'[j], replaced'[j]>>
      <4>1. i \in 1..Len(replaced) /\ replaced[i] \in lasting
        BY <1>2, <3>1, <3>2, <3>3, <3>4, <3>8
      <4>2. CASE k \in pending
        <5>1. PICK j \in i..Len(replaced) : Text(k) = <<replaced[j], replaced[j]>>
          BY <1>2, <4>1, <4>2 DEF Lasts, Covers
        <5>2. j \in 1..Len(replaced) /\ j \in i..Len(replaced')
          BY <1>2, <3>3, <4>1
        <5>3. Text(k)' = <<replaced'[j], replaced'[j]>>
          BY <3>1, <3>3, <5>1, <5>2 DEF Text
        <5> QED BY <5>2, <5>3
      <4>3. CASE k = own[p]
        <5>1. Len(replaced) + 1 \in i..Len(replaced')
          BY <1>2, <3>3, <4>1
        <5>2. Text(k)' = <<replaced'[Len(replaced) + 1], replaced'[Len(replaced) + 1]>>
          BY <3>1, <3>3, <3>5, <4>3 DEF Text
        <5> QED BY <5>1, <5>2
      <4> QED BY <3>1, <3>8, <4>2, <4>3
    <3>9. \A k \in pending' : Covers(k)'
      BY <3>8 DEF Covers
    <3> QED BY <1>1, <3>7, <3>9 DEF Lasts
  <2>3. CASE SyncDirectory(p)
    <3>1. /\ entry' = entry /\ file' = file /\ replaced' = replaced
          /\ step[p] = "sync directory" /\ step' = [step EXCEPT ![p] = "start"]
          /\ \/ pending' = pending /\ lasting' = lasting
             \/ pending' = {entry["path"]}
      BY <2>3 DEF SyncDirectory
    <3>2. /\ replaced # <<>>
          /\ Text(entry["path"]) = <<replaced[Len(replaced)], replaced[Len(replaced)]>>
      BY <3>1 DEF Lasts, LatestInPlace
    <3>3. LatestInPlace'
      BY <3>1, <3>2 DEF LatestInPlace, Text
    <3>4. CASE pending' = pending /\ lasting' = lasting
      BY <1>1, <3>1, <3>3, <3>4 DEF Lasts, Covers, Text
    <3>5. CASE pending' = {entry["path"]}
      <4>1. ASSUME NEW i \in DOMAIN replaced
            PROVE  \E j \in i..Len(replaced) : Text(entry["path"]) = <<replaced[j], replaced[j]>>
        <5>1. Len(replaced) \in i..Len(replaced)
          BY <1>2
        <5> QED BY <3>2, <5>1
      <4>2. ASSUME NEW k \in pending' PROVE Covers(k)'
        <5>1. k = entry["path"]
          BY <3>5
        <5> QED BY <3>1, <4>1, <5>1 DEF Covers, Text
      <4>3. \A k \in pending' : Covers(k)'
        BY <4>2
      <4> QED BY <1>1, <3>3, <4>3 DEF Lasts
    <3> QED BY <3>1, <3>4, <3>5
  <2>4. ~InstallUnlink(p) /\ ~InstallCopy(p) /\ ~InstallFinish(p)
    BY DEF InstallUnlink, InstallCopy, InstallFinish, Filling, FileTypeOK
  <2> QED BY <1>5, <2>1, <2>2, <2>3, <2>4 DEF FileStep
<1> QED BY <1>3, <1>4, <1>5 DEF FileNext

-----------------------------------------------------------------------------
FileInv == NoneInPlace => Filling /\ Sound /\ (AllAtomic => Lasts)

LEMMA FileInvInit == FileInit => FileInv
<1> SUFFICES ASSUME FileInit, NoneInPlace PROVE Filling /\ Sound /\ (AllAtomic => Lasts)
  BY DEF FileInv
<1>1. Filling
  BY FillingInit
<1>2. /\ entry["path"] = 1 /\ pending = {1} /\ onDisk = {1} /\ replaced = <<>> /\ lasting = {}
      /\ Text(1) = <<<<"before", 0>>, <<"before", 0>>>>
      /\ writes = 0 /\ \A p \in Writer : step[p] = "start" /\ version[p] = 0
  BY DEF FileInit, Text
<1>3. Sound
  BY <1>2, WholeText DEF Sound
<1>4. Lasts
  <2>1. Numbered
    BY <1>2 DEF Numbered, Fills
  <2>2. LatestInPlace
    BY <1>2 DEF LatestInPlace
  <2>3. \A k \in pending : Covers(k)
    BY <1>2 DEF Covers
  <2> QED BY <2>1, <2>2, <2>3 DEF Lasts
<1> QED BY <1>1, <1>3, <1>4

LEMMA FileInvStep == FileInv /\ [FileNext]_fileVars => FileInv'
<1> SUFFICES ASSUME FileInv, [FileNext]_fileVars, NoneInPlace'
             PROVE  Filling' /\ Sound' /\ (AllAtomic' => Lasts')
  BY DEF FileInv
<1>1. NoneInPlace /\ (AllAtomic' => AllAtomic)
  BY WaysStay
<1>2. Filling /\ Sound /\ (AllAtomic => Lasts)
  BY <1>1 DEF FileInv
<1> QED BY <1>1, <1>2, FileAssumption, FillingStep, SoundStep, LastsStep

THEOREM FilesInvariant == FileSpec => []FileInv
  BY FileInvInit, FileInvStep, PTL DEF FileSpec

(* A reader never finds a part of a text, or no file: with any number of       *)
(* writers, ends by a signal and, for write_text_atomic, losses of power.     *)
THEOREM ReadersSeeWhole == FileSpec => []ReaderSeesWhole
<1>1. ASSUME FileInv PROVE ReaderSeesWhole
  <2> SUFFICES ASSUME AllAtomic \/ (NoneInPlace /\ outages = 0)
               PROVE  entry["path"] # NoInode /\ Whole(entry["path"])
    BY DEF ReaderSeesWhole, AllAtomic, NoneInPlace
  <2>1. NoneInPlace
    BY DEF AllAtomic, NoneInPlace, Only
  <2>2. Filling /\ Sound
    BY <1>1, <2>1 DEF FileInv
  <2>3. entry["path"] \in Nat
    <3>1. entry["path"] \in DOMAIN file /\ file \in Seq(Inode)
      BY <2>2 DEF Filling, FileTypeOK, PathThere
    <3> QED BY <3>1, LenProperties
  <2> QED BY <2>2, <2>3, FileAssumption DEF Sound
<1> QED BY <1>1, FilesInvariant, PTL

(* What write_text_atomic has returned from, or something later, is there      *)
(* after any number of losses of power.                                     *)
THEOREM ReturnedWritesLast == FileSpec => []ReturnedLasts
<1>1. ASSUME FileInv PROVE ReturnedLasts
  <2> SUFFICES ASSUME AllAtomic PROVE Covers(entry["path"])
    BY DEF ReturnedLasts, Covers, AllAtomic
  <2>1. NoneInPlace
    BY DEF AllAtomic, NoneInPlace, Only
  <2> QED BY <1>1, <2>1 DEF FileInv, Lasts, Filling, PathThere
<1> QED BY <1>1, FilesInvariant, PTL

(* No inode of a private file, temporary ones included, is ever open to others. *)
PrivateInv == NoneInPlace /\ private => \A i \in DOMAIN file : file[i].wide = FALSE

LEMMA PrivateStep == FileInv /\ PrivateInv /\ [FileNext]_fileVars => PrivateInv'
<1> SUFFICES ASSUME FileInv, PrivateInv, [FileNext]_fileVars, NoneInPlace', private'
             PROVE  \A i \in DOMAIN file' : file'[i].wide = FALSE
  BY DEF PrivateInv
<1>1. NoneInPlace
  BY WaysStay
<1>2. private' = private
  BY DEF FileNext, FileStep, fileVars, CreateTemp, Piece, Sync, SetMode, Replace, SyncDirectory,
         InstallUnlink, InstallCopy, InstallFinish, DiskFull, Killed, Outage
<1>3. Filling /\ private /\ \A i \in DOMAIN file : file[i].wide = FALSE
  BY <1>1, <1>2, Zenon DEF FileInv, PrivateInv
<1>4. FileTypeOK
  BY <1>3 DEF Filling
<1>5. ASSUME NEW p \in Writer, CreateTemp(p) PROVE \A i \in DOMAIN file' : file'[i].wide = FALSE
  <2> DEFINE new == [text |-> <<>>, wide |-> FALSE]
  <2>1. entry[p] = NoInode /\ TempName(p) = p /\ way[p] # "unit"
    BY <1>1, <1>3, <1>4, <1>5, OwnWay DEF CreateTemp, Filling, OwnInode
  <2>2. file' = Append(file, new) /\ new \in Inode
    BY <1>5, <2>1, EmptySeq DEF CreateTemp, Inode
  <2>3. /\ Len(file) \in Nat /\ DOMAIN file = 1..Len(file) /\ DOMAIN file' = 1..(Len(file) + 1)
        /\ \A i \in DOMAIN file : file'[i] = file[i]
        /\ file'[Len(file) + 1].wide = FALSE
    BY <1>4, <2>2, NewInode
  <2> QED BY <1>3, <2>3
<1>6. ASSUME NEW p \in Writer, Piece(p) PROVE \A i \in DOMAIN file' : file'[i].wide = FALSE
  <2>1. PICK t : file' = [file EXCEPT ![own[p]].text = t]
    BY <1>6 DEF Piece
  <2>2. file \in Seq(Inode)
    BY <1>4 DEF FileTypeOK
  <2>3. DOMAIN file' = DOMAIN file /\ \A i \in DOMAIN file : file[i] \in Inode
    BY <2>1, <2>2, ElementOfSeq, LenProperties
  <2> QED BY <1>3, <2>1, <2>3 DEF Inode
<1>7. ASSUME NEW p \in Writer, SetMode(p) PROVE \A i \in DOMAIN file' : file'[i].wide = FALSE
  <2>1. own[p] \in DOMAIN file /\ way[p] # "sudo"
    BY <1>1, <1>3, <1>4, <1>7, OwnWay DEF SetMode, Filling, OwnInode, Fills
  <2>2. file' = [file EXCEPT ![own[p]].wide = FALSE]
    BY <1>3, <1>7, <2>1 DEF SetMode
  <2> QED BY <1>3, <1>4, <2>1, <2>2, NewMode
<1>8. CASE Outage
  <2>1. PICK i \in pending : file' = file \/ file' = [file EXCEPT ![i].text = <<>>]
    BY <1>8 DEF Outage
  <2>2. file \in Seq(Inode)
    BY <1>4 DEF FileTypeOK
  <2>3. DOMAIN file' = DOMAIN file /\ \A j \in DOMAIN file : file[j] \in Inode
    BY <2>1, <2>2, ElementOfSeq, LenProperties
  <2> QED BY <1>3, <2>1, <2>3 DEF Inode
<1>9. ASSUME NEW p \in Writer PROVE ~InstallUnlink(p) /\ ~InstallCopy(p) /\ ~InstallFinish(p)
  BY <1>4 DEF InstallUnlink, InstallCopy, InstallFinish, FileTypeOK
<1>10. CASE file' = file
  BY <1>3, <1>10
<1>11. ASSUME NEW p \in Writer,
              Sync(p) \/ Replace(p) \/ SyncDirectory(p) \/ DiskFull(p) \/ Killed(p)
       PROVE  file' = file
  BY <1>11 DEF Sync, Replace, SyncDirectory, DiskFull, Killed
<1> QED BY <1>5, <1>6, <1>7, <1>8, <1>9, <1>10, <1>11 DEF FileNext, FileStep, fileVars

(* A secret is at no time in a file that others may read, whichever writer     *)
(* ends where.                                                              *)
THEOREM PrivateFilesStay == FileSpec => [](NoneInPlace => PrivateStays)
<1>1. FileInit => PrivateInv
  <2> SUFFICES ASSUME FileInit, private PROVE \A i \in DOMAIN file : file[i].wide = FALSE
    BY DEF PrivateInv
  <2> DEFINE first == [text |-> <<<<"before", 0>>, <<"before", 0>>>>, wide |-> FALSE]
  <2>1. file = <<first>> /\ first.wide = FALSE
    BY DEF FileInit
  <2> HIDE DEF first
  <2> QED BY <2>1
<1>2. PrivateInv => (NoneInPlace => PrivateStays)
  BY DEF PrivateInv, PrivateStays
<1> QED BY <1>1, <1>2, PrivateStep, FilesInvariant, PTL DEF FileSpec
=============================================================================
