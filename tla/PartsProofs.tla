---------------------------- MODULE PartsProofs ----------------------------
(* What the parts of Parts promise, for all constants that fit *)
(* (PartsFit).  Each section has an invariant of one component that is *)
(* inductive, the lemmas that its steps preserve it, and that it implies *)
(* the component's properties; the last one carries these over to the *)
(* behaviours of the parts.  An instance is written over the variables of *)
(* Parts: a section first gives them the names of its module. *)
EXTENDS Parts, Integers, Sequences, FiniteSets, FiniteSetTheorems, WellFoundedInduction, TLAPS

----------------------------------------
(* NoteFolder.  An item in a cache may be stale, but one that has the time *)
(* of a note has the note's body, as every edit moves the time (NCurrent, *)
(* NSince); what a scan met or found of a note, the note was while the scan *)
(* ran (NHeld, NSeen); and a scan with no edit since it began has found *)
(* what is on disk (NStill). *)

disk == v1
tick == v2
index == v3
scan == v4
edges == v5
current == v6
USE DEF disk, tick, index, scan, edges, current

NMark(c) == [mtime : 0..c.MaxTick, size : {c.Size[b] : b \in c.Bodies}]
NItem(c) == [mtime : 0..c.MaxTick, size : {c.Size[b] : b \in c.Bodies}, body : c.Bodies]
NScan(c) == [at : {"idle", "walk", "read", "resolve", "done"}, op : c.Ops \cup {"none"}, todo : SUBSET c.Paths,
          stats : [c.Paths -> NMark(c) \cup {None}], found : [c.Paths -> NItem(c) \cup {None}],
          held : [c.Paths -> SUBSET (c.Bodies \cup {None})], edited : BOOLEAN]

NTypes(c) ==
    /\ disk \in [c.Paths -> Notes(c)!File \cup {None}] /\ tick \in 0..c.MaxTick
    /\ index \in [c.Paths -> NItem(c) \cup {None}]
    /\ scan \in [c.Readers -> NScan(c)]
    /\ edges \subseteq c.Paths \X c.Paths /\ current \in BOOLEAN

\* No fingerprint is newer than the newest edit, or of a note over the cap.
NOld(c, x) == x # None => x.mtime <= tick /\ x.size <= c.MaxBytes

NTimes(c) ==
    \A p \in c.Paths :
        /\ disk[p] # None => disk[p].mtime <= tick
        /\ NOld(c, index[p])
        /\ \A r \in c.Readers : NOld(c, scan[r].stats[p]) /\ NOld(c, scan[r].found[p])

\* What is known of a note as of a moment.
NKnown(c, p, x) == x = index[p] \/ \E r \in c.Readers : x = scan[r].found[p]

\* An item with the fingerprint of the note has its body.
NCurrent(c) ==
    \A p \in c.Paths : disk[p] # None =>
        \A x : NKnown(c, p, x) /\ x # None /\ x.mtime = disk[p].mtime => x.body = disk[p].body

\* An item with the fingerprint a scan met has a body the note had since.
NSince(c) ==
    \A p \in c.Paths, r \in c.Readers : scan[r].stats[p] # None =>
        \A x : NKnown(c, p, x) /\ x # None /\ x.mtime = scan[r].stats[p].mtime => x.body \in scan[r].held[p]

NHeld(c, r) ==
    scan[r].at # "idle" => \A p \in c.Paths :
        /\ Notes(c)!Held(p) \in scan[r].held[p]
        /\ ~c.KeepsTime /\ scan[r].found[p] # None => scan[r].found[p].body \in scan[r].held[p]

Small(c, s) == \A b \in s : b # None /\ c.Size[b] <= c.MaxBytes

NSeen(c, r) ==
    /\ scan[r].at = "idle" => \A p \in c.Paths : scan[r].stats[p] = None
    /\ scan[r].at = "read" => \A p \in scan[r].todo : scan[r].stats[p] # None
    /\ \A p \in c.Paths : Small(c, scan[r].held[p]) =>
        /\ scan[r].at = "walk" /\ p \notin scan[r].todo => scan[r].stats[p] # None
        /\ scan[r].at \in {"read", "resolve", "done"} => scan[r].stats[p] # None
        /\ scan[r].at = "read" /\ p \notin scan[r].todo => scan[r].found[p] # None
        /\ scan[r].at \in {"resolve", "done"} => scan[r].found[p] # None

NInv1(c) == NTypes(c) /\ NTimes(c) /\ (\A r \in c.Readers : NHeld(c, r) /\ NSeen(c, r)) /\ (~c.KeepsTime => NCurrent(c) /\ NSince(c))

\* The first state.
LEMMA NInit == ASSUME NEW c, Notes(c)!ConstantsFit, Notes(c)!Init PROVE NInv1(c)
<1> USE DEF Notes!Init, Notes!Nowhere
<1>1. NTypes(c)
  <2>1. Notes(c)!Idle \in NScan(c)
    BY DEF Notes!Idle, NScan
  <2>2. 0 \in 0..c.MaxTick /\ Notes(c)!Nowhere \in [c.Paths -> NItem(c) \cup {None}]
    BY DEF Notes!ConstantsFit
  <2> QED BY <2>1, <2>2 DEF NTypes
<1>2. NTimes(c)
  BY DEF NTimes, NOld, Notes!Idle
<1>3. \A r \in c.Readers : NHeld(c, r) /\ NSeen(c, r)
  BY DEF NHeld, NSeen, Notes!Idle
<1>4. NCurrent(c) /\ NSince(c)
  BY DEF NCurrent, NSince, Notes!Idle
<1> QED BY <1>1, <1>2, <1>3, <1>4 DEF NInv1

\* An edit gives a note a time that no cached item of it has, and every scan under way may meet it.
LEMMA NSave ==
    ASSUME NEW c, Notes(c)!ConstantsFit, NInv1(c), NEW p \in c.Paths, Notes(c)!Save(p) \/ Notes(c)!Delete(p)
    PROVE  NInv1(c)'
<1>1. PICK f \in Notes(c)!File \cup {None} :
        /\ Notes(c)!Edit(p, f) /\ tick' \in 0..c.MaxTick /\ tick <= tick'
        /\ f # None => f.mtime <= tick' /\ (~c.KeepsTime => f.mtime > tick)
  <2>1. CASE Notes(c)!Delete(p)
    BY <2>1 DEF Notes!Delete, NInv1, NTypes, Notes!ConstantsFit
  <2>2. CASE Notes(c)!Save(p)
    <3>1. PICK b \in c.Bodies, t \in 1..c.MaxTick :
            /\ t = tick + 1 \/ (c.KeepsTime /\ t <= tick)
            /\ tick' = IF t > tick THEN t ELSE tick
            /\ Notes(c)!Edit(p, [body |-> b, mtime |-> t])
      BY <2>2 DEF Notes!Save
    <3>2. tick \in Nat /\ c.MaxTick \in Nat
      BY DEF NInv1, NTypes, Notes!ConstantsFit
    <3>3. [body |-> b, mtime |-> t] \in Notes(c)!File
      BY <3>2 DEF Notes!File
    <3>4. tick' \in 0..c.MaxTick /\ tick <= tick' /\ t <= tick' /\ (~c.KeepsTime => t > tick)
      BY <3>1, <3>2 DEF NInv1, NTypes
    <3> QED BY <3>1, <3>3, <3>4
  <2> QED BY <2>1, <2>2
<1> DEFINE body == IF f = None THEN None ELSE f.body
<1>2. /\ disk' = [disk EXCEPT ![p] = f] /\ index' = index /\ edges' = edges /\ current' = FALSE
      /\ scan' = [r \in c.Readers |->
                IF scan[r].at = "idle" THEN Notes(c)!Idle
                ELSE [scan[r] EXCEPT !.edited = TRUE, !.held[p] = @ \cup {body}]]
  BY <1>1 DEF Notes!Edit
<1>3. \A r \in c.Readers :
        \/ scan'[r] = Notes(c)!Idle
        \/ /\ scan[r].at # "idle"
           /\ scan'[r] = [scan[r] EXCEPT !.edited = TRUE, !.held[p] = @ \cup {body}]
  BY <1>2
<1>4. \A r \in c.Readers : scan[r] \in NScan(c)
  BY DEF NInv1, NTypes
<1>5. Notes(c)!Idle \in NScan(c) /\ body \in c.Bodies \cup {None}
  BY DEF Notes!Idle, NScan, Notes!Nowhere, Notes!File
<1>6. \A r \in c.Readers :
        \/ scan'[r] = Notes(c)!Idle
        \/ /\ scan[r].at # "idle" /\ scan'[r] \in NScan(c)
           /\ scan'[r].at = scan[r].at /\ scan'[r].op = scan[r].op /\ scan'[r].todo = scan[r].todo
           /\ scan'[r].stats = scan[r].stats /\ scan'[r].found = scan[r].found
           /\ scan'[r].held = [scan[r].held EXCEPT ![p] = @ \cup {body}]
  <2> SUFFICES ASSUME NEW r \in c.Readers, scan[r].at # "idle",
                      scan'[r] = [scan[r] EXCEPT !.edited = TRUE, !.held[p] = @ \cup {body}]
               PROVE  /\ scan'[r] \in NScan(c)
                      /\ scan'[r].at = scan[r].at /\ scan'[r].op = scan[r].op /\ scan'[r].todo = scan[r].todo
                      /\ scan'[r].stats = scan[r].stats /\ scan'[r].found = scan[r].found
                      /\ scan'[r].held = [scan[r].held EXCEPT ![p] = @ \cup {body}]
    BY <1>3
  <2>1. scan[r] \in NScan(c) /\ scan[r].held \in [c.Paths -> SUBSET (c.Bodies \cup {None})]
    BY <1>4 DEF NScan
  <2> DEFINE h == [scan[r].held EXCEPT ![p] = scan[r].held[p] \cup {body}]
  <2>2. h \in [c.Paths -> SUBSET (c.Bodies \cup {None})]
    BY <2>1, <1>5
  <2>3. scan'[r] = [[scan[r] EXCEPT !.edited = TRUE] EXCEPT !.held = h]
    BY <2>1 DEF NScan
  <2> HIDE DEF h
  <2>4. /\ scan'[r] \in NScan(c)
        /\ scan'[r].at = scan[r].at /\ scan'[r].op = scan[r].op /\ scan'[r].todo = scan[r].todo
        /\ scan'[r].stats = scan[r].stats /\ scan'[r].found = scan[r].found
        /\ scan'[r].held = h
    BY <2>1, <2>2, <2>3 DEF NScan
  <2> QED BY <2>4 DEF h
<1>7. NTypes(c)'
  BY <1>1, <1>2, <1>5, <1>6 DEF NTypes, NInv1
<1>8. NTimes(c)'
  <2>1. tick \in Nat /\ tick' \in Nat
    BY <1>1 DEF NInv1, NTypes, Notes!ConstantsFit
  <2>2. \A q \in c.Paths : disk'[q] # None => disk'[q].mtime <= tick'
    <3>1. \A q \in c.Paths : disk[q] # None => disk[q].mtime \in Nat /\ disk[q].mtime <= tick
      BY DEF NInv1, NTimes, NOld, NTypes, Notes!File
    <3>2. f # None => f.mtime <= tick'
      BY <1>1
    <3>3. \A q \in c.Paths : disk'[q] = IF q = p THEN f ELSE disk[q]
      BY <1>2 DEF NInv1, NTypes
    <3> QED BY <1>1, <2>1, <3>1, <3>2, <3>3
  <2>3. \A q \in c.Paths, r \in c.Readers :
          \/ scan'[r].stats[q] = None /\ scan'[r].found[q] = None
          \/ scan'[r].stats[q] = scan[r].stats[q] /\ scan'[r].found[q] = scan[r].found[q]
    <3>1. \A t : t = Notes(c)!Idle => t.stats = Notes(c)!Nowhere /\ t.found = Notes(c)!Nowhere
      BY DEF Notes!Idle
    <3>2. \A q \in c.Paths : \A t : t = Notes(c)!Idle => t.stats[q] = None /\ t.found[q] = None
      BY <3>1 DEF Notes!Nowhere
    <3>3. \A r \in c.Readers : scan'[r] = Notes(c)!Idle \/ (scan'[r].stats = scan[r].stats /\ scan'[r].found = scan[r].found)
      BY <1>6
    <3> QED BY <3>2, <3>3
  <2>4. \A x \in Nat : x <= tick => x <= tick'
    BY <1>1, <2>1
  <2>5. ASSUME NEW q \in c.Paths
        PROVE  /\ index[q] # None => index[q].mtime \in Nat
               /\ \A r \in c.Readers : /\ scan[r].stats[q] # None => scan[r].stats[q].mtime \in Nat
                                       /\ scan[r].found[q] # None => scan[r].found[q].mtime \in Nat
    BY <1>4 DEF NInv1, NTypes, NScan, NMark, NItem
  <2>6. NTimes(c)
    BY DEF NInv1
  <2>7. \A x : NOld(c, x) /\ (x # None => x.mtime \in Nat) => NOld(c, x)'
    BY <2>4 DEF NOld
  <2>8. NOld(c, None)'
    BY DEF NOld
  <2>9. ASSUME NEW q \in c.Paths
        PROVE  NOld(c, index[q])' /\ \A r \in c.Readers : NOld(c, scan[r].stats[q])' /\ NOld(c, scan[r].found[q])'
    <3>1. NOld(c, index[q])'
      BY <1>2, <2>5, <2>6, <2>7 DEF NTimes
    <3>2. ASSUME NEW r \in c.Readers PROVE NOld(c, scan[r].stats[q])' /\ NOld(c, scan[r].found[q])'
      <4>1. NOld(c, scan[r].stats[q]) /\ NOld(c, scan[r].found[q])
        BY <2>6 DEF NTimes
      <4>2. CASE scan'[r].stats[q] = None /\ scan'[r].found[q] = None
        BY <4>2, <2>8
      <4>3. CASE scan'[r].stats[q] = scan[r].stats[q] /\ scan'[r].found[q] = scan[r].found[q]
        <5>0. /\ scan[r].stats[q] # None => scan[r].stats[q].mtime \in Nat
              /\ scan[r].found[q] # None => scan[r].found[q].mtime \in Nat
          BY <2>5
        <5>1. NOld(c, scan[r].stats[q])'
          BY <4>1, <4>3, <5>0, <2>4 DEF NOld
        <5>2. NOld(c, scan[r].found[q])'
          BY <4>1, <4>3, <5>0, <2>4 DEF NOld
        <5> QED BY <5>1, <5>2
      <4> QED BY <2>3, <4>2, <4>3
    <3> QED BY <3>1, <3>2
  <2> QED BY <2>2, <2>9 DEF NTimes
<1>9. ASSUME NEW r \in c.Readers PROVE NHeld(c, r)' /\ NSeen(c, r)'
  <2>1. CASE scan'[r] = Notes(c)!Idle
    <3>1. \A t : t = Notes(c)!Idle => t.at = "idle" /\ \A q \in c.Paths : t.stats[q] = None
      BY DEF Notes!Idle, Notes!Nowhere
    <3> QED BY <2>1, <3>1 DEF NHeld, NSeen
  <2>2. CASE scan'[r] # Notes(c)!Idle
    <3>0. NHeld(c, r) /\ NSeen(c, r)
      BY DEF NInv1
    <3>1. \A q \in c.Paths : scan[r].held[q] \subseteq scan'[r].held[q]
      <4>1. scan[r].held \in [c.Paths -> SUBSET (c.Bodies \cup {None})]
        BY <1>4 DEF NScan
      <4>2. scan'[r].held = [scan[r].held EXCEPT ![p] = @ \cup {body}]
        BY <1>6, <2>2
      <4> QED BY <4>1, <4>2
    <3>2. \A q \in c.Paths : Notes(c)!Held(q)' \in scan'[r].held[q]
      <4>1. body \in scan'[r].held[p] /\ Notes(c)!Held(p)' = body
        <5>1. scan[r].held \in [c.Paths -> SUBSET (c.Bodies \cup {None})]
          BY <1>4 DEF NScan
        <5>2. scan'[r].held = [scan[r].held EXCEPT ![p] = @ \cup {body}]
          BY <1>6, <2>2
        <5>3. disk'[p] = f
          BY <1>2 DEF NInv1, NTypes
        <5> QED BY <5>1, <5>2, <5>3 DEF Notes!Held
      <4>2. \A q \in c.Paths : q # p => Notes(c)!Held(q)' = Notes(c)!Held(q)
        BY <1>2 DEF Notes!Held, NInv1, NTypes
      <4> QED BY <4>1, <4>2, <3>0, <3>1, <1>6, <2>2 DEF NHeld
    <3>3. NHeld(c, r)'
      BY <3>0, <3>1, <3>2, <1>6, <2>2 DEF NHeld
    <3>4. \A q \in c.Paths : Small(c, scan'[r].held[q]) => Small(c, scan[r].held[q])
      BY <3>1 DEF Small
    <3> QED BY <3>0, <3>3, <3>4, <1>6, <2>2 DEF NSeen
  <2> QED BY <2>1, <2>2
<1>10. ASSUME ~c.KeepsTime PROVE NCurrent(c)' /\ NSince(c)'
  <2>1. \A q \in c.Paths : \A x : NKnown(c, q, x)' /\ x # None => NKnown(c, q, x)
    BY <1>2, <1>6 DEF NKnown, Notes!Idle, Notes!Nowhere
  <2>2. NCurrent(c)'
    <3> SUFFICES ASSUME NEW q \in c.Paths, disk'[q] # None, NEW x, NKnown(c, q, x)', x # None, x.mtime = disk'[q].mtime
                 PROVE x.body = disk'[q].body
      BY DEF NCurrent
    <3>1. CASE q # p
      BY <3>1, <2>1, <1>2, <1>10 DEF NCurrent, NInv1, NTypes
    <3>2. CASE q = p
      <4>1. disk'[q] = f
        BY <3>2, <1>2 DEF NInv1, NTypes
      <4>2. x.mtime <= tick /\ tick \in Nat /\ x.mtime \in Nat
        <5>1. NKnown(c, q, x) /\ tick \in Nat
          BY <2>1 DEF NInv1, NTypes
        <5>2. CASE x = index[q]
          BY <5>1, <5>2 DEF NInv1, NTimes, NOld, NTypes, NItem
        <5>3. ASSUME NEW r \in c.Readers, x = scan[r].found[q] PROVE x.mtime <= tick /\ x.mtime \in Nat
          <6>1. x \in NItem(c)
            BY <1>4, <5>3 DEF NScan
          <6> QED BY <6>1, <5>3 DEF NInv1, NTimes, NOld, NItem
        <5> QED BY <5>1, <5>2, <5>3 DEF NKnown
      <4> QED BY <4>1, <4>2, <1>1, <1>10
    <3> QED BY <3>1, <3>2
  <2>3. NSince(c)'
    <3> SUFFICES ASSUME NEW q \in c.Paths, NEW r \in c.Readers, scan'[r].stats[q] # None,
                        NEW x, NKnown(c, q, x)', x # None, x.mtime = scan'[r].stats[q].mtime
                 PROVE x.body \in scan'[r].held[q]
      BY DEF NSince
    <3>1. scan'[r] # Notes(c)!Idle
      BY DEF Notes!Idle, Notes!Nowhere
    <3>2. scan[r].held[q] \subseteq scan'[r].held[q] /\ scan'[r].stats = scan[r].stats
      <4>1. scan[r].held \in [c.Paths -> SUBSET (c.Bodies \cup {None})]
        BY <1>4 DEF NScan
      <4>2. scan'[r].held = [scan[r].held EXCEPT ![p] = @ \cup {body}] /\ scan'[r].stats = scan[r].stats
        BY <1>6, <3>1
      <4> QED BY <4>1, <4>2
    <3> QED BY <3>2, <2>1, <1>10 DEF NSince, NInv1
  <2> QED BY <2>2, <2>3
<1> QED BY <1>7, <1>8, <1>9, <1>10 DEF NInv1
\* A step of one scan, which knows of nothing the invariant has not accounted for.

\* A step of one scan that leaves the disk and the cache alone says nothing of the others.
LEMMA NScanStep ==
    ASSUME NEW c, Notes(c)!ConstantsFit, NInv1(c), NEW r \in c.Readers, NEW t \in NScan(c),
           scan' = [scan EXCEPT ![r] = t], UNCHANGED <<disk, tick>>,
           index' = index \/ index' = scan[r].found, edges' \subseteq c.Paths \X c.Paths, current' \in BOOLEAN,
           \A p \in c.Paths :
             /\ t.stats[p] # None => t.stats[p].mtime <= tick /\ t.stats[p].size <= c.MaxBytes
             /\ t.found[p] # None => t.found[p].mtime <= tick /\ t.found[p].size <= c.MaxBytes,
           NHeld(c, r)', NSeen(c, r)',
           ~c.KeepsTime => \A p \in c.Paths :
             /\ disk[p] # None /\ t.found[p] # None /\ t.found[p].mtime = disk[p].mtime => t.found[p].body = disk[p].body
             /\ \A q \in c.Readers \ {r} : scan[q].stats[p] # None /\ t.found[p] # None
                   /\ t.found[p].mtime = scan[q].stats[p].mtime => t.found[p].body \in scan[q].held[p]
             /\ t.stats[p] # None => \A x : (NKnown(c, p, x) \/ x = t.found[p]) /\ x # None /\ x.mtime = t.stats[p].mtime
                                              => x.body \in t.held[p]
    PROVE  NInv1(c)'
<1>1. scan'[r] = t /\ \A q \in c.Readers : q # r => scan'[q] = scan[q]
  BY DEF NInv1, NTypes
<1>2. NTypes(c)'
  <2>1. scan[r].found \in [c.Paths -> NItem(c) \cup {None}]
    BY DEF NInv1, NTypes, NScan
  <2> QED BY <2>1 DEF NInv1, NTypes, Notes!File
<1>3. NTimes(c)'
  <2>1. \A p \in c.Paths : index'[p] # None => index'[p].mtime <= tick /\ index'[p].size <= c.MaxBytes
    BY DEF NInv1, NTimes, NOld
  <2> QED BY <1>1, <2>1 DEF NInv1, NTimes, NOld
<1>4. \A q \in c.Readers : NHeld(c, q)' /\ NSeen(c, q)'
  <2> SUFFICES ASSUME NEW q \in c.Readers, q # r PROVE NHeld(c, q)' /\ NSeen(c, q)'
    OBVIOUS
  <2>1. \A p \in c.Paths : Notes(c)!Held(p)' = Notes(c)!Held(p)
    BY DEF Notes!Held
  <2> QED BY <1>1, <2>1 DEF NInv1, NHeld, NSeen
<1>5. ASSUME ~c.KeepsTime PROVE NCurrent(c)' /\ NSince(c)'
  <2>1. \A p \in c.Paths : \A x : NKnown(c, p, x)' => NKnown(c, p, x) \/ x = t.found[p]
    BY <1>1 DEF NKnown
  <2>2. NCurrent(c)'
    BY <2>1, <1>5 DEF NCurrent, NInv1
  <2>3. ASSUME NEW p \in c.Paths, NEW q \in c.Readers, scan'[q].stats[p] # None,
               NEW x, NKnown(c, p, x)', x # None, x.mtime = scan'[q].stats[p].mtime
        PROVE  x.body \in scan'[q].held[p]
    <3>1. CASE q = r
      BY <3>1, <1>1, <2>1, <2>3, <1>5
    <3>2. CASE q # r
      BY <3>2, <1>1, <2>1, <2>3, <1>5 DEF NSince, NInv1
    <3> QED BY <3>1, <3>2
  <2> QED BY <2>2, <2>3 DEF NSince
<1> QED BY <1>2, <1>3, <1>4, <1>5 DEF NInv1

\* A scan begins with what the notes are now.
LEMMA NBegin ==
    ASSUME NEW c, Notes(c)!ConstantsFit, NInv1(c), NEW r \in c.Readers, NEW op \in c.Ops, Notes(c)!Begin(r, op)
    PROVE  NInv1(c)'
<1> DEFINE t == [Notes(c)!Idle EXCEPT !.at = "walk", !.op = op, !.todo = c.Paths, !.held = [p \in c.Paths |-> {Notes(c)!Held(p)}]]
<1>1. /\ t.at = "walk" /\ t.todo = c.Paths /\ t.held = [p \in c.Paths |-> {Notes(c)!Held(p)}]
      /\ t.stats = Notes(c)!Nowhere /\ t.found = Notes(c)!Nowhere
  BY DEF Notes!Idle
<1>2. t \in NScan(c)
  <2>1. \A p \in c.Paths : Notes(c)!Held(p) \in c.Bodies \cup {None}
    BY DEF NInv1, NTypes, Notes!Held, Notes!File
  <2>2. [p \in c.Paths |-> {Notes(c)!Held(p)}] \in [c.Paths -> SUBSET (c.Bodies \cup {None})]
    BY <2>1
  <2> QED BY <2>2 DEF Notes!Idle, NScan, Notes!Nowhere
<1>3. scan' = [scan EXCEPT ![r] = t] /\ UNCHANGED <<disk, tick, index, edges, current>>
  BY DEF Notes!Begin
<1> HIDE DEF t
<1>4. scan'[r] = t /\ \A p \in c.Paths : t.stats[p] = None /\ t.found[p] = None
  BY <1>1, <1>3 DEF NInv1, NTypes, Notes!Nowhere
<1>5. NHeld(c, r)' /\ NSeen(c, r)'
  BY <1>1, <1>3, <1>4 DEF NHeld, NSeen, Notes!Held
<1> QED BY <1>2, <1>3, <1>4, <1>5, NScanStep DEF NInv1, NTypes

\* A scan meets a note: what it notes is what the note is at that moment.
LEMMA NStat ==
    ASSUME NEW c, Notes(c)!ConstantsFit, NInv1(c), NEW r \in c.Readers, Notes(c)!Stat(r)
    PROVE  NInv1(c)'
<1>1. PICK p \in scan[r].todo : scan' = [scan EXCEPT ![r].todo = @ \ {p},
                            ![r].stats[p] = IF Notes(c)!Eligible(disk[p]) THEN Notes(c)!Mark(disk[p]) ELSE None]
  BY DEF Notes!Stat
<1> DEFINE mark == IF Notes(c)!Eligible(disk[p]) THEN Notes(c)!Mark(disk[p]) ELSE None
           s == [scan[r].stats EXCEPT ![p] = mark]
           t == [[scan[r] EXCEPT !.todo = @ \ {p}] EXCEPT !.stats = s]
<1>2. scan[r] \in NScan(c) /\ scan[r].at = "walk" /\ p \in c.Paths /\ UNCHANGED <<disk, tick, index, edges, current>>
  BY <1>1 DEF NInv1, NTypes, NScan, Notes!Stat
<1>3. /\ mark # None => /\ disk[p] # None /\ mark.mtime = disk[p].mtime /\ mark.size <= c.MaxBytes
      /\ Notes(c)!Eligible(disk[p]) => mark # None
      /\ mark \in NMark(c) \cup {None}
  <2>1. CASE Notes(c)!Eligible(disk[p])
    <3>1. disk[p] # None /\ disk[p] \in Notes(c)!File /\ c.Size[disk[p].body] <= c.MaxBytes
      BY <1>2, <2>1 DEF Notes!Eligible, NInv1, NTypes
    <3>2. mark = [mtime |-> disk[p].mtime, size |-> c.Size[disk[p].body]]
      BY <2>1 DEF Notes!Mark
    <3>3. mark # None
      BY <3>1, <3>2 DEF Notes!File, Notes!ConstantsFit
    <3> QED BY <3>1, <3>2, <3>3 DEF Notes!File, NMark
  <2> QED BY <2>1
<1> HIDE DEF mark
<1>4. s \in [c.Paths -> NMark(c) \cup {None}]
  BY <1>2, <1>3 DEF NScan
<1>5. scan' = [scan EXCEPT ![r] = t]
  BY <1>1, <1>2 DEF NScan, NInv1, NTypes, mark
<1>6. /\ t \in NScan(c) /\ t.at = "walk" /\ t.todo = scan[r].todo \ {p} /\ t.stats = s
      /\ t.found = scan[r].found /\ t.held = scan[r].held
  <2> HIDE DEF s
  <2> QED BY <1>2, <1>4 DEF NScan
<1> HIDE DEF t
<1>7. scan'[r] = t
  BY <1>5 DEF NInv1, NTypes
<1>8. \A q \in c.Paths : t.stats[q] = IF q = p THEN mark ELSE scan[r].stats[q]
  BY <1>2, <1>6 DEF NScan
<1>9. NHeld(c, r)'
  BY <1>2, <1>6, <1>7 DEF NInv1, NHeld, Notes!Held
<1>10. NSeen(c, r)'
  <2>1. Small(c, scan[r].held[p]) => mark # None
    BY <1>2, <1>3 DEF NInv1, NHeld, Small, Notes!Held, Notes!Eligible
  <2>2. NSeen(c, r) /\ t.at = "walk" /\ t.todo = scan[r].todo \ {p} /\ t.held = scan[r].held
    BY <1>6 DEF NInv1
  <2>3. ASSUME NEW q \in c.Paths, Small(c, t.held[q]), q \notin t.todo PROVE t.stats[q] # None
    BY <2>1, <2>2, <2>3, <1>2, <1>8 DEF NSeen
  <2> QED BY <2>2, <2>3, <1>7 DEF NSeen
<1>11. ASSUME ~c.KeepsTime, NEW q \in c.Paths
       PROVE  /\ disk[q] # None /\ t.found[q] # None /\ t.found[q].mtime = disk[q].mtime => t.found[q].body = disk[q].body
              /\ \A u \in c.Readers \ {r} : scan[u].stats[q] # None /\ t.found[q] # None
                   /\ t.found[q].mtime = scan[u].stats[q].mtime => t.found[q].body \in scan[u].held[q]
              /\ t.stats[q] # None => \A x : (NKnown(c, q, x) \/ x = t.found[q]) /\ x # None /\ x.mtime = t.stats[q].mtime
                                              => x.body \in t.held[q]
  <2>1. NKnown(c, q, t.found[q])
    BY <1>6 DEF NKnown
  <2>2. CASE q # p
    BY <2>1, <2>2, <1>6, <1>8, <1>11 DEF NInv1, NCurrent, NSince
  <2>3. CASE q = p
    <3>1. ASSUME NEW x, NKnown(c, p, x), x # None, mark # None, x.mtime = mark.mtime
          PROVE  x.body \in scan[r].held[p]
      <4>1. x.body = disk[p].body
        BY <3>1, <1>2, <1>3, <1>11 DEF NInv1, NCurrent
      <4> QED BY <4>1, <3>1, <1>2, <1>3 DEF NInv1, NHeld, Notes!Held
    <3> QED BY <2>1, <2>3, <3>1, <1>2, <1>6, <1>8, <1>11 DEF NInv1, NCurrent, NSince
  <2> QED BY <2>2, <2>3
<1>12. \A q \in c.Paths :
             /\ t.stats[q] # None => t.stats[q].mtime <= tick /\ t.stats[q].size <= c.MaxBytes
             /\ t.found[q] # None => t.found[q].mtime <= tick /\ t.found[q].size <= c.MaxBytes
  BY <1>2, <1>3, <1>6, <1>8 DEF NInv1, NTimes, NOld
<1> QED BY <1>2, <1>5, <1>6, <1>9, <1>10, <1>11, <1>12, NScanStep DEF NInv1, NTypes

\* A scan that has met all notes has met each that was small enough all the while.
LEMMA NWalked ==
    ASSUME NEW c, Notes(c)!ConstantsFit, NInv1(c), NEW r \in c.Readers, Notes(c)!Walked(r)
    PROVE  NInv1(c)'
<1> DEFINE todo == {p \in c.Paths : scan[r].stats[p] # None}
           t == [[scan[r] EXCEPT !.at = "read"] EXCEPT !.todo = todo]
<1>1. scan[r] \in NScan(c) /\ scan[r].at = "walk" /\ scan[r].todo = {} /\ UNCHANGED <<disk, tick, index, edges, current>>
  BY DEF NInv1, NTypes, Notes!Walked
<1>2. scan' = [scan EXCEPT ![r] = t]
  BY <1>1 DEF Notes!Walked, NInv1, NTypes, NScan
<1>3. /\ t \in NScan(c) /\ t.at = "read" /\ t.todo = todo /\ t.stats = scan[r].stats
      /\ t.found = scan[r].found /\ t.held = scan[r].held
  BY <1>1 DEF NScan
<1> HIDE DEF t
<1>4. scan'[r] = t
  BY <1>2 DEF NInv1, NTypes
<1>5. NHeld(c, r)' /\ NSeen(c, r)'
  BY <1>1, <1>3, <1>4 DEF NInv1, NHeld, NSeen, Notes!Held
<1>6. \A q \in c.Paths :
             /\ t.stats[q] # None => t.stats[q].mtime <= tick /\ t.stats[q].size <= c.MaxBytes
             /\ t.found[q] # None => t.found[q].mtime <= tick /\ t.found[q].size <= c.MaxBytes
  BY <1>3 DEF NInv1, NTimes, NOld
<1>7. ASSUME ~c.KeepsTime, NEW p \in c.Paths
       PROVE /\ disk[p] # None /\ t.found[p] # None /\ t.found[p].mtime = disk[p].mtime => t.found[p].body = disk[p].body
             /\ \A q \in c.Readers \ {r} : scan[q].stats[p] # None /\ t.found[p] # None
                   /\ t.found[p].mtime = scan[q].stats[p].mtime => t.found[p].body \in scan[q].held[p]
             /\ t.stats[p] # None => \A x : (NKnown(c, p, x) \/ x = t.found[p]) /\ x # None /\ x.mtime = t.stats[p].mtime
                                              => x.body \in t.held[p]
  <2>1. NKnown(c, p, t.found[p])
    BY <1>3 DEF NKnown
  <2> QED BY <1>3, <1>7, <2>1 DEF NInv1, NCurrent, NSince
<1> QED BY <1>1, <1>2, <1>3, <1>5, <1>6, <1>7, NScanStep DEF NInv1, NTypes

\* A scan takes a note from the cache, if time and size are the same, or from the disk.
LEMMA NRead ==
    ASSUME NEW c, Notes(c)!ConstantsFit, NInv1(c), NEW r \in c.Readers, Notes(c)!Read(r)
    PROVE  NInv1(c)'
<1> DEFINE Body(p) == IF Notes(c)!Cached(p, scan[r].stats[p]) THEN index[p].body ELSE Notes(c)!Held(p)
           Item(p) == IF Body(p) = None THEN None
                      ELSE [mtime |-> scan[r].stats[p].mtime, size |-> scan[r].stats[p].size, body |-> Body(p)]
<1>1. PICK p \in scan[r].todo : scan' = [scan EXCEPT ![r].todo = @ \ {p}, ![r].found[p] = Item(p)]
  BY DEF Notes!Read
<1> DEFINE item == Item(p)
           f == [scan[r].found EXCEPT ![p] = item]
           t == [[scan[r] EXCEPT !.todo = @ \ {p}] EXCEPT !.found = f]
           s == scan[r].stats[p]
<1>2. scan[r] \in NScan(c) /\ scan[r].at = "read" /\ p \in c.Paths /\ UNCHANGED <<disk, tick, index, edges, current>>
  BY <1>1 DEF NInv1, NTypes, NScan, Notes!Read
<1>3. s # None /\ s \in NMark(c) /\ s.mtime <= tick /\ s.size <= c.MaxBytes
  BY <1>1, <1>2 DEF NInv1, NSeen, NScan, NTimes, NOld
<1>4. Body(p) \in c.Bodies \cup {None} /\ Notes(c)!Held(p) \in c.Bodies \cup {None}
  BY <1>2 DEF NInv1, NTypes, Notes!Held, Notes!Cached, NItem, Notes!File
<1>5. /\ item \in NItem(c) \cup {None}
      /\ Body(p) # None => item # None /\ item.body = Body(p) /\ item.mtime = s.mtime /\ item.size = s.size
      /\ Body(p) = None => item = None
  <2>1. CASE Body(p) # None
    <3>1. item = [mtime |-> s.mtime, size |-> s.size, body |-> Body(p)] /\ Body(p) \in c.Bodies
      BY <2>1, <1>4
    <3> HIDE DEF Body, Item
    <3>2. item \in NItem(c) /\ item.body = Body(p) /\ item.mtime = s.mtime /\ item.size = s.size
      BY <1>3, <3>1 DEF NItem, NMark
    <3>3. item # None
      BY <3>2 DEF NItem, Notes!ConstantsFit
    <3> QED BY <2>1, <3>2, <3>3
  <2>2. CASE Body(p) = None
    BY <2>2
  <2> QED BY <2>1, <2>2
\* What is known with the fingerprint is a body the note had in this scan.
<1>6. ~c.KeepsTime /\ item # None => item.body \in scan[r].held[p]
  <2>1. Notes(c)!Cached(p, s) => NKnown(c, p, index[p]) /\ index[p] # None /\ index[p].mtime = s.mtime
    BY DEF NKnown, Notes!Cached
  <2> HIDE DEF item, Item
  <2> QED BY <1>2, <1>3, <1>5, <2>1 DEF NInv1, NSince, NHeld
\* It comes from the cache, under the same time, or is what the note is.
<1>7. item # None => \/ NKnown(c, p, index[p]) /\ index[p] # None /\ index[p].mtime = item.mtime /\ item.body = index[p].body
                     \/ item.body = Notes(c)!Held(p)
  <2> HIDE DEF item, Item
  <2> QED BY <1>5 DEF NKnown, Notes!Cached
<1>8. Small(c, scan[r].held[p]) => item # None
  <2>1. Small(c, scan[r].held[p]) => Notes(c)!Held(p) # None
    BY <1>2 DEF NInv1, NHeld, Small
  <2>2. Notes(c)!Cached(p, s) => Body(p) # None
    BY <1>2 DEF NInv1, NTypes, NItem, Notes!Cached, Notes!ConstantsFit
  <2>3. ~Notes(c)!Cached(p, s) => Body(p) = Notes(c)!Held(p)
    OBVIOUS
  <2> HIDE DEF item, Item, Body
  <2> QED BY <1>5, <2>1, <2>2, <2>3
<1> HIDE DEF item, Item, Body
<1>9. f \in [c.Paths -> NItem(c) \cup {None}]
  BY <1>2, <1>5 DEF NScan
<1>10. scan' = [scan EXCEPT ![r] = t]
  BY <1>1, <1>2 DEF NScan, NInv1, NTypes, item
<1>11. /\ t \in NScan(c) /\ t.at = "read" /\ t.todo = scan[r].todo \ {p} /\ t.found = f
       /\ t.stats = scan[r].stats /\ t.held = scan[r].held
  <2> HIDE DEF f
  <2> QED BY <1>2, <1>9 DEF NScan
<1> HIDE DEF t
<1>12. scan'[r] = t
  BY <1>10 DEF NInv1, NTypes
<1>13. \A q \in c.Paths : t.found[q] = IF q = p THEN item ELSE scan[r].found[q]
  BY <1>2, <1>11 DEF NScan
<1>14. NHeld(c, r)'
  BY <1>2, <1>6, <1>11, <1>12, <1>13 DEF NInv1, NHeld, Notes!Held
<1>15. NSeen(c, r)'
  <2>1. NSeen(c, r) /\ t.at = "read" /\ t.todo = scan[r].todo \ {p} /\ t.stats = scan[r].stats /\ t.held = scan[r].held
    BY <1>11 DEF NInv1
  <2>2. \A q \in t.todo : t.stats[q] # None
    BY <2>1, <1>2 DEF NSeen
  <2>3. \A q \in c.Paths : Small(c, t.held[q]) => t.stats[q] # None
    BY <2>1, <1>2 DEF NSeen
  <2>4. \A q \in c.Paths : Small(c, t.held[q]) /\ q \notin t.todo => t.found[q] # None
    BY <2>1, <1>2, <1>8, <1>13 DEF NSeen
  <2> QED BY <2>1, <2>2, <2>3, <2>4, <1>12 DEF NSeen
<1>16. ASSUME ~c.KeepsTime, NEW q \in c.Paths
       PROVE  /\ disk[q] # None /\ t.found[q] # None /\ t.found[q].mtime = disk[q].mtime => t.found[q].body = disk[q].body
              /\ \A u \in c.Readers \ {r} : scan[u].stats[q] # None /\ t.found[q] # None
                   /\ t.found[q].mtime = scan[u].stats[q].mtime => t.found[q].body \in scan[u].held[q]
              /\ t.stats[q] # None => \A x : (NKnown(c, q, x) \/ x = t.found[q]) /\ x # None /\ x.mtime = t.stats[q].mtime
                                              => x.body \in t.held[q]
  <2>1. CASE q # p
    <3>1. NKnown(c, q, t.found[q])
      BY <2>1, <1>13 DEF NKnown
    <3> QED BY <3>1, <1>11, <1>16 DEF NInv1, NCurrent, NSince
  <2>2. CASE q = p
    <3>1. t.found[q] = item
      BY <2>2, <1>13
    <3>2. disk[p] # None /\ item # None /\ item.mtime = disk[p].mtime => item.body = disk[p].body
      BY <1>7, <1>16, <1>2 DEF NInv1, NCurrent, Notes!Held
    <3>3. ASSUME NEW u \in c.Readers, scan[u].stats[p] # None, item # None, item.mtime = scan[u].stats[p].mtime
          PROVE  item.body \in scan[u].held[p]
      <4>1. scan[u].at # "idle"
        BY <3>3, <1>2 DEF NInv1, NSeen
      <4> QED BY <4>1, <3>3, <1>7, <1>16, <1>2 DEF NInv1, NSince, NHeld
    <3>4. ASSUME NEW x, NKnown(c, p, x) \/ x = item, x # None, t.stats[p] # None, x.mtime = t.stats[p].mtime
          PROVE  x.body \in t.held[p]
      <4>1. CASE x = item
        BY <4>1, <3>4, <1>6, <1>11, <1>16
      <4>2. CASE NKnown(c, p, x)
        BY <4>2, <3>4, <1>2, <1>11, <1>16 DEF NInv1, NSince
      <4> QED BY <3>4, <4>1, <4>2
    <3> QED BY <2>2, <3>1, <3>2, <3>3, <3>4
  <2> QED BY <2>1, <2>2
<1>17. \A q \in c.Paths :
             /\ t.stats[q] # None => t.stats[q].mtime <= tick /\ t.stats[q].size <= c.MaxBytes
             /\ t.found[q] # None => t.found[q].mtime <= tick /\ t.found[q].size <= c.MaxBytes
  BY <1>2, <1>3, <1>5, <1>11, <1>13 DEF NInv1, NTimes, NOld
<1> QED BY <1>2, <1>10, <1>11, <1>14, <1>15, <1>16, <1>17, NScanStep DEF NInv1, NTypes

\* Steps that end a part of a scan: it keeps what it found, or is over.

\* A scan goes on with what it found.
LEMMA NMove ==
    ASSUME NEW c, Notes(c)!ConstantsFit, NInv1(c), NEW r \in c.Readers, NEW at \in {"resolve", "done"}, scan[r].at = "read", scan[r].todo = {},
           scan' = [scan EXCEPT ![r].at = at], index' = scan[r].found, UNCHANGED <<disk, tick, edges, current>>
    PROVE  NInv1(c)'
<1> DEFINE t == [scan[r] EXCEPT !.at = at]
<1>1. scan[r] \in NScan(c) /\ scan' = [scan EXCEPT ![r] = t]
  BY DEF NInv1, NTypes
<1>2. /\ t \in NScan(c) /\ t.at = at /\ t.todo = scan[r].todo /\ t.stats = scan[r].stats
      /\ t.found = scan[r].found /\ t.held = scan[r].held
  BY <1>1 DEF NScan
<1> HIDE DEF t
<1>3. scan'[r] = t
  BY <1>1 DEF NInv1, NTypes
<1>4. NHeld(c, r)' /\ NSeen(c, r)'
  BY <1>2, <1>3 DEF NInv1, NHeld, NSeen, Notes!Held
<1>5. \A q \in c.Paths :
             /\ t.stats[q] # None => t.stats[q].mtime <= tick /\ t.stats[q].size <= c.MaxBytes
             /\ t.found[q] # None => t.found[q].mtime <= tick /\ t.found[q].size <= c.MaxBytes
  BY <1>2 DEF NInv1, NTimes, NOld
<1>6. ASSUME ~c.KeepsTime, NEW p \in c.Paths
       PROVE /\ disk[p] # None /\ t.found[p] # None /\ t.found[p].mtime = disk[p].mtime => t.found[p].body = disk[p].body
             /\ \A q \in c.Readers \ {r} : scan[q].stats[p] # None /\ t.found[p] # None
                   /\ t.found[p].mtime = scan[q].stats[p].mtime => t.found[p].body \in scan[q].held[p]
             /\ t.stats[p] # None => \A x : (NKnown(c, p, x) \/ x = t.found[p]) /\ x # None /\ x.mtime = t.stats[p].mtime
                                              => x.body \in t.held[p]
  <2>1. NKnown(c, p, t.found[p])
    BY <1>2 DEF NKnown
  <2> QED BY <1>2, <1>6, <2>1 DEF NInv1, NCurrent, NSince
<1> QED BY <1>1, <1>2, <1>4, <1>5, <1>6, NScanStep DEF NInv1, NTypes

\* A scan that swaps its items in gives the cache only what a note was.
LEMMA NOver ==
    ASSUME NEW c, Notes(c)!ConstantsFit, NInv1(c), NEW r \in c.Readers, scan' = [scan EXCEPT ![r] = Notes(c)!Idle],
           UNCHANGED <<disk, tick, index>>, edges' \subseteq c.Paths \X c.Paths, current' \in BOOLEAN
    PROVE  NInv1(c)'
<1>1. Notes(c)!Idle \in NScan(c) /\ scan'[r] = Notes(c)!Idle
  BY DEF Notes!Idle, NScan, Notes!Nowhere, NInv1, NTypes
<1>2. \A t : t = Notes(c)!Idle => t.at = "idle" /\ \A p \in c.Paths : t.stats[p] = None /\ t.found[p] = None
  BY DEF Notes!Idle, Notes!Nowhere
<1>3. NHeld(c, r)' /\ NSeen(c, r)'
  BY <1>1, <1>2 DEF NHeld, NSeen
<1> QED BY <1>1, <1>2, <1>3, NScanStep

\* A scan ends and forgets what it met.
LEMMA NEnd ==
    ASSUME NEW c, Notes(c)!ConstantsFit, NInv1(c), NEW r \in c.Readers, Notes(c)!Swap(r) \/ Notes(c)!Return(r) \/ Notes(c)!Reindex(r) PROVE NInv1(c)'
<1>1. CASE Notes(c)!Swap(r)
  <2>1. PICK at \in {"resolve", "done"} : scan' = [scan EXCEPT ![r].at = at]
    BY <1>1 DEF Notes!Swap
  <2> QED BY <1>1, <2>1, NMove DEF Notes!Swap
<1>2. CASE Notes(c)!Return(r)
  BY <1>2, NOver DEF Notes!Return, NInv1, NTypes
<1>3. CASE Notes(c)!Reindex(r)
  <2>1. edges' \subseteq c.Paths \X c.Paths
    BY <1>3 DEF Notes!Reindex, Notes!Replaced, Notes!LinksOf
  <2>2. current' \in BOOLEAN
    BY <1>3 DEF Notes!Reindex, NInv1, NTypes, NScan
  <2> QED BY <1>3, <2>1, <2>2, NOver DEF Notes!Reindex
<1> QED BY <1>1, <1>2, <1>3

\* A scan that met no edit knows the notes as they are.
NStill(c, r) ==
    scan[r].at # "idle" /\ ~scan[r].edited => \A p \in c.Paths :
        /\ scan[r].held[p] = {Notes(c)!Held(p)}
        /\ scan[r].stats[p] # None => Notes(c)!Eligible(disk[p])
        /\ scan[r].found[p] # None => scan[r].stats[p] # None /\ scan[r].at # "walk"

NInv(c) == NInv1(c) /\ (\A r \in c.Readers : NStill(c, r)) /\ (~c.KeepsTime => Notes(c)!GraphIsCurrent)

\* No scan runs in the first state, and there are no edges.
LEMMA NStillInit ==
    ASSUME NEW c, Notes(c)!Init
    PROVE  (\A r \in c.Readers : NStill(c, r)) /\ Notes(c)!GraphIsCurrent
BY DEF Notes!Init, NStill, Notes!Idle, Notes!GraphIsCurrent

\* An edit tells every scan under way that it is no longer alone.
LEMMA NStillEdit ==
    ASSUME NEW c, NInv(c), NEW p \in c.Paths, Notes(c)!Save(p) \/ Notes(c)!Delete(p)
    PROVE  (\A r \in c.Readers : NStill(c, r))' /\ Notes(c)!GraphIsCurrent'
<1>1. PICK f : Notes(c)!Edit(p, f)
  BY DEF Notes!Save, Notes!Delete
<1>2. current' = FALSE
  BY <1>1 DEF Notes!Edit
<1>3. ASSUME NEW r \in c.Readers PROVE scan'[r].at = "idle" \/ scan'[r].edited
  <2>1. \A t : t = Notes(c)!Idle => t.at = "idle"
    BY DEF Notes!Idle
  <2>2. scan[r] \in NScan(c)
    BY DEF NInv, NInv1, NTypes
  <2> DEFINE body == IF f = None THEN None ELSE f.body
  <2>3. scan'[r] = IF scan[r].at = "idle" THEN Notes(c)!Idle
                   ELSE [scan[r] EXCEPT !.edited = TRUE, !.held[p] = @ \cup {body}]
    BY <1>1 DEF Notes!Edit
  <2>4. [scan[r] EXCEPT !.edited = TRUE, !.held[p] = @ \cup {body}].edited = TRUE
    BY <2>2 DEF NScan
  <2> QED BY <2>1, <2>3, <2>4
<1> QED BY <1>2, <1>3 DEF NStill, Notes!GraphIsCurrent

\* The steps of a scan before its links are written.

\* A scan with no edit since it began meets what is on disk.
LEMMA NStillScan ==
    ASSUME NEW c, Notes(c)!ConstantsFit, NInv(c), NInv1(c)', NEW r \in c.Readers,
           \/ \E op \in c.Ops : Notes(c)!Begin(r, op)
           \/ Notes(c)!Stat(r) \/ Notes(c)!Walked(r) \/ Notes(c)!Read(r) \/ Notes(c)!Swap(r) \/ Notes(c)!Return(r)
    PROVE  (\A q \in c.Readers : NStill(c, q))'
<1>1. /\ disk' = disk /\ scan[r] \in NScan(c)
      /\ \A q \in c.Readers \ {r} : scan'[q] = scan[q]
  BY DEF NInv, NInv1, NTypes, Notes!Begin, Notes!Stat, Notes!Walked, Notes!Read, Notes!Swap, Notes!Return
<1>2. \A p \in c.Paths : Notes(c)!Held(p)' = Notes(c)!Held(p)
  BY <1>1 DEF Notes!Held
<1>3. \A q \in c.Readers \ {r} : NStill(c, q)'
  BY <1>1, <1>2 DEF NInv, NStill
<1>4. NStill(c, r) /\ NSeen(c, r) /\ scan \in [c.Readers -> NScan(c)]
  BY DEF NInv, NInv1, NTypes
<1>5. ASSUME \E op \in c.Ops : Notes(c)!Begin(r, op) PROVE NStill(c, r)'
  <2>1. PICK op \in c.Ops : Notes(c)!Begin(r, op)
    BY <1>5
  <2>2. scan'[r] = [Notes(c)!Idle EXCEPT !.at = "walk", !.op = op, !.todo = c.Paths, !.held = [p \in c.Paths |-> {Notes(c)!Held(p)}]]
    BY <2>1, <1>4 DEF Notes!Begin
  <2>3. /\ scan'[r].held = [p \in c.Paths |-> {Notes(c)!Held(p)}]
        /\ scan'[r].stats = Notes(c)!Nowhere /\ scan'[r].found = Notes(c)!Nowhere
    BY <2>2 DEF Notes!Idle
  <2> QED BY <1>1, <1>2, <2>3 DEF NStill, Notes!Nowhere
<1>6. ASSUME Notes(c)!Stat(r) PROVE NStill(c, r)'
  <2>1. PICK p \in scan[r].todo : scan' = [scan EXCEPT ![r].todo = @ \ {p},
                            ![r].stats[p] = IF Notes(c)!Eligible(disk[p]) THEN Notes(c)!Mark(disk[p]) ELSE None]
    BY <1>6 DEF Notes!Stat
  <2>2. /\ scan'[r].held = scan[r].held /\ scan'[r].found = scan[r].found /\ scan'[r].edited = scan[r].edited
        /\ scan'[r].stats = [scan[r].stats EXCEPT ![p] = IF Notes(c)!Eligible(disk[p]) THEN Notes(c)!Mark(disk[p]) ELSE None]
    BY <2>1, <1>1, <1>4 DEF NScan
  <2>3. scan[r].at # "idle" /\ scan[r].stats \in [c.Paths -> NMark(c) \cup {None}] /\ p \in c.Paths
    BY <2>1, <1>1, <1>6 DEF NScan, Notes!Stat
  <2>4. \A q \in c.Paths : scan[r].edited \/ scan[r].found[q] = None
    BY <1>1, <1>4, <1>6 DEF NStill, Notes!Stat
  <2>5. \A q \in c.Paths : scan'[r].stats[q] # None =>
          IF q = p THEN Notes(c)!Eligible(disk[p]) ELSE scan[r].stats[q] # None
    BY <2>2, <2>3
  <2> QED BY <1>1, <1>2, <1>4, <2>2, <2>3, <2>4, <2>5 DEF NStill
<1>7. ASSUME Notes(c)!Walked(r) PROVE NStill(c, r)'
  <2>1. /\ scan'[r].held = scan[r].held /\ scan'[r].found = scan[r].found /\ scan'[r].edited = scan[r].edited
        /\ scan'[r].stats = scan[r].stats /\ scan[r].at # "idle" /\ scan'[r].at = "read"
    BY <1>7, <1>1, <1>4 DEF NScan, Notes!Walked
  <2> QED BY <1>1, <1>2, <1>4, <2>1 DEF NStill
<1>8. ASSUME Notes(c)!Read(r) PROVE NStill(c, r)'
  <2>1. PICK p \in scan[r].todo : \E i : scan' = [scan EXCEPT ![r].todo = @ \ {p}, ![r].found[p] = i]
    BY <1>8 DEF Notes!Read
  <2> PICK i : scan' = [scan EXCEPT ![r].todo = @ \ {p}, ![r].found[p] = i]
    BY <2>1
  <2>2. /\ scan'[r].held = scan[r].held /\ scan'[r].stats = scan[r].stats /\ scan'[r].edited = scan[r].edited
        /\ scan'[r].found = [scan[r].found EXCEPT ![p] = i] /\ scan'[r].at = scan[r].at
    BY <2>1, <1>1, <1>4 DEF NScan
  <2>3. scan[r].at = "read" /\ scan[r].found \in [c.Paths -> NItem(c) \cup {None}] /\ scan[r].stats[p] # None
    BY <2>1, <1>1, <1>4, <1>8 DEF NScan, NSeen, Notes!Read
  <2> QED BY <1>1, <1>2, <1>4, <2>2, <2>3 DEF NStill
<1>9. ASSUME Notes(c)!Swap(r) PROVE NStill(c, r)'
  <2>1. /\ scan'[r].held = scan[r].held /\ scan'[r].found = scan[r].found /\ scan'[r].edited = scan[r].edited
        /\ scan'[r].stats = scan[r].stats /\ scan[r].at # "idle" /\ scan'[r].at # "walk"
    BY <1>9, <1>1, <1>4 DEF NScan, Notes!Swap
  <2> QED BY <1>1, <1>2, <1>4, <2>1 DEF NStill
<1>10. ASSUME Notes(c)!Return(r) PROVE NStill(c, r)'
  <2>1. \A t : t = Notes(c)!Idle => t.at = "idle"
    BY DEF Notes!Idle
  <2> QED BY <2>1, <1>4, <1>10 DEF NStill, Notes!Return
<1> QED BY <1>3, <1>5, <1>6, <1>7, <1>8, <1>9, <1>10

\* A reindex that met no edit writes the links on disk.

\* So its reindex leaves the links on disk.
LEMMA NStillReindex ==
    ASSUME NEW c, Notes(c)!ConstantsFit, NInv(c), NEW r \in c.Readers, Notes(c)!Reindex(r)
    PROVE  (\A q \in c.Readers : NStill(c, q))' /\ (~c.KeepsTime => Notes(c)!GraphIsCurrent')
<1>1. /\ UNCHANGED disk /\ scan[r] \in NScan(c) /\ scan[r].at = "resolve" /\ scan' = [scan EXCEPT ![r] = Notes(c)!Idle]
      /\ current' = ~scan[r].edited /\ edges' = Notes(c)!LinksOf(Notes(c)!Bodied(scan[r].found))
      /\ scan \in [c.Readers -> NScan(c)]
  BY DEF NInv, NInv1, NTypes, Notes!Reindex, Notes!Replaced
<1>2. \A p \in c.Paths : Notes(c)!Held(p)' = Notes(c)!Held(p)
  BY <1>1 DEF Notes!Held
<1>3. \A t : t = Notes(c)!Idle => t.at = "idle"
  BY DEF Notes!Idle
<1>4. \A q \in c.Readers : NStill(c, q)'
  BY <1>1, <1>2, <1>3 DEF NInv, NStill
<1>5. ASSUME ~c.KeepsTime, current' PROVE Notes(c)!Bodied(scan[r].found) = [p \in c.Paths |-> IF Notes(c)!Eligible(disk[p]) THEN disk[p].body ELSE None]
  <2>1. NStill(c, r) /\ NSeen(c, r) /\ NHeld(c, r) /\ ~scan[r].edited
    BY <1>1, <1>5 DEF NInv, NInv1
  <2> SUFFICES ASSUME NEW p \in c.Paths
               PROVE  (IF scan[r].found[p] = None THEN None ELSE scan[r].found[p].body)
                       = IF Notes(c)!Eligible(disk[p]) THEN disk[p].body ELSE None
    BY DEF Notes!Bodied
  <2>2. CASE Notes(c)!Eligible(disk[p])
    <3>1. disk[p] # None /\ disk[p].body \in c.Bodies /\ Notes(c)!Held(p) = disk[p].body
      BY <2>2 DEF Notes!Eligible, Notes!Held, NInv, NInv1, NTypes, Notes!File
    <3>2. Small(c, {Notes(c)!Held(p)})
      BY <2>2, <3>1 DEF Small, Notes!Eligible, Notes!ConstantsFit
    <3>3. scan[r].found[p] # None /\ scan[r].found[p].body \in scan[r].held[p]
      BY <3>2, <2>1, <1>1, <1>5 DEF NStill, NSeen, NHeld
    <3> QED BY <3>1, <3>3, <2>1, <2>2, <1>1 DEF NStill
  <2>3. CASE ~Notes(c)!Eligible(disk[p])
    BY <2>3, <2>1, <1>1 DEF NStill
  <2> QED BY <2>2, <2>3
<1>6. ASSUME ~c.KeepsTime PROVE Notes(c)!GraphIsCurrent'
  <2> DEFINE onDisk == [p \in c.Paths |-> IF Notes(c)!Eligible(disk[p]) THEN disk[p].body ELSE None]
  <2>1. current' => edges' = Notes(c)!LinksOf(onDisk)
    BY <1>1, <1>5, <1>6
  <2>2. onDisk' = onDisk
    BY <1>1 DEF Notes!Eligible
  <2>3. Notes(c)!GraphIsCurrent' = (current' => edges' = Notes(c)!LinksOf(onDisk)')
    BY DEF Notes!GraphIsCurrent
  <2>4. Notes(c)!LinksOf(onDisk)' = Notes(c)!LinksOf(onDisk)
    <3> HIDE DEF onDisk
    <3> QED BY <2>2
  <2> QED BY <2>1, <2>3, <2>4
<1> QED BY <1>4, <1>6

\* Where no two notes have one path, a link by name has one target or none.
LEMMA NGuess ==
    ASSUME NEW c, Notes(c)!ConstantsFit, Notes(c)!OneNoteAPath PROVE Notes(c)!NeverGuessed
<1> SUFFICES ASSUME NEW r \in c.Readers,
                    NEW e \in Notes(c)!LinksOf(Notes(c)!Bodied(scan[r].found))
             PROVE  \E t \in c.Links[Notes(c)!Bodied(scan[r].found)[e[1]]] :
                       {p \in {q \in c.Paths : Notes(c)!Bodied(scan[r].found)[q] # None} : Notes(c)!Fits(t, p)} = {e[2]}
  BY DEF Notes!NeverGuessed
<1> DEFINE found == Notes(c)!Bodied(scan[r].found)
           notes == {q \in c.Paths : found[q] # None}
<1>1. PICK t \in c.Links[found[e[1]]] : e[2] \in Notes(c)!Resolve(t, notes) /\ e[2] \in notes
  BY DEF Notes!LinksOf
<1> HIDE DEF found
<1> DEFINE fits == {p \in notes : Notes(c)!Fits(t, p)}
<1>2. e[2] \in fits
  BY <1>1 DEF Notes!Resolve
<1>3. ASSUME t.kind = "name" PROVE fits = {e[2]}
  BY <1>1, <1>2, <1>3 DEF Notes!Resolve
<1>4. ASSUME t.kind # "name" PROVE fits = {e[2]}
  BY <1>2, <1>4 DEF Notes!Fits, Notes!OneNoteAPath
<1> QED BY <1>1, <1>3, <1>4 DEF found

\* What the invariant says of types and of what a scan returns.
LEMMA NTyped ==
    ASSUME NEW c, Notes(c)!ConstantsFit, NInv(c)
    PROVE  Notes(c)!TypeOK /\ Notes(c)!NothingMissed /\ (~c.KeepsTime => Notes(c)!Fresh)
<1>1. Notes(c)!TypeOK
  BY DEF NInv, NInv1, NTypes, NTimes, NOld, NScan, Notes!TypeOK, Notes!Item, NItem
<1>2. Notes(c)!NothingMissed
  BY DEF NInv, NInv1, NSeen, Small, Notes!NothingMissed
<1>3. ~c.KeepsTime => Notes(c)!Fresh
  BY DEF NInv, NInv1, NHeld, Notes!Fresh
<1> QED BY <1>1, <1>2, <1>3

\* The invariant is inductive.
LEMMA NStep ==
    ASSUME NEW c, Notes(c)!ConstantsFit, NInv(c), [Notes(c)!Next]_(Notes(c)!vars)
    PROVE  NInv(c)'
<1>0. NInv1(c)
  BY DEF NInv
<1>1. CASE \E p \in c.Paths : Notes(c)!Save(p) \/ Notes(c)!Delete(p)
  BY <1>0, <1>1, NSave, NStillEdit DEF NInv
<1>2. ASSUME NEW r \in c.Readers,
             \/ \E op \in c.Ops : Notes(c)!Begin(r, op)
             \/ Notes(c)!Stat(r) \/ Notes(c)!Walked(r) \/ Notes(c)!Read(r) \/ Notes(c)!Swap(r) \/ Notes(c)!Return(r)
      PROVE  NInv(c)'
  <2>1. NInv1(c)'
    BY <1>0, <1>2, NBegin, NStat, NWalked, NRead, NEnd
  <2>2. UNCHANGED <<disk, edges, current>>
    BY <1>2 DEF Notes!Begin, Notes!Stat, Notes!Walked, Notes!Read, Notes!Swap, Notes!Return
  <2>3. Notes(c)!GraphIsCurrent => Notes(c)!GraphIsCurrent'
    BY <2>2 DEF Notes!GraphIsCurrent, Notes!LinksOf, Notes!Eligible
  <2> QED BY <1>2, <2>1, <2>3, NStillScan DEF NInv
<1>3. ASSUME NEW r \in c.Readers, Notes(c)!Reindex(r) PROVE NInv(c)'
  BY <1>0, <1>3, NEnd, NStillReindex DEF NInv
<1>4. CASE UNCHANGED Notes(c)!vars
  <2>1. /\ disk' = disk /\ tick' = tick /\ index' = index /\ scan' = scan /\ edges' = edges /\ current' = current
        /\ \A p \in c.Paths : Notes(c)!Held(p)' = Notes(c)!Held(p)
    BY <1>4 DEF Notes!vars, Notes!Held
  <2>2. NTypes(c)' /\ NTimes(c)'
    BY <1>0, <2>1 DEF NInv1, NTypes, NTimes, NOld, Notes!File
  <2>3. \A r \in c.Readers : NHeld(c, r)' /\ NSeen(c, r)' /\ NStill(c, r)'
    BY <2>1 DEF NInv, NInv1, NHeld, NSeen, NStill
  <2>4. ~c.KeepsTime => NCurrent(c)' /\ NSince(c)' /\ Notes(c)!GraphIsCurrent'
    BY <2>1 DEF NInv, NInv1, NCurrent, NSince, NKnown, Notes!GraphIsCurrent, Notes!Eligible, Notes!LinksOf
  <2> QED BY <2>2, <2>3, <2>4 DEF NInv, NInv1
<1> QED BY <1>1, <1>2, <1>3, <1>4 DEF Notes!Next

\* The invariant implies what the folder promises.
LEMMA NHolds == ASSUME NEW c, Notes(c)!ConstantsFit, NInv(c) PROVE Notes(c)!NotesAreCurrent
BY NTyped, NGuess DEF Notes!NotesAreCurrent, NInv

----------------------------------------
(* StoreOpen.  A connection that a task is opening is its own (OOwn); who *)
(* holds the file's lock is migrating it, and nobody is connected before *)
(* that is done (OLock); where one task uses an adapter, what is open of it *)
(* follows from where the task is (ONeat). *)

file == v1
quick == v2
conn == v3
corrupt == v4
open == v5
opener == v6
spurious == v7
USE DEF file, quick, conn, corrupt, open, opener, spurious

OTask(c) == [at : {"idle", "opening", "checking", "versioned", "migrating", "using", "checkpointing", "shutting"},
             op : {"use", "health", "close"}, c : c.Handles \cup {None}, seen : {0, 1}]

OTypes(c) ==
    /\ file \in [version : {0, 1}, damaged : BOOLEAN, lock : c.Handles \cup {None}]
    /\ conn \in [c.Adapters -> c.Handles \cup {None}]
    /\ corrupt \in [c.Adapters -> BOOLEAN]
    /\ open \in [c.Adapters -> SUBSET c.Handles]
    /\ opener \in [c.Tasks -> OTask(c)] /\ spurious \in BOOLEAN

\* A task that is opening a connection has it for itself.
Opens(t) == opener[t].at \in {"checking", "versioned", "migrating"}
OOwn(c) ==
    /\ \A a, b \in c.Adapters : a # b => open[a] \cap open[b] = {}
    /\ \A t \in c.Tasks : Opens(t) =>
         /\ opener[t].c \in open[Opening(c)!On(t)]
         /\ \A a \in c.Adapters : conn[a] # opener[t].c
         /\ \A u \in c.Tasks : u # t => opener[u].c # opener[t].c

\* The lock is held by a connection that is open, on a file no adapter is connected to.
OLock(c) ==
    /\ file.lock # None => file.version = 0 /\ \E a \in c.Adapters : file.lock \in open[a]
    /\ file.version = 0 => \A a \in c.Adapters : conn[a] = None
    /\ \A t \in c.Tasks :
         /\ opener[t].at \in {"checking", "versioned"} => opener[t].c # file.lock
         /\ opener[t].at = "versioned" /\ opener[t].seen = 1 => file.version = 1
         /\ opener[t].at = "migrating" => opener[t].c = file.lock

ODamage(c) == \A a \in c.Adapters : corrupt[a] => file.damaged

OSound(c) ==
    ~c.NewFile =>
        /\ file.version = 1 /\ ~spurious
        /\ \A t \in c.Tasks : opener[t].at = "versioned" => opener[t].seen = 1

OInv1(c) == OTypes(c) /\ OOwn(c) /\ OLock(c) /\ ODamage(c) /\ OSound(c)

\* Each task has its one adapter.
LEMMA OOn ==
    ASSUME NEW c, Opening(c)!ConstantsFit
    PROVE  \A t \in c.Tasks : /\ Opening(c)!On(t) \in c.Adapters /\ t \in Opening(c)!On(t)
                              /\ \A a \in c.Adapters : t \in a => a = Opening(c)!On(t)
BY DEF Opening!ConstantsFit, Opening!On

\* The first state.
LEMMA OInit == ASSUME NEW c, Opening(c)!ConstantsFit, Opening(c)!Init PROVE OInv1(c)
<1>1. file.version \in {0, 1} /\ file.lock = None /\ (~c.NewFile => file.version = 1)
      /\ file \in [version : {0, 1}, damaged : BOOLEAN, lock : c.Handles \cup {None}]
  BY DEF Opening!Init, Opening!Latest
<1>2. OTypes(c)
  BY <1>1 DEF Opening!Init, OTypes, OTask, Opening!Idle
<1>3. \A t \in c.Tasks : opener[t].at = "idle"
  BY DEF Opening!Init, Opening!Idle
<1>4. OOwn(c)
  BY <1>3 DEF Opening!Init, OOwn, Opens
<1>5. OLock(c)
  BY <1>1, <1>3 DEF Opening!Init, OLock
<1>6. ODamage(c)
  BY DEF Opening!Init, ODamage
<1>7. OSound(c)
  BY <1>1, <1>3 DEF Opening!Init, OSound
<1> QED BY <1>2, <1>4, <1>5, <1>6, <1>7 DEF OInv1

\* A step of a task that opens nothing then, and touches neither the file nor a connection.
LEMMA OQuiet ==
    ASSUME NEW c, Opening(c)!ConstantsFit, OInv1(c), NEW t \in c.Tasks, NEW r \in OTask(c),
           opener' = [opener EXCEPT ![t] = r], r.at \notin {"checking", "versioned", "migrating"},
           r.c = None \/ \E a \in c.Adapters : r.c = conn[a],
           UNCHANGED <<file, conn, corrupt, open>>, spurious' = spurious
    PROVE  OInv1(c)'
<1>1. OTypes(c)'
  BY DEF OInv1, OTypes
<1>2. opener'[t] = r /\ \A u \in c.Tasks : u # t => opener'[u] = opener[u]
  BY DEF OInv1, OTypes
<1>3. OOwn(c)'
  <2>1. \A u \in c.Tasks : Opens(u)' => u # t /\ Opens(u)
    BY <1>2 DEF Opens
  <2>2. ASSUME NEW u \in c.Tasks, Opens(u) PROVE opener[u].c # r.c
    <3>1. opener[u].c \in c.Handles
      BY <2>2, OOn DEF OInv1, OOwn, OTypes
    <3> QED BY <3>1, <2>2 DEF OInv1, OOwn, Opening!ConstantsFit
  <2> QED BY <1>2, <2>1, <2>2 DEF OInv1, OOwn
<1>4. OLock(c)'
  BY <1>2 DEF OInv1, OLock
<1>5. ODamage(c)' /\ OSound(c)'
  BY <1>2 DEF OInv1, ODamage, OSound
<1> QED BY <1>1, <1>3, <1>4, <1>5 DEF OInv1

\* The steps that open, share and close no connection.
LEMMA OQuietSteps ==
    ASSUME NEW c, Opening(c)!ConstantsFit, OInv1(c), NEW t \in c.Tasks,
           \/ \E op \in {"use", "health"} : Opening(c)!Start(t, op)
           \/ Opening(c)!Use(t) \/ Opening(c)!Gone(t) \/ Opening(c)!Close(t) \/ Opening(c)!Cancel(t)
    PROVE  OInv1(c)'
<1>1. ASSUME NEW op \in {"use", "health"}, Opening(c)!Start(t, op) PROVE OInv1(c)'
  <2>1. conn[Opening(c)!On(t)] \in c.Handles \cup {None} /\ Opening(c)!On(t) \in c.Adapters
    BY OOn DEF OInv1, OTypes
  <2> DEFINE r == IF conn[Opening(c)!On(t)] # None
                  THEN [Opening(c)!Idle EXCEPT !.at = "using", !.op = op, !.c = conn[Opening(c)!On(t)]]
                  ELSE [Opening(c)!Idle EXCEPT !.at = "opening", !.op = op]
  <2>2. r \in OTask(c) /\ r.at \in {"using", "opening"} /\ (r.c = None \/ r.c = conn[Opening(c)!On(t)])
    BY <2>1 DEF OTask, Opening!Idle
  <2>3. opener' = [opener EXCEPT ![t] = r] /\ UNCHANGED <<file, conn, corrupt, open, spurious>>
    BY <1>1 DEF Opening!Start
  <2> HIDE DEF r
  <2> QED BY <2>1, <2>2, <2>3, OQuiet
<1>2. ASSUME Opening(c)!Ends(t), UNCHANGED <<file, conn, corrupt, open, spurious>> PROVE OInv1(c)'
  <2>1. Opening(c)!Idle \in OTask(c) /\ \A r : r = Opening(c)!Idle => r.at = "idle" /\ r.c = None
    BY DEF OTask, Opening!Idle
  <2> QED BY <1>2, <2>1, OQuiet DEF Opening!Ends
<1>3. CASE Opening(c)!Use(t) \/ Opening(c)!Gone(t) \/ Opening(c)!Cancel(t)
  BY <1>2, <1>3 DEF Opening!Use, Opening!Gone, Opening!Cancel, Opening!Returns
<1>4. CASE Opening(c)!Close(t)
  <2> DEFINE r == [Opening(c)!Idle EXCEPT !.at = "checkpointing", !.op = "close"]
  <2>1. r \in OTask(c) /\ r.at = "checkpointing" /\ r.c = None
    BY DEF OTask, Opening!Idle
  <2> HIDE DEF r
  <2>2. opener' = [opener EXCEPT ![t] = r] /\ UNCHANGED <<file, conn, corrupt, open, spurious>>
    BY <1>4 DEF Opening!Close, r
  <2> QED BY <2>1, <2>2, OQuiet
<1> QED BY <1>1, <1>3, <1>4

\* A step of a task that closes a connection which is not the lock's holder, or that
\* another task is opening.
LEMMA OCloses ==
    ASSUME NEW c, Opening(c)!ConstantsFit, OInv1(c), NEW t \in c.Tasks, NEW r \in OTask(c), NEW x,
           opener' = [opener EXCEPT ![t] = r], r.at \notin {"checking", "versioned", "migrating"},
           r.c \in {None, opener[t].c},
           open' = [a \in c.Adapters |-> open[a] \ {x}], file.lock # None => x # file.lock,
           \A u \in c.Tasks : u # t /\ Opens(u) => opener[u].c # x,
           conn' = conn \/ conn' = [conn EXCEPT ![Opening(c)!On(t)] = None],
           file' = file, corrupt' \in [c.Adapters -> BOOLEAN], ODamage(c)',
           spurious' \in BOOLEAN, ~c.NewFile => ~spurious'
    PROVE  OInv1(c)'
<1>1. /\ opener'[t] = r /\ \A u \in c.Tasks : u # t => opener'[u] = opener[u]
      /\ \A a \in c.Adapters : open'[a] = open[a] \ {x} /\ (conn'[a] = conn[a] \/ conn'[a] = None)
  BY DEF OInv1, OTypes
<1>2. OTypes(c)'
  <2>1. conn' \in [c.Adapters -> c.Handles \cup {None}]
    BY DEF OInv1, OTypes
  <2>2. open' \in [c.Adapters -> SUBSET c.Handles]
    BY <1>1 DEF OInv1, OTypes
  <2> QED BY <2>1, <2>2 DEF OInv1, OTypes
<1>3. OOwn(c)'
  <2>1. \A u \in c.Tasks : Opens(u)' => u # t /\ Opens(u)
    BY <1>1 DEF Opens
  <2>2. ASSUME NEW u \in c.Tasks, u # t, Opens(u) PROVE opener[u].c # r.c /\ opener[u].c # None
    <3>1. opener[u].c \in c.Handles
      BY <2>2, OOn DEF OInv1, OOwn, OTypes
    <3> QED BY <3>1, <2>2 DEF OInv1, OOwn, Opening!ConstantsFit
  <2>3. \A a, b \in c.Adapters : a # b => open'[a] \cap open'[b] = {}
    BY <1>1 DEF OInv1, OOwn
  <2>4. ASSUME NEW u \in c.Tasks, Opens(u)'
        PROVE  /\ opener'[u].c \in open'[Opening(c)!On(u)]
               /\ \A a \in c.Adapters : conn'[a] # opener'[u].c
               /\ \A w \in c.Tasks : w # u => opener'[w].c # opener'[u].c
    <3>1. u # t /\ Opens(u) /\ opener'[u] = opener[u]
      BY <2>1, <2>4, <1>1
    <3>2. opener[u].c \in open[Opening(c)!On(u)] /\ Opening(c)!On(u) \in c.Adapters
      BY <3>1, OOn DEF OInv1, OOwn
    <3>3. \A a \in c.Adapters : conn[a] # opener[u].c
      BY <3>1 DEF OInv1, OOwn
    <3>4. \A w \in c.Tasks : w # u => opener[w].c # opener[u].c
      BY <3>1 DEF OInv1, OOwn
    <3> QED BY <3>1, <3>2, <3>3, <3>4, <2>2, <1>1
  <2> QED BY <2>3, <2>4 DEF OOwn
<1>4. OLock(c)'
  <2>1. file.lock # None => \E a \in c.Adapters : file.lock \in open'[a]
    BY <1>1 DEF OInv1, OLock
  <2>2. file.version = 0 => \A a \in c.Adapters : conn'[a] = None
    BY <1>1 DEF OInv1, OLock
  <2>3. \A u \in c.Tasks :
         /\ opener'[u].at \in {"checking", "versioned"} => opener'[u].c # file.lock
         /\ opener'[u].at = "versioned" /\ opener'[u].seen = 1 => file.version = 1
         /\ opener'[u].at = "migrating" => opener'[u].c = file.lock
    BY <1>1 DEF OInv1, OLock
  <2> QED BY <2>1, <2>2, <2>3 DEF OInv1, OLock
<1>5. OSound(c)'
  BY <1>1 DEF OInv1, OSound
<1> QED BY <1>2, <1>3, <1>4, <1>5 DEF OInv1

\* No connection of an adapter holds the lock, or is being opened.
LEMMA OConn ==
    ASSUME NEW c, Opening(c)!ConstantsFit, OInv1(c), NEW a \in c.Adapters
    PROVE  (file.lock # None => conn[a] # file.lock) /\ \A u \in c.Tasks : Opens(u) => opener[u].c # conn[a]
BY DEF OInv1, OLock, OOwn

\* A task that is idle has no connection of its own.
LEMMA OIdle ==
    ASSUME NEW c
    PROVE  Opening(c)!Idle \in OTask(c) /\ Opening(c)!Idle.at = "idle" /\ Opening(c)!Idle.c = None
BY DEF OTask, Opening!Idle

\* An operation that ends leaves its task idle.
LEMMA OEnds ==
    ASSUME NEW c, NEW t, Opening(c)!Ends(t)
    PROVE  \E r \in OTask(c) : opener' = [opener EXCEPT ![t] = r] /\ r.at = "idle" /\ r.c = None
BY OIdle DEF Opening!Ends

\* What an error of the driver leaves.
LEMMA ORaises ==
    ASSUME NEW c, OInv1(c), NEW t \in c.Tasks, Opening(c)!Raises(t), file.damaged \/ c.NewFile
    PROVE  /\ spurious' \in BOOLEAN /\ (~c.NewFile => ~spurious')
           /\ \E r \in OTask(c) : opener' = [opener EXCEPT ![t] = r] /\ r.at = "idle" /\ r.c = None
BY OEnds DEF OInv1, OTypes, OSound, Opening!Raises

\* The steps that close a connection, its adapter's or the task's.
LEMMA OCloseSteps ==
    ASSUME NEW c, Opening(c)!ConstantsFit, OInv1(c), NEW t \in c.Tasks,
           Opening(c)!Corruption(t) \/ Opening(c)!Checkpoint(t) \/ Opening(c)!Forget(t)
    PROVE  OInv1(c)'
<1> DEFINE a == Opening(c)!On(t)
<1>0. a \in c.Adapters
  BY OOn
<1> HIDE DEF a
<1>1. open = [b \in c.Adapters |-> open[b] \ {None}]
  BY DEF OInv1, OTypes, Opening!ConstantsFit
<1>2. OTypes(c) /\ ODamage(c) /\ OOwn(c)
  BY DEF OInv1
<1>3. \A u \in c.Tasks : Opens(u) => opener[u].c # None
  <2> SUFFICES ASSUME NEW u \in c.Tasks, Opens(u) PROVE opener[u].c # None
    OBVIOUS
  <2>1. opener[u].c \in c.Handles
    BY <1>2, OOn DEF OOwn, OTypes
  <2> QED BY <2>1 DEF Opening!ConstantsFit
<1>4. CASE Opening(c)!Corruption(t)
  <2>2. file' = file /\ file.damaged
    BY <1>4 DEF Opening!Corruption
  <2>1. /\ spurious' \in BOOLEAN /\ (~c.NewFile => ~spurious')
        /\ \E r \in OTask(c) : opener' = [opener EXCEPT ![t] = r] /\ r.at = "idle" /\ r.c = None
    BY <1>4, <2>2, ORaises DEF Opening!Corruption
  <2>7. PICK r \in OTask(c) : opener' = [opener EXCEPT ![t] = r] /\ r.at = "idle" /\ r.c = None
    BY <2>1
  <2>3. PICK x \in {None, conn[a]} : open' = [b \in c.Adapters |-> open[b] \ {x}]
    BY <1>1, <1>4 DEF Opening!Corruption, Opening!Quarantines, Opening!Closes, a
  <2>4. conn' = conn \/ conn' = [conn EXCEPT ![a] = None]
    BY <1>4 DEF Opening!Corruption, Opening!Quarantines, a
  <2>5. corrupt' \in [c.Adapters -> BOOLEAN] /\ ODamage(c)'
    BY <1>0, <1>2, <1>4, <2>2 DEF Opening!Corruption, Opening!Latched, OTypes, ODamage, a
  <2>9. /\ file.lock # None => x # file.lock
        /\ \A u \in c.Tasks : u # t /\ Opens(u) => opener[u].c # x
    BY <1>0, <1>3, <2>3, OConn
  <2> QED BY <2>1, <2>2, <2>3, <2>4, <2>5, <2>7, <2>9, OCloses, ZenonT(60) DEF a
<1>5. CASE Opening(c)!Checkpoint(t)
  <2>1. /\ UNCHANGED <<file, conn, corrupt, spurious>> /\ corrupt' \in [c.Adapters -> BOOLEAN] /\ ODamage(c)'
        /\ spurious' \in BOOLEAN /\ (~c.NewFile => ~spurious')
    BY <1>2, <1>5 DEF Opening!Checkpoint, OTypes, ODamage, OInv1, OSound
  <2>2. PICK x \in {None, conn[a]} : open' = [b \in c.Adapters |-> open[b] \ {x}]
    BY <1>1, <1>5 DEF Opening!Checkpoint, Opening!Closes, a
  <2>3. PICK r \in OTask(c) : opener' = [opener EXCEPT ![t] = r] /\ r.at \in {"idle", "shutting"} /\ r.c \in {None, opener[t].c}
    <3>1. CASE Opening(c)!Ends(t)
      BY <3>1, OIdle DEF Opening!Ends
    <3>2. CASE Opening(c)!Checkpointed(t)
      <4> DEFINE r == [opener[t] EXCEPT !.at = "shutting"]
      <4>1. r \in OTask(c) /\ r.at = "shutting" /\ r.c = opener[t].c
        BY <1>2 DEF OTypes, OTask
      <4>2. opener' = [opener EXCEPT ![t] = r]
        BY <3>2 DEF Opening!Checkpointed
      <4> QED BY <4>1, <4>2
    <3> QED BY <1>5, <3>1, <3>2 DEF Opening!Checkpoint
  <2>9. /\ file.lock # None => x # file.lock
        /\ \A u \in c.Tasks : u # t /\ Opens(u) => opener[u].c # x
    BY <1>0, <1>3, <2>2, OConn
  <2> QED BY <2>1, <2>2, <2>3, <2>9, OCloses
<1>6. CASE Opening(c)!Forget(t)
  <2>1. /\ UNCHANGED <<file, corrupt, spurious>> /\ corrupt' \in [c.Adapters -> BOOLEAN] /\ ODamage(c)'
        /\ spurious' \in BOOLEAN /\ (~c.NewFile => ~spurious')
    BY <1>2, <1>6 DEF Opening!Forget, Opening!Returns, OTypes, ODamage, OInv1, OSound
  <2>2. conn' = [conn EXCEPT ![a] = None]
    BY <1>6 DEF Opening!Forget, a
  <2>4. PICK r \in OTask(c) : opener' = [opener EXCEPT ![t] = r] /\ r.at = "idle" /\ r.c = None
    BY <1>6, OEnds DEF Opening!Forget, Opening!Returns
  <2>3. PICK x \in {None, conn[a]} : open' = [b \in c.Adapters |-> open[b] \ {x}]
    BY <1>1, <1>6 DEF Opening!Forget
  <2>9. /\ file.lock # None => x # file.lock
        /\ \A u \in c.Tasks : u # t /\ Opens(u) => opener[u].c # x
    BY <1>0, <1>3, <2>3, OConn
  <2>5. /\ file' = file /\ conn' = [conn EXCEPT ![Opening(c)!On(t)] = None]
        /\ r.at \notin {"checking", "versioned", "migrating"} /\ r.c \in {None, opener[t].c}
    BY <2>1, <2>2, <2>4 DEF a
  <2> QED BY <2>1, <2>3, <2>4, <2>5, <2>9, OCloses
<1> QED BY <1>4, <1>5, <1>6

\* Opening, checking and migrating.
LEMMA OOpen ==
    ASSUME NEW c, Opening(c)!ConstantsFit, OInv1(c), NEW t \in c.Tasks, Opening(c)!Open(t)
    PROVE  OInv1(c)'
<1> DEFINE a == Opening(c)!On(t)
<1>0. a \in c.Adapters /\ opener \in [c.Tasks -> OTask(c)] /\ open \in [c.Adapters -> SUBSET c.Handles]
  BY OOn DEF OInv1, OTypes
<1>1. PICK h \in Opening(c)!Unused :
        /\ open' = [open EXCEPT ![a] = @ \cup {h}]
        /\ opener' = [opener EXCEPT ![t].at = "checking", ![t].c = h]
  BY DEF Opening!Open
<1>2. /\ h \in c.Handles /\ \A b \in c.Adapters : h \notin open[b] /\ conn[b] # h
      /\ \A u \in c.Tasks : opener[u].c # h
  BY <1>1 DEF Opening!Unused, Opening!Opened
<1>3. UNCHANGED <<file, conn, corrupt, spurious>>
  BY DEF Opening!Open
<1> DEFINE r == [opener[t] EXCEPT !.at = "checking", !.c = h]
<1>4. r \in OTask(c) /\ r.at = "checking" /\ r.c = h
  BY <1>0, <1>2 DEF OTask
<1>5. opener' = [opener EXCEPT ![t] = r]
  BY <1>0, <1>1
<1> HIDE DEF r, a
<1>6. /\ opener'[t] = r /\ \A u \in c.Tasks : u # t => opener'[u] = opener[u]
      /\ \A b \in c.Adapters : open'[b] = IF b = a THEN open[a] \cup {h} ELSE open[b]
  BY <1>0, <1>1, <1>5
<1>7. OTypes(c)'
  <2>1. open' \in [c.Adapters -> SUBSET c.Handles]
    BY <1>0, <1>1, <1>2
  <2> QED BY <2>1, <1>3, <1>4, <1>5 DEF OInv1, OTypes
<1>8. OOwn(c)'
  <2>1. \A b, d \in c.Adapters : b # d => open'[b] \cap open'[d] = {}
    BY <1>2, <1>6 DEF OInv1, OOwn
  <2>2. ASSUME NEW u \in c.Tasks, Opens(u)'
        PROVE  /\ opener'[u].c \in open'[Opening(c)!On(u)]
               /\ \A b \in c.Adapters : conn'[b] # opener'[u].c
               /\ \A w \in c.Tasks : w # u => opener'[w].c # opener'[u].c
    <3>1. CASE u = t
      BY <3>1, <1>0, <1>2, <1>3, <1>4, <1>6 DEF a
    <3>2. CASE u # t
      <4>1. Opens(u)
        BY <3>2, <2>2, <1>6 DEF Opens
      <4>2. opener[u].c \in open[Opening(c)!On(u)] /\ Opening(c)!On(u) \in c.Adapters
        BY <4>1, OOn DEF OInv1, OOwn
      <4>3. \A b \in c.Adapters : conn[b] # opener[u].c
        BY <4>1 DEF OInv1, OOwn
      <4>4. \A w \in c.Tasks : w # u => opener[w].c # opener[u].c
        BY <4>1 DEF OInv1, OOwn
      <4> QED BY <3>2, <4>2, <4>3, <4>4, <1>2, <1>3, <1>4, <1>6
    <3> QED BY <3>1, <3>2
  <2> QED BY <2>1, <2>2 DEF OOwn
<1>9. OLock(c)'
  <2>1. file.lock # None => file.lock # h /\ \E b \in c.Adapters : file.lock \in open'[b]
    BY <1>2, <1>6 DEF OInv1, OLock
  <2>2. h # None
    BY <1>2 DEF Opening!ConstantsFit
  <2> QED BY <2>1, <2>2, <1>3, <1>4, <1>6 DEF OInv1, OLock
<1>10. ODamage(c)' /\ OSound(c)'
  BY <1>3, <1>4, <1>6 DEF OInv1, ODamage, OSound
<1> QED BY <1>7, <1>8, <1>9, <1>10 DEF OInv1

\* An open that fails closes what it opened.
LEMMA OFails ==
    ASSUME NEW c, Opening(c)!ConstantsFit, OInv1(c), NEW t \in c.Tasks, opener[t].at \in {"checking", "versioned"},
           Opening(c)!Abandons(opener[t].c), Opening(c)!Raises(t), file.damaged \/ c.NewFile,
           UNCHANGED <<file, conn>>, corrupt' \in [c.Adapters -> BOOLEAN], ODamage(c)'
    PROVE  OInv1(c)'
<1>1. PICK r \in OTask(c) : opener' = [opener EXCEPT ![t] = r] /\ r.at = "idle" /\ r.c = None
  BY ORaises
<1>2. spurious' \in BOOLEAN /\ (~c.NewFile => ~spurious')
  BY ORaises
<1>3. PICK x \in {opener[t].c} : open' = [b \in c.Adapters |-> open[b] \ {x}]
  BY DEF Opening!Abandons, Opening!Closes
<1>4. /\ file.lock # None => x # file.lock
      /\ \A u \in c.Tasks : u # t /\ Opens(u) => opener[u].c # x
  BY <1>3 DEF OInv1, OLock, OOwn
<1> QED BY <1>1, <1>2, <1>3, <1>4, OCloses

\* A task goes on with the connection it has opened; the file may be locked for it.
LEMMA OGoesOn ==
    ASSUME NEW c, Opening(c)!ConstantsFit, OInv1(c), NEW t \in c.Tasks, NEW r \in OTask(c), Opens(t),
           opener' = [opener EXCEPT ![t] = r], r.c = opener[t].c, UNCHANGED <<conn, corrupt, open, spurious>>,
           \/ r.at = "versioned" /\ r.seen = file.version /\ file' = file /\ opener[t].at = "checking"
           \/ /\ r.at = "migrating" /\ opener[t].at = "versioned" /\ file.lock = None /\ file.version = 0
              /\ file' = [file EXCEPT !.lock = r.c]
    PROVE  OInv1(c)'
<1>1. opener'[t] = r /\ \A u \in c.Tasks : u # t => opener'[u] = opener[u]
  BY DEF OInv1, OTypes
<1>2. opener[t].c \in open[Opening(c)!On(t)] /\ Opening(c)!On(t) \in c.Adapters /\ opener[t].c \in c.Handles
  BY OOn DEF OInv1, OOwn, OTypes
<1>3. /\ file' \in [version : {0, 1}, damaged : BOOLEAN, lock : c.Handles \cup {None}]
      /\ file'.version = file.version /\ file'.damaged = file.damaged
  BY <1>2 DEF OInv1, OTypes
<1>4. OTypes(c)'
  BY <1>3 DEF OInv1, OTypes
<1>5. OOwn(c)'
  BY <1>1 DEF OInv1, OOwn, Opens
<1>6. OLock(c)'
  <2>1. CASE file' = file
    BY <2>1, <1>1, <1>2, <1>3 DEF OInv1, OLock, Opening!ConstantsFit
  <2>2. CASE r.at = "migrating" /\ opener[t].at = "versioned" /\ file.lock = None /\ file.version = 0 /\ file' = [file EXCEPT !.lock = r.c]
    <3>1. file'.lock = r.c /\ file'.version = 0
      BY <2>2 DEF OInv1, OTypes
    <3>2. \A u \in c.Tasks : opener[u].at # "migrating"
      <4> SUFFICES ASSUME NEW u \in c.Tasks, opener[u].at = "migrating" PROVE FALSE
        OBVIOUS
      <4>1. opener[u].c = None
        BY <2>2 DEF OInv1, OLock
      <4>2. opener[u].c \in c.Handles
        BY OOn DEF OInv1, OOwn, OTypes, Opens
      <4> QED BY <4>1, <4>2 DEF Opening!ConstantsFit
    <3>3. \A u \in c.Tasks : u # t => opener[u].c # r.c
      BY DEF OInv1, OOwn
    <3> QED BY <2>2, <3>1, <3>2, <3>3, <1>1, <1>2 DEF OInv1, OLock
  <2> QED BY <2>1, <2>2
<1>7. ODamage(c)' /\ OSound(c)'
  BY <1>1, <1>3 DEF OInv1, ODamage, OSound
<1> QED BY <1>4, <1>5, <1>6, <1>7 DEF OInv1

\* The quick check of a new connection: it stays the task's, or is closed and the store quarantined.
LEMMA OCheck ==
    ASSUME NEW c, Opening(c)!ConstantsFit, OInv1(c), NEW t \in c.Tasks, Opening(c)!Check(t)
    PROVE  OInv1(c)'
<1>1. CASE file.damaged /\ Opening(c)!Abandons(opener[t].c) /\ corrupt' = Opening(c)!Latched(t) /\ Opening(c)!Raises(t)
  <2>1. corrupt' \in [c.Adapters -> BOOLEAN] /\ UNCHANGED <<file, conn>> /\ opener[t].at = "checking"
    BY <1>1 DEF Opening!Check, Opening!At, Opening!Latched, OInv1, OTypes
  <2>2. ODamage(c)'
    BY <1>1, <2>1 DEF ODamage
  <2> QED BY <1>1, <2>1, <2>2, OFails
<1>2. CASE opener' = [opener EXCEPT ![t].at = "versioned", ![t].seen = Opening(c)!Version(t)] /\ UNCHANGED <<open, corrupt, spurious>>
  <2> DEFINE r == [opener[t] EXCEPT !.at = "versioned", !.seen = file.version]
  <2>1. UNCHANGED <<file, conn>> /\ opener[t].at = "checking" /\ Opens(t)
    BY DEF Opening!Check, Opening!At, Opens
  <2>2. r \in OTask(c) /\ r.at = "versioned" /\ r.seen = file.version /\ r.c = opener[t].c
    BY ZenonT(60) DEF OInv1, OTypes, OTask
  <2>3. opener' = [opener EXCEPT ![t] = r]
    BY <1>2 DEF OInv1, OTypes, Opening!Version
  <2> HIDE DEF r
  <2> QED BY <1>2, <2>1, <2>2, <2>3, OGoesOn
<1> QED BY <1>1, <1>2 DEF Opening!Check

\* Who begins a migration takes the lock; who finds it taken gives its connection up.
LEMMA OMigrate ==
    ASSUME NEW c, Opening(c)!ConstantsFit, OInv1(c), NEW t \in c.Tasks, Opening(c)!Migrate(t)
    PROVE  OInv1(c)'
<1>1. /\ opener[t].at = "versioned" /\ opener[t].seen < 1 /\ conn' = conn /\ Opens(t)
      /\ opener[t] \in OTask(c) /\ file.version \in {0, 1}
  BY DEF Opening!Migrate, Opening!At, Opening!Latest, Opens, OInv1, OTypes
<1>2. CASE /\ file.lock = None /\ file.version < 1 /\ file' = [file EXCEPT !.lock = opener[t].c]
           /\ Opening(c)!Goes(t, "migrating") /\ UNCHANGED <<open, corrupt, spurious>>
  <2> DEFINE r == [opener[t] EXCEPT !.at = "migrating"]
  <2>1. r \in OTask(c) /\ r.at = "migrating" /\ r.c = opener[t].c
    BY <1>1 DEF OTask
  <2>2. opener' = [opener EXCEPT ![t] = r]
    BY <1>2 DEF Opening!Goes
  <2>3. file.version = 0
    BY <1>1, <1>2
  <2> HIDE DEF r
  <2> QED BY <1>1, <1>2, <2>1, <2>2, <2>3, OGoesOn
<1>3. CASE Opening(c)!Abandons(opener[t].c) /\ corrupt' = Opening(c)!Contended(t) /\ Opening(c)!Raises(t) /\ UNCHANGED file
  <2>1. c.NewFile
    <3>1. opener[t].seen # 1
      BY <1>1 DEF OTask
    <3> QED BY <1>1, <3>1 DEF OInv1, OSound, Opening!ConstantsFit
  <2>2. corrupt' \in [c.Adapters -> BOOLEAN] /\ ODamage(c)'
    BY <1>3 DEF Opening!Contended, OInv1, OTypes, ODamage
  <2> QED BY <1>1, <1>3, <2>1, <2>2, OFails
<1> QED BY <1>2, <1>3 DEF Opening!Migrate, Opening!Latest

\* A connection that is open and checked becomes the adapter's.
LEMMA OConnects ==
    ASSUME NEW c, Opening(c)!ConstantsFit, OInv1(c), NEW t \in c.Tasks, Opening(c)!UpToDate(t) \/ Opening(c)!Migrated(t)
    PROVE  OInv1(c)'
<1> DEFINE a == Opening(c)!On(t)
           r == [opener[t] EXCEPT !.at = "using"]
<1>0. a \in c.Adapters /\ opener[t] \in OTask(c) /\ Opens(t)
  BY OOn DEF OInv1, OTypes, Opens, Opening!UpToDate, Opening!Migrated, Opening!At
<1>1. r \in OTask(c) /\ r.at = "using" /\ r.c = opener[t].c
  BY <1>0 DEF OTask
<1>2. /\ conn' = [conn EXCEPT ![a] = opener[t].c] /\ opener' = [opener EXCEPT ![t] = r]
      /\ UNCHANGED <<corrupt, open, spurious>>
  BY DEF Opening!UpToDate, Opening!Migrated, Opening!Connected, Opening!Goes
<1> HIDE DEF a, r
<1>3. opener[t].c \in c.Handles
  BY <1>0, OOn DEF OInv1, OOwn, OTypes
<1>4. /\ opener'[t] = r /\ \A u \in c.Tasks : u # t => opener'[u] = opener[u]
      /\ \A b \in c.Adapters : conn'[b] = IF b = a THEN opener[t].c ELSE conn[b]
  BY <1>0, <1>2 DEF OInv1, OTypes
\* Whether it was so before or has just been migrated, the file has its schema.
<1>5. /\ file' \in [version : {0, 1}, damaged : BOOLEAN, lock : c.Handles \cup {None}]
      /\ file'.version = 1 /\ file'.damaged = file.damaged
      /\ file'.lock = None /\ \A u \in c.Tasks : opener'[u].at # "migrating"
  <2>1. CASE Opening(c)!UpToDate(t)
    <3>1. file' = file /\ opener[t].at = "versioned" /\ opener[t].seen = 1
      BY <2>1 DEF Opening!UpToDate, Opening!At, Opening!Latest
    <3>2. file.version = 1
      BY <3>1 DEF OInv1, OLock
    <3>3. file.lock = None
      BY <3>2 DEF OInv1, OLock
    <3>4. \A u \in c.Tasks : opener[u].at # "migrating"
      <4> SUFFICES ASSUME NEW u \in c.Tasks, opener[u].at = "migrating" PROVE FALSE
        OBVIOUS
      <4>1. opener[u].c = None
        BY <3>3 DEF OInv1, OLock
      <4>2. opener[u].c \in c.Handles
        BY OOn DEF OInv1, OOwn, OTypes, Opens
      <4> QED BY <4>1, <4>2 DEF Opening!ConstantsFit
    <3> QED BY <3>1, <3>2, <3>3, <3>4, <1>1, <1>4 DEF OInv1, OTypes
  <2>2. CASE Opening(c)!Migrated(t)
    <3>1. file' = [file EXCEPT !.version = 1, !.lock = None] /\ opener[t].at = "migrating"
      BY <2>2 DEF Opening!Migrated, Opening!At, Opening!Latest
    <3>2. \A u \in c.Tasks : u # t => opener[u].at # "migrating"
      BY <3>1 DEF OInv1, OLock, OOwn, Opens
    <3> QED BY <3>1, <3>2, <1>1, <1>4 DEF OInv1, OTypes
  <2> QED BY <2>1, <2>2
<1>6. OTypes(c)'
  BY <1>0, <1>1, <1>2, <1>3, <1>5 DEF OInv1, OTypes
<1>7. OOwn(c)'
  <2>1. \A u \in c.Tasks : Opens(u)' => u # t /\ Opens(u)
    BY <1>1, <1>4 DEF Opens
  <2>2. ASSUME NEW u \in c.Tasks, Opens(u), u # t
        PROVE  /\ opener[u].c \in open[Opening(c)!On(u)]
               /\ \A b \in c.Adapters : conn'[b] # opener[u].c
               /\ \A w \in c.Tasks : w # u => opener'[w].c # opener[u].c
    <3>1. \A b \in c.Adapters : conn[b] # opener[u].c
      BY <2>2 DEF OInv1, OOwn
    <3>2. \A w \in c.Tasks : w # u => opener[w].c # opener[u].c
      BY <2>2 DEF OInv1, OOwn
    <3> QED BY <3>1, <3>2, <2>2, <1>1, <1>4 DEF OInv1, OOwn
  <2>3. \A b, d \in c.Adapters : b # d => open'[b] \cap open'[d] = {}
    BY <1>2 DEF OInv1, OOwn
  <2> QED BY <2>1, <2>2, <2>3, <1>2, <1>4 DEF OOwn
<1>8. OLock(c)'
  <2>2. \A u \in c.Tasks : opener'[u].at \in {"checking", "versioned"} => opener'[u].c # None
    <3> SUFFICES ASSUME NEW u \in c.Tasks, opener'[u].at \in {"checking", "versioned"} PROVE opener'[u].c # None
      OBVIOUS
    <3>1. u # t /\ Opens(u)
      BY <1>1, <1>4 DEF Opens
    <3>2. opener[u].c \in c.Handles
      BY <3>1, OOn DEF OInv1, OOwn, OTypes
    <3> QED BY <3>1, <3>2, <1>4 DEF Opening!ConstantsFit
  <2> QED BY <2>2, <1>5 DEF OLock
<1>9. ODamage(c)' /\ OSound(c)'
  BY <1>1, <1>2, <1>4, <1>5 DEF OInv1, ODamage, OSound
<1> QED BY <1>6, <1>7, <1>8, <1>9 DEF OInv1

\* The file is damaged from outside.
LEMMA ODamages == ASSUME NEW c, OInv1(c), Opening(c)!Damage PROVE OInv1(c)'
<1>1. /\ file' \in [version : {0, 1}, damaged : BOOLEAN, lock : c.Handles \cup {None}]
      /\ file'.version = file.version /\ file'.lock = file.lock /\ file'.damaged = TRUE
      /\ UNCHANGED <<conn, corrupt, open, opener, spurious>>
  BY DEF Opening!Damage, OInv1, OTypes
<1>2. OTypes(c)'
  BY <1>1 DEF OInv1, OTypes
<1>3. OOwn(c)'
  BY <1>1 DEF OInv1, OOwn, Opens
<1>4. OLock(c)' /\ ODamage(c)' /\ OSound(c)'
  BY <1>1 DEF OInv1, OLock, ODamage, OSound
<1> QED BY <1>2, <1>3, <1>4 DEF OInv1

\* A process starts again with nothing open.
LEMMA ORestart ==
    ASSUME NEW c, Opening(c)!ConstantsFit, OInv1(c), NEW a \in c.Adapters, Opening(c)!Restart(a) PROVE OInv1(c)'
<1>1. /\ \A b \in c.Adapters : conn'[b] = IF b = a THEN None ELSE conn[b]
      /\ \A b \in c.Adapters : open'[b] = IF b = a THEN {} ELSE open[b]
      /\ \A t \in c.Tasks : opener'[t] = IF t \in a THEN Opening(c)!Idle ELSE opener[t]
      /\ conn' \in [c.Adapters -> c.Handles \cup {None}] /\ open' \in [c.Adapters -> SUBSET c.Handles]
      /\ corrupt' \in [c.Adapters -> BOOLEAN] /\ spurious' = spurious
  BY DEF Opening!Restart, OInv1, OTypes
<1>2. /\ file' \in [version : {0, 1}, damaged : BOOLEAN, lock : c.Handles \cup {None}]
      /\ file'.version = file.version /\ file'.damaged = file.damaged
      /\ file'.lock = IF file.lock \in open[a] THEN None ELSE file.lock
  BY DEF Opening!Restart, Opening!Released, OInv1, OTypes
<1>3. opener' \in [c.Tasks -> OTask(c)]
  BY OIdle DEF Opening!Restart, OInv1, OTypes
<1>4. OTypes(c)'
  BY <1>1, <1>2, <1>3 DEF OInv1, OTypes
<1>5. \A t \in c.Tasks : t \in a => opener'[t].at = "idle" /\ opener'[t].c = None
  BY <1>1, OIdle
<1>6. ASSUME NEW t \in c.Tasks, Opens(t)' PROVE t \notin a /\ Opens(t) /\ opener'[t] = opener[t] /\ opener[t].c \in c.Handles
  <2>1. t \notin a /\ Opens(t) /\ opener'[t] = opener[t]
    BY <1>1, <1>5, <1>6 DEF Opens
  <2> QED BY <2>1, OOn DEF OInv1, OOwn, OTypes
<1>7. OOwn(c)'
  <2>1. \A b, d \in c.Adapters : b # d => open'[b] \cap open'[d] = {}
    BY <1>1 DEF OInv1, OOwn
  <2>2. ASSUME NEW t \in c.Tasks, Opens(t)'
        PROVE  /\ opener'[t].c \in open'[Opening(c)!On(t)]
               /\ \A b \in c.Adapters : conn'[b] # opener'[t].c
               /\ \A w \in c.Tasks : w # t => opener'[w].c # opener'[t].c
    <3>1. Opening(c)!On(t) # a /\ Opening(c)!On(t) \in c.Adapters
      BY <1>6, <2>2, OOn
    <3>2. opener[t].c # None
      BY <1>6, <2>2 DEF Opening!ConstantsFit
    <3>3. \A w \in c.Tasks : w # t => opener'[w].c # opener[t].c
      BY <1>1, <1>5, <1>6, <2>2, <3>2 DEF OInv1, OOwn
    <3> QED BY <1>1, <1>6, <2>2, <3>1, <3>2, <3>3 DEF OInv1, OOwn
  <2> QED BY <2>1, <2>2 DEF OOwn
<1>8. OLock(c)'
  <2>1. file'.lock # None => file'.version = 0 /\ \E b \in c.Adapters : file'.lock \in open'[b]
    BY <1>1, <1>2 DEF OInv1, OLock
  <2>2. file'.version = 0 => \A b \in c.Adapters : conn'[b] = None
    BY <1>1, <1>2 DEF OInv1, OLock
  <2>3. ASSUME NEW t \in c.Tasks
        PROVE  /\ opener'[t].at \in {"checking", "versioned"} => opener'[t].c # file'.lock
               /\ opener'[t].at = "versioned" /\ opener'[t].seen = 1 => file'.version = 1
               /\ opener'[t].at = "migrating" => opener'[t].c = file'.lock
    <3>1. CASE ~Opens(t)'
      BY <3>1 DEF Opens
    <3>2. CASE Opens(t)'
      <4>1. opener[t].c \notin open[a] /\ opener[t].c # None
        <5>1. Opening(c)!On(t) # a /\ Opening(c)!On(t) \in c.Adapters
          BY <1>6, <3>2, OOn
        <5> QED BY <1>6, <3>2, <5>1 DEF OInv1, OOwn, Opening!ConstantsFit
      <4> QED BY <4>1, <1>2, <1>6, <3>2 DEF OInv1, OLock
    <3> QED BY <3>1, <3>2
  <2> QED BY <2>1, <2>2, <2>3 DEF OLock
<1>9. ODamage(c)'
  BY <1>2 DEF Opening!Restart, OInv1, OTypes, ODamage
<1>10. OSound(c)'
  BY <1>1, <1>2, <1>5 DEF OInv1, OSound
<1> QED BY <1>4, <1>7, <1>8, <1>9, <1>10 DEF OInv1

\* The first half of the invariant is inductive.
LEMMA OStep1 ==
    ASSUME NEW c, Opening(c)!ConstantsFit, OInv1(c), [Opening(c)!Next]_(Opening(c)!vars)
    PROVE  OInv1(c)'
<1>1. CASE UNCHANGED Opening(c)!vars
  <2>1. UNCHANGED <<file, conn, corrupt, open, opener, spurious>>
    BY <1>1 DEF Opening!vars
  <2> QED BY <2>1 DEF OInv1, OTypes, OOwn, Opens, OLock, ODamage, OSound
<1>2. CASE Opening(c)!Next
  BY <1>2, OQuietSteps, OOpen, OCheck, OMigrate, OConnects, OCloseSteps, ODamages, ORestart DEF Opening!Next
<1> QED BY <1>1, <1>2

\* Of an adapter that serves one task after the other, none of them cancelled: what it
\* has open is what that task has, or its own connection.
ONeat(c, t) ==
    LET a == Opening(c)!On(t)
    IN  /\ opener[t].at = "idle" => open[a] = {conn[a]} \ {None}
        /\ opener[t].at = "opening" => conn[a] = None /\ open[a] = {}
        /\ Opens(t) => conn[a] = None /\ open[a] = {opener[t].c}
        /\ opener[t].at = "using" => conn[a] = opener[t].c /\ conn[a] # None /\ open[a] = {conn[a]}
        /\ opener[t].at = "checkpointing" => conn[a] # None /\ open[a] = {conn[a]}
        /\ opener[t].at = "shutting" => open[a] = {}
        /\ corrupt[a] => conn[a] = None /\ opener[t].at = "idle"

OInv(c) == OInv1(c) /\ ("cancel" \notin c.Faults /\ Opening(c)!OneEach => \A t \in c.Tasks : ONeat(c, t))

\* Nothing is open in the first state.
LEMMA ONeatInit ==
    ASSUME NEW c, Opening(c)!ConstantsFit, Opening(c)!Init
    PROVE  \A t \in c.Tasks : ONeat(c, t)
BY OOn, OIdle DEF Opening!Init, ONeat, Opens

\* The tasks whose adapter a step leaves alone.
LEMMA OOthers ==
    ASSUME NEW c, Opening(c)!ConstantsFit, NEW u \in c.Tasks, ONeat(c, u), opener'[u] = opener[u],
           LET b == Opening(c)!On(u) IN conn'[b] = conn[b] /\ open'[b] = open[b] /\ corrupt'[b] = corrupt[b]
    PROVE  ONeat(c, u)'
BY DEF ONeat, Opens

\* What a step of the task that uses the adapter leaves open.
LEMMA ONeatTask ==
    ASSUME NEW c, Opening(c)!ConstantsFit, OInv1(c), OInv1(c)', NEW t \in c.Tasks, ONeat(c, t),
           \/ \E op \in {"use", "health"} : Opening(c)!Start(t, op)
           \/ Opening(c)!Open(t) \/ Opening(c)!Check(t) \/ Opening(c)!Migrate(t) \/ Opening(c)!UpToDate(t) \/ Opening(c)!Migrated(t)
           \/ Opening(c)!Use(t) \/ Opening(c)!Corruption(t) \/ Opening(c)!Gone(t)
           \/ Opening(c)!Close(t) \/ Opening(c)!Checkpoint(t) \/ Opening(c)!Forget(t)
    PROVE  /\ ONeat(c, t)'
           /\ \A u \in c.Tasks : u # t => opener'[u] = opener[u]
           /\ \A b \in c.Adapters : b # Opening(c)!On(t) => conn'[b] = conn[b] /\ open'[b] = open[b] /\ corrupt'[b] = corrupt[b]
<1> DEFINE a == Opening(c)!On(t)
<1>0. a \in c.Adapters /\ OTypes(c) /\ OOwn(c) /\ OTypes(c)'
  BY OOn DEF OInv1
<1> DEFINE Rest == /\ \A u \in c.Tasks : u # t => opener'[u] = opener[u]
                   /\ \A b \in c.Adapters : b # a => conn'[b] = conn[b] /\ open'[b] = open[b] /\ corrupt'[b] = corrupt[b]
<1> HIDE DEF a
<1> SUFFICES ONeat(c, t)' /\ Rest
  BY DEF a
\* A connection that a step closes is of this adapter.
<1>1. ASSUME NEW x, x = None \/ x \in open[a], Opening(c)!Closes(x)
      PROVE  /\ open'[a] = open[a] \ {x}
             /\ \A b \in c.Adapters : b # a => open'[b] = open[b]
  <2>1. \A b \in c.Adapters : open'[b] = open[b] \ {x}
    BY <1>1 DEF Opening!Closes
  <2>2. \A b \in c.Adapters : b # a => x \notin open[b]
    BY <1>0, <1>1 DEF OTypes, OOwn, Opening!ConstantsFit
  <2> QED BY <1>0, <2>1, <2>2
<1>2. ASSUME NEW op \in {"use", "health"}, Opening(c)!Start(t, op) PROVE ONeat(c, t)' /\ Rest
  <2>1. opener[t].at = "idle" /\ UNCHANGED <<conn, corrupt, open>>
    BY <1>2 DEF Opening!Start, Opening!At
  <2>2. opener' = [opener EXCEPT ![t] = IF conn[a] # None THEN [Opening(c)!Idle EXCEPT !.at = "using", !.op = op, !.c = conn[a]]
                                        ELSE [Opening(c)!Idle EXCEPT !.at = "opening", !.op = op]]
        /\ (conn[a] # None \/ ~corrupt[a])
    BY <1>2 DEF Opening!Start, a
  <2>3. /\ \A u \in c.Tasks : u # t => opener'[u] = opener[u]
        /\ conn[a] # None => opener'[t].at = "using" /\ opener'[t].c = conn[a]
        /\ conn[a] = None => opener'[t].at = "opening" /\ ~corrupt[a]
    BY <1>0, <2>2 DEF OTypes, Opening!Idle
  <2>4. ONeat(c, t)'
    BY <2>1, <2>3 DEF ONeat, Opens, a
  <2> QED BY <2>1, <2>3, <2>4
<1>3. CASE Opening(c)!Open(t)
  <2>1. PICK h \in Opening(c)!Unused :
          /\ open' = [open EXCEPT ![a] = @ \cup {h}]
          /\ opener' = [opener EXCEPT ![t].at = "checking", ![t].c = h]
    BY <1>3 DEF Opening!Open, a
  <2>2. opener[t].at = "opening" /\ UNCHANGED <<conn, corrupt>>
    BY <1>3 DEF Opening!Open, Opening!At
  <2>3. /\ \A u \in c.Tasks : u # t => opener'[u] = opener[u]
        /\ opener'[t].at = "checking" /\ opener'[t].c = h
        /\ open'[a] = open[a] \cup {h} /\ \A b \in c.Adapters : b # a => open'[b] = open[b]
    BY <1>0, <2>1 DEF OTypes, OTask
  <2>4. ONeat(c, t)'
    BY <2>2, <2>3 DEF ONeat, Opens, a
  <2> QED BY <2>2, <2>3, <2>4
\* The operation is over, and its adapter in order.
<1>4. ASSUME Opening(c)!Ends(t), \A b \in c.Adapters : b # a => conn'[b] = conn[b] /\ open'[b] = open[b] /\ corrupt'[b] = corrupt[b],
             open'[a] = {conn'[a]} \ {None}, corrupt'[a] => conn'[a] = None
      PROVE  ONeat(c, t)' /\ Rest
  <2>1. /\ \A u \in c.Tasks : u # t => opener'[u] = opener[u]
        /\ opener'[t].at = "idle"
    BY <1>0, <1>4, OIdle DEF Opening!Ends, OTypes
  <2>2. ONeat(c, t)'
    BY <1>4, <2>1 DEF ONeat, Opens, a
  <2> QED BY <1>4, <2>1, <2>2
\* An open that goes on.
<1>5. ASSUME NEW r, opener' = [opener EXCEPT ![t] = r], Opens(t), r.c = opener[t].c,
             \/ r.at \in {"versioned", "migrating"} /\ conn' = conn
             \/ r.at = "using" /\ conn' = [conn EXCEPT ![a] = opener[t].c],
             UNCHANGED <<corrupt, open>>
      PROVE  ONeat(c, t)' /\ Rest
  <2>1. /\ \A u \in c.Tasks : u # t => opener'[u] = opener[u]
        /\ opener'[t] = r
    BY <1>0, <1>5 DEF OTypes
  <2>2. opener[t].c # None
    <3>1. opener[t].c \in c.Handles
      BY <1>0, <1>5 DEF OOwn, OTypes, a
    <3> QED BY <3>1 DEF Opening!ConstantsFit
  <2>3. ~corrupt[a] /\ open[a] = {opener[t].c} /\ conn[a] = None
    BY <1>5 DEF ONeat, Opens, a
  <2>4. conn' \in [c.Adapters -> c.Handles \cup {None}] /\ \A b \in c.Adapters : b # a => conn'[b] = conn[b]
    BY <1>0, <1>5 DEF OTypes
  <2>5. r.at = "using" => conn'[a] = opener[t].c
    BY <1>0, <1>5 DEF OTypes
  <2>6. ONeat(c, t)'
    BY <1>5, <2>1, <2>2, <2>3, <2>5 DEF ONeat, Opens, a
  <2> QED BY <1>5, <2>1, <2>4, <2>6
\* An open that fails.
<1>6. ASSUME Opens(t), Opening(c)!Abandons(opener[t].c), Opening(c)!Raises(t), conn' = conn,
             corrupt' = corrupt \/ corrupt' = [corrupt EXCEPT ![a] = TRUE]
      PROVE  ONeat(c, t)' /\ Rest
  <2>1. conn[a] = None /\ open[a] = {opener[t].c}
    BY <1>6 DEF ONeat, a
  <2>2. open'[a] = {} /\ \A b \in c.Adapters : b # a => open'[b] = open[b]
    BY <1>1, <1>6, <2>1 DEF Opening!Abandons
  <2>3. \A b \in c.Adapters : b # a => corrupt'[b] = corrupt[b]
    BY <1>0, <1>6 DEF OTypes
  <2> QED BY <1>4, <1>6, <2>1, <2>2, <2>3 DEF Opening!Raises
<1>7. CASE Opening(c)!Check(t)
  <2>1. Opens(t) /\ conn' = conn
    BY <1>7 DEF Opening!Check, Opening!At, Opens
  <2>2. ASSUME opener' = [opener EXCEPT ![t].at = "versioned", ![t].seen = Opening(c)!Version(t)], UNCHANGED <<open, corrupt>>
        PROVE  ONeat(c, t)' /\ Rest
    <3> DEFINE r == [opener[t] EXCEPT !.at = "versioned", !.seen = Opening(c)!Version(t)]
    <3>1. opener' = [opener EXCEPT ![t] = r] /\ r.at = "versioned" /\ r.c = opener[t].c
      BY <1>0, <2>2 DEF OTypes, OTask
    <3> HIDE DEF r
    <3> QED BY <1>5, <2>1, <2>2, <3>1
  <2> QED BY <1>6, <1>7, <2>1, <2>2 DEF Opening!Check, Opening!Latched, a
<1>8. CASE Opening(c)!Migrate(t)
  <2>1. Opens(t) /\ conn' = conn
    BY <1>8 DEF Opening!Migrate, Opening!At, Opens
  <2>2. ASSUME Opening(c)!Goes(t, "migrating"), UNCHANGED <<open, corrupt>>
        PROVE  ONeat(c, t)' /\ Rest
    <3> DEFINE r == [opener[t] EXCEPT !.at = "migrating"]
    <3>1. opener' = [opener EXCEPT ![t] = r] /\ r.at = "migrating" /\ r.c = opener[t].c
      BY <1>0, <2>2 DEF OTypes, OTask, Opening!Goes
    <3> HIDE DEF r
    <3> QED BY <1>5, <2>1, <2>2, <3>1
  <2> QED BY <1>6, <1>8, <2>1, <2>2 DEF Opening!Migrate, Opening!Contended
<1>9. CASE Opening(c)!UpToDate(t) \/ Opening(c)!Migrated(t)
  <2>1. Opens(t) /\ Opening(c)!Connected(t) /\ UNCHANGED <<open, corrupt>>
    BY <1>9 DEF Opening!UpToDate, Opening!Migrated, Opening!At, Opens
  <2> DEFINE r == [opener[t] EXCEPT !.at = "using"]
  <2>2. opener' = [opener EXCEPT ![t] = r] /\ r.at = "using" /\ r.c = opener[t].c
    BY <1>0, <2>1 DEF OTypes, OTask, Opening!Connected, Opening!Goes
  <2>3. conn' = [conn EXCEPT ![a] = opener[t].c]
    BY <2>1 DEF Opening!Connected, a
  <2> HIDE DEF r
  <2> QED BY <1>5, <2>1, <2>2, <2>3
<1>10. CASE Opening(c)!Use(t)
  <2>1. Opening(c)!Ends(t) /\ UNCHANGED <<conn, corrupt, open>> /\ opener[t].at = "using"
    BY <1>10 DEF Opening!Use, Opening!Returns, Opening!At
  <2>2. open'[a] = {conn'[a]} \ {None} /\ ~corrupt'[a]
    BY <2>1 DEF ONeat, a
  <2> QED BY <1>4, <2>1, <2>2
<1>11. CASE Opening(c)!Corruption(t)
  <2>1. opener[t].at = "using" /\ Opening(c)!Ends(t)
    BY <1>11 DEF Opening!Corruption, Opening!Raises, Opening!At
  <2>2. conn[a] # None /\ open[a] = {conn[a]} /\ ~corrupt[a]
    BY <2>1 DEF ONeat, a
  <2>3. CASE UNCHANGED <<corrupt, conn, open>>
    BY <1>4, <2>1, <2>2, <2>3
  <2>4. CASE corrupt' = Opening(c)!Latched(t) /\ Opening(c)!Quarantines(t)
    <3>1. conn' = [conn EXCEPT ![a] = None] /\ Opening(c)!Closes(conn[a]) /\ corrupt' = [corrupt EXCEPT ![a] = TRUE]
      BY <2>4 DEF Opening!Quarantines, Opening!Latched, a
    <3>2. open'[a] = {} /\ \A b \in c.Adapters : b # a => open'[b] = open[b]
      BY <1>1, <2>2, <3>1
    <3>3. conn'[a] = None /\ \A b \in c.Adapters : b # a => conn'[b] = conn[b] /\ corrupt'[b] = corrupt[b]
      BY <1>0, <3>1 DEF OTypes
    <3> QED BY <1>4, <2>1, <3>2, <3>3
  <2> QED BY <1>11, <2>3, <2>4 DEF Opening!Corruption
<1>12. CASE Opening(c)!Gone(t)
  <2>1. opener[t].at = "using" /\ opener[t].c \notin Opening(c)!Opened
    BY <1>12 DEF Opening!Gone, Opening!At
  <2>2. opener[t].c \in open[a]
    BY <2>1 DEF ONeat, a
  <2> QED BY <1>0, <2>1, <2>2 DEF Opening!Opened
<1>13. CASE Opening(c)!Close(t)
  <2>1. opener[t].at = "idle" /\ conn[a] # None /\ UNCHANGED <<conn, corrupt, open>>
    BY <1>13 DEF Opening!Close, Opening!At, a
  <2>2. opener' = [opener EXCEPT ![t] = [Opening(c)!Idle EXCEPT !.at = "checkpointing", !.op = "close"]]
    BY <1>13 DEF Opening!Close
  <2>3. /\ \A u \in c.Tasks : u # t => opener'[u] = opener[u]
        /\ opener'[t].at = "checkpointing"
    BY <1>0, <2>2 DEF OTypes, Opening!Idle
  <2>4. ONeat(c, t)'
    BY <2>1, <2>3 DEF ONeat, Opens, a
  <2> QED BY <2>1, <2>3, <2>4
<1>14. CASE Opening(c)!Checkpoint(t)
  <2>1. opener[t].at = "checkpointing" /\ UNCHANGED <<conn, corrupt>>
    BY <1>14 DEF Opening!Checkpoint, Opening!At
  <2>2. conn[a] # None /\ open[a] = {conn[a]} /\ ~corrupt[a]
    BY <2>1 DEF ONeat, a
  <2>3. Opening(c)!Checkpointed(t) /\ Opening(c)!Closes(conn[a])
    BY <1>14, <2>2 DEF Opening!Checkpoint, a
  <2>4. open'[a] = {} /\ \A b \in c.Adapters : b # a => open'[b] = open[b]
    BY <1>1, <2>2, <2>3
  <2>5. /\ \A u \in c.Tasks : u # t => opener'[u] = opener[u]
        /\ opener'[t].at = "shutting"
    BY <1>0, <2>3 DEF OTypes, OTask, Opening!Checkpointed
  <2>6. ONeat(c, t)'
    BY <2>1, <2>2, <2>4, <2>5 DEF ONeat, Opens, a
  <2> QED BY <2>1, <2>4, <2>5, <2>6
<1>15. CASE Opening(c)!Forget(t)
  <2>1. /\ opener[t].at = "shutting" /\ UNCHANGED <<corrupt, open>> /\ Opening(c)!Ends(t)
        /\ conn' = [conn EXCEPT ![a] = None]
    BY <1>15 DEF Opening!Forget, Opening!Returns, Opening!At, a
  <2>2. conn'[a] = None /\ \A b \in c.Adapters : b # a => conn'[b] = conn[b]
    BY <1>0, <2>1 DEF OTypes
  <2>3. open[a] = {}
    BY <2>1 DEF ONeat, a
  <2> QED BY <1>4, <2>1, <2>2, <2>3
<1> QED BY <1>2, <1>3, <1>7, <1>8, <1>9, <1>10, <1>11, <1>12, <1>13, <1>14, <1>15

\* Where each adapter has one task and none is cancelled, what is open follows from where the task is.
LEMMA ONeatStep ==
    ASSUME NEW c, Opening(c)!ConstantsFit, OInv1(c), OInv1(c)', "cancel" \notin c.Faults, Opening(c)!OneEach,
           \A t \in c.Tasks : ONeat(c, t), [Opening(c)!Next]_(Opening(c)!vars)
    PROVE  \A t \in c.Tasks : ONeat(c, t)'
<1>1. \A t, u \in c.Tasks : u # t => Opening(c)!On(u) # Opening(c)!On(t)
  BY OOn DEF Opening!OneEach
<1>2. ASSUME NEW t \in c.Tasks,
             \/ \E op \in {"use", "health"} : Opening(c)!Start(t, op)
             \/ Opening(c)!Open(t) \/ Opening(c)!Check(t) \/ Opening(c)!Migrate(t) \/ Opening(c)!UpToDate(t) \/ Opening(c)!Migrated(t)
             \/ Opening(c)!Use(t) \/ Opening(c)!Corruption(t) \/ Opening(c)!Gone(t)
             \/ Opening(c)!Close(t) \/ Opening(c)!Checkpoint(t) \/ Opening(c)!Forget(t)
      PROVE  \A u \in c.Tasks : ONeat(c, u)'
  <2>1. /\ ONeat(c, t)'
        /\ \A u \in c.Tasks : u # t => opener'[u] = opener[u]
        /\ \A b \in c.Adapters : b # Opening(c)!On(t) => conn'[b] = conn[b] /\ open'[b] = open[b] /\ corrupt'[b] = corrupt[b]
    BY <1>2, ONeatTask
  <2>2. ASSUME NEW u \in c.Tasks, u # t PROVE ONeat(c, u)'
    <3>1. Opening(c)!On(u) # Opening(c)!On(t) /\ Opening(c)!On(u) \in c.Adapters
      BY <1>1, <2>2, OOn
    <3> QED BY <2>1, <2>2, <3>1, OOthers
  <2> QED BY <2>1, <2>2
<1>3. ASSUME UNCHANGED <<conn, corrupt, open, opener>> PROVE \A u \in c.Tasks : ONeat(c, u)'
  BY <1>3, OOthers
<1>4. ASSUME NEW a \in c.Adapters, Opening(c)!Restart(a) PROVE \A u \in c.Tasks : ONeat(c, u)'
  <2>1. /\ \A b \in c.Adapters : b # a => conn'[b] = conn[b] /\ open'[b] = open[b] /\ corrupt'[b] = corrupt[b]
        /\ conn'[a] = None /\ open'[a] = {} /\ corrupt'[a] = FALSE
        /\ \A t \in c.Tasks : opener'[t] = IF t \in a THEN Opening(c)!Idle ELSE opener[t]
    BY <1>4 DEF Opening!Restart, OInv1, OTypes
  <2>2. ASSUME NEW u \in c.Tasks PROVE ONeat(c, u)'
    <3>1. CASE u \in a
      <4>1. Opening(c)!On(u) = a /\ opener'[u].at = "idle"
        BY <2>1, <3>1, OOn, OIdle
      <4> QED BY <2>1, <4>1 DEF ONeat, Opens
    <3>2. CASE u \notin a
      <4>1. Opening(c)!On(u) # a /\ Opening(c)!On(u) \in c.Adapters
        BY <3>2, OOn
      <4> QED BY <2>1, <3>2, <4>1, OOthers
    <3> QED BY <3>1, <3>2
  <2> QED BY <2>2
<1>5. CASE UNCHANGED Opening(c)!vars
  BY <1>3, <1>5 DEF Opening!vars
<1>6. CASE Opening(c)!Damage
  BY <1>3, <1>6 DEF Opening!Damage
<1>7. ASSUME NEW t \in c.Tasks, Opening(c)!Cancel(t) PROVE FALSE
  BY <1>7 DEF Opening!Cancel
<1> QED BY <1>2, <1>4, <1>5, <1>6, <1>7 DEF Opening!Next

\* The invariant is inductive.
LEMMA OStep ==
    ASSUME NEW c, Opening(c)!ConstantsFit, OInv(c), [Opening(c)!Next]_(Opening(c)!vars)
    PROVE  OInv(c)'
<1>1. OInv1(c)'
  BY OStep1 DEF OInv
<1>2. ASSUME "cancel" \notin c.Faults, Opening(c)!OneEach PROVE \A t \in c.Tasks : ONeat(c, t)'
  BY <1>1, <1>2, ONeatStep DEF OInv
<1> QED BY <1>1, <1>2 DEF OInv, Opening!OneEach

\* The invariant implies what the store promises.
LEMMA OHolds == ASSUME NEW c, Opening(c)!ConstantsFit, OInv(c) PROVE Opening(c)!StoresOpen
<1>1. Opening(c)!TypeOK
  <2>1. file.lock \in Opening(c)!Opened \cup {None}
    BY DEF OInv, OInv1, OLock, Opening!Opened
  <2> QED BY <2>1 DEF OInv, OInv1, OTypes, OTask, Opening!TypeOK, Opening!Latest
<1>2. Opening(c)!OnlyDamageQuarantines
  BY DEF OInv, OInv1, ODamage, Opening!OnlyDamageQuarantines
<1>3. ~c.NewFile => Opening(c)!SoundFileWorks
  BY DEF OInv, OInv1, OSound, Opening!SoundFileWorks
<1>4. ASSUME "cancel" \notin c.Faults, Opening(c)!OneEach PROVE Opening(c)!NoLostConnection /\ Opening(c)!QuarantineHolds
  <2>1. \A t \in c.Tasks : ONeat(c, t)
    BY <1>4 DEF OInv
  <2>2. ASSUME NEW a \in c.Adapters PROVE \E t \in c.Tasks : Opening(c)!On(t) = a
    BY OOn DEF Opening!ConstantsFit
  <2>3. ASSUME NEW a \in c.Adapters, corrupt[a] PROVE conn[a] = None
    BY <2>1, <2>2, <2>3 DEF ONeat
  <2>4. ASSUME NEW a \in c.Adapters, NEW h \in open[a]
        PROVE  \/ conn[a] = h
               \/ \E t \in c.Tasks : opener[t].c = h /\ opener[t].at \in {"checking", "versioned", "migrating"}
    <3>1. PICK t \in c.Tasks : Opening(c)!On(t) = a
      BY <2>2
    <3>2. ONeat(c, t) /\ opener[t] \in OTask(c)
      BY <2>1 DEF OInv, OInv1, OTypes
    <3>3. opener[t].at \in {"idle", "opening", "checking", "versioned", "migrating", "using", "checkpointing", "shutting"}
      BY <3>2 DEF OTask
    <3> QED BY <2>4, <3>1, <3>2, <3>3 DEF ONeat, Opens
  <2> QED BY <2>3, <2>4 DEF Opening!NoLostConnection, Opening!QuarantineHolds, Opening!Opened
<1> QED BY <1>1, <1>2, <1>3, <1>4 DEF Opening!StoresOpen

----------------------------------------
(* MemoryStore.  Per statement of the operation that runs (ROne): what is *)
(* committed of an acknowledged write (RKeeps), which rows a prune may take *)
(* (RSpares), whose edges (RWhole), which vectors have rows (RCovers), and *)
(* which rows have theirs (RFits). *)

db == v1
view == v2
intx == v3
vec == v4
owed == v5
work == v6
USE DEF db, view, intx, vec, owed, work

Database(c) == [rows : [c.Ids -> Rows(c)!Rows \cup {None}], vecs : [c.Ids -> c.Contents \cup {None}],
                index : c.Embedders \cup {None}, pins : Seq(c.Embedders), edges : SUBSET Rows(c)!Edges]

Work(c) == [at : {"idle", "load", "pins", "index", "pin", "write", "commit row", "unindex", "insert", "commit vector",
                  "archive", "delete", "vectors", "commit", "touch", "begin", "clear", "insert edges"},
            op : {"none", "connect", "write", "delete", "prune", "search", "edges"},
            id : c.Ids \cup {None}, row : Rows(c)!Rows \cup {None}, model : c.Embedders \cup {None},
            ids : SUBSET (c.Ids \cup Rows(c)!Edges)]

\* What an operation carries from one statement to the next.
Holds(c, w) ==
    /\ w.at \in {"pins", "index", "pin", "write", "commit row", "unindex", "insert", "commit vector"} =>
         w.id \in c.Ids /\ w.row \in Rows(c)!Rows
    /\ w.at \in {"index", "pin", "unindex", "insert", "commit vector"} => w.model \in c.Embedders
    /\ w.at \in {"archive", "delete", "vectors"} => w.ids \subseteq c.Ids
    /\ w.at \in {"begin", "clear", "insert edges"} <=> w.op = "edges" /\ w.at # "commit"
    /\ w.op = "edges" => w.ids \subseteq Rows(c)!Edges
    /\ w.op = "prune" => w.at \in {"archive", "delete", "vectors", "commit"}

RTypes(c) ==
    /\ db \in Database(c) /\ view \in Database(c) /\ intx \in BOOLEAN /\ (~intx => db = view)
    /\ vec \in {"untried", "loading", "ok"} /\ owed \in [c.Ids -> {"no", "written", "acknowledged"}]
    /\ work \in [c.Tasks -> Work(c)] /\ \A t \in c.Tasks : Holds(c, work[t])

\* A sequence that is appended to stays one.
LEMMA RAppended ==
    ASSUME NEW S, NEW q \in Seq(S), NEW e \in S
    PROVE  Append(q, e) \in Seq(S)
OBVIOUS

\* What an idle task carries.
LEMMA RIdle ==
    ASSUME NEW c
    PROVE  /\ Rows(c)!Idle \in Work(c) /\ Holds(c, Rows(c)!Idle)
           /\ Rows(c)!Idle.at = "idle" /\ Rows(c)!Idle.op = "none"
<1>1. Rows(c)!Idle \in Work(c) /\ Rows(c)!Idle.at = "idle" /\ Rows(c)!Idle.op = "none"
  BY DEF Rows!Idle, Work
<1> QED BY <1>1 DEF Holds

\* What the statements make of a database.
LEMMA RRemoved ==
    ASSUME NEW c, NEW v \in Database(c), NEW ids
    PROVE  LET u == Rows(c)!Removed(v, ids)
           IN  /\ u \in Database(c) /\ u.vecs = v.vecs /\ u.index = v.index /\ u.pins = v.pins /\ u.edges = v.edges
               /\ \A i \in c.Ids : u.rows[i] = IF i \in ids THEN None ELSE v.rows[i]
<1> DEFINE f == [i \in c.Ids |-> IF i \in ids THEN None ELSE v.rows[i]]
<1>1. Rows(c)!Removed(v, ids) = [v EXCEPT !.rows = f]
  BY DEF Rows!Removed
<1>2. f \in [c.Ids -> Rows(c)!Rows \cup {None}] /\ \A i \in c.Ids : f[i] = IF i \in ids THEN None ELSE v.rows[i]
  BY DEF Database
<1> HIDE DEF f
<1> QED BY <1>1, <1>2 DEF Database

\* What taking out vectors leaves of a database.
LEMMA RUnindexed ==
    ASSUME NEW c, NEW v \in Database(c), NEW ids
    PROVE  LET u == Rows(c)!Unindexed(v, ids)
           IN  /\ u \in Database(c) /\ u.rows = v.rows /\ u.index = v.index /\ u.pins = v.pins /\ u.edges = v.edges
               /\ \A i \in c.Ids : u.vecs[i] = IF i \in ids THEN None ELSE v.vecs[i]
<1> DEFINE f == [i \in c.Ids |-> IF i \in ids THEN None ELSE v.vecs[i]]
<1>1. Rows(c)!Unindexed(v, ids) = [v EXCEPT !.vecs = f]
  BY DEF Rows!Unindexed
<1>2. f \in [c.Ids -> c.Contents \cup {None}] /\ \A i \in c.Ids : f[i] = IF i \in ids THEN None ELSE v.vecs[i]
  BY DEF Database
<1> HIDE DEF f
<1> QED BY <1>1, <1>2 DEF Database

\* What archiving rows leaves of a database.
LEMMA RArchived ==
    ASSUME NEW c, Rows(c)!ConstantsFit, NEW v \in Database(c), NEW ids
    PROVE  LET u == Rows(c)!Archived(v, ids)
           IN  /\ u \in Database(c) /\ u.vecs = v.vecs /\ u.index = v.index /\ u.pins = v.pins /\ u.edges = v.edges
               /\ \A i \in c.Ids : /\ u.rows[i] = None <=> v.rows[i] = None
                                   /\ v.rows[i] # None => u.rows[i].text = v.rows[i].text
                                   /\ i \notin ids => u.rows[i] = v.rows[i]
<1> DEFINE old(i) == [v.rows[i] EXCEPT !.archived = TRUE]
           f == [i \in c.Ids |-> IF i \in ids /\ v.rows[i] # None THEN old(i) ELSE v.rows[i]]
<1>1. Rows(c)!Archived(v, ids) = [v EXCEPT !.rows = f]
  BY DEF Rows!Archived
<1>2. \A i \in c.Ids : v.rows[i] # None => old(i) \in Rows(c)!Rows /\ old(i).text = v.rows[i].text
  BY DEF Database, Rows!Rows
<1> HIDE DEF old
<1>3. /\ f \in [c.Ids -> Rows(c)!Rows \cup {None}]
      /\ \A i \in c.Ids : f[i] = IF i \in ids /\ v.rows[i] # None THEN old(i) ELSE v.rows[i]
  BY <1>2 DEF Database
<1> HIDE DEF f
<1>4. None \notin Rows(c)!Rows
  BY DEF Rows!ConstantsFit
<1> QED BY <1>1, <1>2, <1>3, <1>4 DEF Database

\* What a new index makes of a database.
LEMMA RMade ==
    ASSUME NEW c, NEW v \in Database(c), NEW e \in c.Embedders
    PROVE  LET u == Rows(c)!Made(v, e)
           IN  /\ u \in Database(c) /\ u.rows = v.rows /\ u.vecs = v.vecs /\ u.pins = v.pins /\ u.edges = v.edges
               /\ u.index = IF v.index = None THEN e ELSE v.index
BY DEF Rows!Made, Database

\* What new edges make of a database.
LEMMA RLinked ==
    ASSUME NEW c, NEW v \in Database(c), NEW s \in SUBSET Rows(c)!Edges
    PROVE  LET u == [v EXCEPT !.edges = s]
           IN  u \in Database(c) /\ u.rows = v.rows /\ u.vecs = v.vecs /\ u.index = v.index /\ u.pins = v.pins /\ u.edges = s
BY DEF Database

\* One operation after the other.  An acknowledged entry has its row, committed and
\* seen; the database has one pin.
RKeeps(c, w) ==
    /\ \A i \in c.Ids : owed[i] = "acknowledged" => db.rows[i] # None /\ view.rows[i] # None
    /\ w.at \in {"commit row", "unindex", "insert", "commit vector"} => view.rows[w.id] # None
    /\ Len(db.pins) <= 1 /\ Len(view.pins) <= 1
    /\ w.at \in {"index", "pin"} => view.pins = <<>>

\* A prune is about to change no pinned row.
RSpares(c, w) ==
    w.op = "prune" /\ w.at \in {"archive", "delete"} => \A i \in w.ids : view.rows[i] = None \/ ~view.rows[i].pinned

\* The edges are committed as the operation on them wants them all.
RWhole(c, w) ==
    "cancel" \notin c.Faults =>
        /\ w.op = "edges" /\ w.at = "commit" => view.edges = w.ids
        /\ ~(w.op = "edges" /\ w.at \in {"insert edges", "commit"}) => view.edges = db.edges

\* No operation is broken off while the process lives; or at all.
Whole(c) == c.Faults \subseteq {"crash", "down"}
Faultless(c) == c.Faults = {}

\* A vector has its row, except between the two deletions.
RCovers(c, w) ==
    Whole(c) =>
        /\ \A i \in c.Ids : db.vecs[i] # None => db.rows[i] # None /\ db.index # None
        /\ \A i \in c.Ids : view.vecs[i] # None =>
             view.index # None /\ (view.rows[i] # None \/ (w.at = "vectors" /\ i \in w.ids))

\* Where nothing fails, no transaction stays open, the index fits the pin, and an
\* acknowledged entry has the vector of what it says.
RFits(c, w) ==
    Faultless(c) =>
        /\ w.at \in {"idle", "load", "pins", "index", "archive", "delete", "touch", "begin"} => ~intx
        /\ vec = "loading" => w.at = "load"
        /\ w.at = "pins" => vec = "ok"
        /\ w.at \in {"write", "commit row"} => w.model \in c.Embedders
        /\ w.at # "pin" => (view.pins = <<>> => view.index = None) /\ (view.pins # <<>> => view.index = view.pins[1])
        /\ w.at = "pin" => view.index = w.model
        /\ w.at \in {"write", "commit row", "unindex", "insert", "commit vector"} => view.pins # <<>> /\ w.model = view.pins[1]
        /\ \A i \in c.Ids : view.rows[i] # None /\ view.vecs[i] # None =>
             view.vecs[i] = view.rows[i].text \/ (w.at \in {"commit row", "unindex"} /\ i = w.id)
        /\ w.at \in {"commit row", "unindex", "insert", "commit vector"} => view.rows[w.id] = w.row
        /\ w.at = "insert" => view.vecs[w.id] = None
        /\ w.at = "commit vector" => view.vecs[w.id] # None
        /\ w.at = "vectors" => \A i \in w.ids : owed[i] # "acknowledged"
        /\ \A i \in c.Ids : owed[i] = "acknowledged" => view.vecs[i] # None \/ (w.at = "insert" /\ i = w.id)

ROne(c, w) == RKeeps(c, w) /\ RSpares(c, w) /\ RWhole(c, w) /\ RCovers(c, w) /\ RFits(c, w)

\* A step of an operation keeps that, changes no pinned row in a prune, and edges as wanted.
RSafe(c, w) ==
    /\ w.op = "prune" => \A i \in c.Ids : view.rows[i] # None /\ view.rows[i].pinned => view'.rows[i] = view.rows[i]
    /\ "cancel" \notin c.Faults /\ db'.edges # db.edges => w.op = "edges" /\ db'.edges = w.ids
RStep(c, t, w) ==
    /\ work' = [work EXCEPT ![t] = w] /\ RTypes(c)'
    /\ ROne(c, work[t]) => ROne(c, w)' /\ RSafe(c, work[t])

\* A step keeps the types when what it assigns has them.
LEMMA RTyped ==
    ASSUME NEW c, RTypes(c), NEW t \in c.Tasks, NEW w \in Work(c), Holds(c, w), work' = [work EXCEPT ![t] = w],
           db' \in Database(c), view' \in Database(c), intx' \in BOOLEAN, ~intx' => db' = view',
           vec' \in {"untried", "loading", "ok"}, owed' \in [c.Ids -> {"no", "written", "acknowledged"}]
    PROVE  RTypes(c)'
<1>1. work' \in [c.Tasks -> Work(c)] /\ work'[t] = w /\ \A u \in c.Tasks : u # t => work'[u] = work[u]
  BY DEF RTypes
<1>2. \A u \in c.Tasks : Holds(c, work'[u])
  BY <1>1 DEF RTypes
<1>3. \A u \in c.Tasks : Holds(c, work[u])'
  BY <1>2 DEF Holds
<1> QED BY <1>1, <1>3 DEF RTypes, Database, Work

\* A step that leaves the database alone leaves its vectors with their rows.
LEMMA RCoversSame ==
    ASSUME NEW c, NEW o, NEW w, RCovers(c, o), o.at # "vectors" \/ ~Whole(c), db' = db, view' = view \/ view' = db
    PROVE  RCovers(c, w)'
<1>1. CASE ~Whole(c)
  BY <1>1 DEF RCovers
<1>2. CASE o.at # "vectors" /\ view' = view
  BY <1>2 DEF RCovers
<1>3. CASE o.at # "vectors" /\ view' = db
  BY <1>3 DEF RCovers
<1> QED BY <1>1, <1>2, <1>3

\* And its rows with their vectors.
LEMMA RFitsSame ==
    ASSUME NEW c, NEW o, NEW w, RFits(c, o), o.at \in {"idle", "load", "pins"},
           db' = db, view' = view, intx' = intx, owed' = owed,
           w.at \in {"idle", "load", "pins", "index", "write", "archive", "delete", "touch", "begin"},
           Faultless(c) => (vec' = "loading" => w.at = "load"),
           Faultless(c) => (w.at = "pins" => vec' = "ok"),
           Faultless(c) => (w.at = "write" => w.model \in c.Embedders /\ view.pins # <<>> /\ w.model = view.pins[1])
    PROVE  RFits(c, w)'
<1> SUFFICES ASSUME Faultless(c) PROVE RFits(c, w)'
  BY DEF RFits
<1> QED BY DEF RFits

\* An operation begins, or finds out what it needs.
LEMMA RQuiet ==
    ASSUME NEW c, Rows(c)!ConstantsFit, RTypes(c), NEW t \in c.Tasks, work[t].at \in {"idle", "load", "pins"},
           NEW w \in Work(c), Holds(c, w), work' = [work EXCEPT ![t] = w],
           db' = db, view' = view, intx' = intx, owed' = owed, vec' \in {"untried", "loading", "ok"},
           w.at \in {"idle", "load", "pins", "index", "write", "archive", "delete", "touch", "begin"},
           w.at = "index" => view.pins = <<>>,
           RSpares(c, w),
           Faultless(c) /\ RFits(c, work[t]) => (vec' = "loading" => w.at = "load"),
           Faultless(c) /\ RFits(c, work[t]) => (w.at = "pins" => vec' = "ok"),
           Faultless(c) /\ RFits(c, work[t]) => (w.at = "write" => w.model \in c.Embedders /\ view.pins # <<>> /\ w.model = view.pins[1])
    PROVE  RStep(c, t, w)
<1>1. RTypes(c)'
  BY RTyped DEF RTypes
<1>2. work[t].op # "prune"
  BY DEF RTypes, Holds
<1>3. ASSUME ROne(c, work[t]) PROVE ROne(c, w)'
  <2>1. RKeeps(c, w)'
    BY <1>3 DEF ROne, RKeeps
  <2>2. RSpares(c, w)'
    BY <1>3 DEF RSpares
  <2>3. RWhole(c, w)'
    BY <1>3 DEF ROne, RWhole
  <2>4. RCovers(c, w)'
    BY <1>3, RCoversSame DEF ROne
  <2>5. RFits(c, w)'
    BY <1>3, RFitsSame DEF ROne
  <2> QED BY <2>1, <2>2, <2>3, <2>4, <2>5 DEF ROne
<1> QED BY <1>1, <1>2, <1>3 DEF RStep, RSafe

\* An operation is given up: nothing changes, or what is not committed is undone.
LEMMA RStops ==
    ASSUME NEW c, Rows(c)!ConstantsFit, RTypes(c), NEW t \in c.Tasks, Rows(c)!Ends(t),
           db' = db, vec' = vec, owed' = owed, (view' = view /\ intx' = intx) \/ (view' = db /\ intx' = FALSE),
           RFits(c, work[t]) => ~Faultless(c),
           ~Whole(c) \/ work[t].at # "vectors",
           view' = db \/ work[t].op # "edges" \/ "cancel" \in c.Faults,
           view' = view \/ work[t].op # "prune"
    PROVE  \E w \in Work(c) : RStep(c, t, w)
<1> DEFINE w == Rows(c)!Idle
<1>1. w \in Work(c) /\ Holds(c, w) /\ work' = [work EXCEPT ![t] = w] /\ w.at = "idle" /\ w.op = "none"
  BY RIdle DEF Rows!Ends
<1> HIDE DEF w
<1>2. RTypes(c)'
  BY <1>1, RTyped DEF RTypes
<1>3. ASSUME ROne(c, work[t]) PROVE ROne(c, w)'
  <2>1. RKeeps(c, w)'
    BY <1>1, <1>3 DEF ROne, RKeeps
  <2>2. RSpares(c, w)'
    BY <1>1 DEF RSpares
  <2>3. RWhole(c, w)'
    BY <1>1, <1>3 DEF ROne, RWhole
  <2>4. RCovers(c, w)'
    BY <1>3, RCoversSame DEF ROne
  <2>5. RFits(c, w)'
    BY <1>3 DEF ROne, RFits
  <2> QED BY <2>1, <2>2, <2>3, <2>4, <2>5 DEF ROne
<1>4. RSafe(c, work[t])
  BY DEF RSafe
<1> QED BY <1>1, <1>2, <1>3, <1>4 DEF RStep

\* An operation that starts finds no transaction open.
LEMMA RStarts ==
    ASSUME NEW c, Rows(c)!ConstantsFit, RTypes(c), NEW t \in c.Tasks,
           \/ Rows(c)!Connect(t) \/ Rows(c)!Load(t) \/ Rows(c)!StartWrite(t) \/ Rows(c)!StartDelete(t)
           \/ Rows(c)!StartPrune(t) \/ Rows(c)!Search(t) \/ Rows(c)!StartReplace(t)
    PROVE  \E w \in Work(c) : RStep(c, t, w)
<1>1. work[t].at \in {"idle", "load"} /\ db' = db /\ view' = view /\ intx' = intx /\ owed' = owed
  BY DEF Rows!Connect, Rows!Load, Rows!StartWrite, Rows!StartDelete, Rows!StartPrune, Rows!Search, Rows!StartReplace, Rows!At
\* Where the new operation has nothing to do with pins.
<1>2. ASSUME NEW w \in Work(c), Holds(c, w), work' = [work EXCEPT ![t] = w], vec' \in {"untried", "loading", "ok"},
             w.at \in {"idle", "load", "pins", "archive", "delete", "touch", "begin"}, RSpares(c, w),
             vec' = vec \/ vec' = "ok" \/ w.at = "load", w.at = "pins" => vec' # "untried", work[t].at = "load" => vec' # "loading"
      PROVE  RStep(c, t, w)
  <2>1. Faultless(c) /\ RFits(c, work[t]) => (vec' = "loading" => w.at = "load")
    BY <1>1, <1>2 DEF RFits
  <2>2. Faultless(c) /\ RFits(c, work[t]) => (w.at = "pins" => vec' = "ok")
    BY <1>2, <2>1
  <2> QED BY <1>1, <1>2, <2>1, <2>2, RQuiet
<1>3. CASE Rows(c)!Connect(t)
  <2> DEFINE w == [Rows(c)!Idle EXCEPT !.at = "load", !.op = "connect"]
  <2>1. w \in Work(c) /\ w.at = "load" /\ w.op = "connect"
    BY DEF Rows!Idle, Work
  <2>2. work' = [work EXCEPT ![t] = w] /\ vec' = "loading" /\ work[t].at = "idle"
    BY <1>3 DEF Rows!Connect, Rows!At
  <2> HIDE DEF w
  <2>3. Holds(c, w) /\ RSpares(c, w)
    BY <2>1 DEF Holds, RSpares
  <2> QED BY <1>2, <2>1, <2>2, <2>3
<1>4. CASE Rows(c)!Load(t)
  <2> DEFINE w == Rows(c)!Idle
  <2>1. w \in Work(c) /\ w.at = "idle" /\ w.op = "none" /\ Holds(c, w)
    BY RIdle
  <2>2. work' = [work EXCEPT ![t] = w] /\ vec' = "ok"
    BY <1>4 DEF Rows!Load, Rows!Ends
  <2> HIDE DEF w
  <2>3. RSpares(c, w)
    BY <2>1 DEF RSpares
  <2> QED BY <1>2, <2>1, <2>2, <2>3
<1>5. CASE Rows(c)!StartWrite(t)
  <2>1. PICK i \in c.Ids, x \in c.Contents, pinned \in BOOLEAN :
          work' = [work EXCEPT ![t] = [Rows(c)!Idle EXCEPT !.at = "pins", !.op = "write", !.id = i,
                                         !.row = [text |-> x, pinned |-> pinned, archived |-> FALSE]]]
    BY <1>5 DEF Rows!StartWrite
  <2> DEFINE r == [text |-> x, pinned |-> pinned, archived |-> FALSE]
  <2>2. r \in Rows(c)!Rows
    BY DEF Rows!Rows
  <2>3. work' = [work EXCEPT ![t] = [Rows(c)!Idle EXCEPT !.at = "pins", !.op = "write", !.id = i, !.row = r]]
    BY <2>1
  <2> HIDE DEF r
  <2> DEFINE w == [Rows(c)!Idle EXCEPT !.at = "pins", !.op = "write", !.id = i, !.row = r]
  <2>4. w \in Work(c) /\ w.at = "pins" /\ w.op = "write" /\ w.id = i /\ w.row = r
    BY <2>2 DEF Rows!Idle, Work
  <2>5. work' = [work EXCEPT ![t] = w] /\ vec' = vec /\ vec # "untried" /\ work[t].at = "idle"
    BY <1>5, <2>3 DEF Rows!StartWrite, Rows!At
  <2> HIDE DEF w
  <2>6. Holds(c, w) /\ RSpares(c, w)
    BY <2>2, <2>4 DEF Holds, RSpares
  <2>7. vec \in {"untried", "loading", "ok"}
    BY DEF RTypes
  <2> QED BY <1>2, <2>4, <2>5, <2>6, <2>7
\* Deletions, archivings, searches and replacements of edges.
<1>6. ASSUME NEW at \in {"delete", "archive", "touch", "begin"}, NEW op \in {"delete", "prune", "search", "edges"},
             NEW ids \in SUBSET (c.Ids \cup Rows(c)!Edges), vec' = vec, work[t].at = "idle",
             work' = [work EXCEPT ![t] = [Rows(c)!Idle EXCEPT !.at = at, !.op = op, !.ids = ids]],
             at \in {"delete", "archive"} => ids \subseteq c.Ids /\ op \in {"delete", "prune"},
             at = "touch" => op = "search", at = "begin" => op = "edges" /\ ids \subseteq Rows(c)!Edges,
             op = "prune" => \A i \in ids : ~view.rows[i].pinned
      PROVE  \E w \in Work(c) : RStep(c, t, w)
  <2> DEFINE w == [Rows(c)!Idle EXCEPT !.at = at, !.op = op, !.ids = ids]
  <2>1. w \in Work(c) /\ w.at = at /\ w.op = op /\ w.ids = ids
    BY DEF Rows!Idle, Work
  <2>2. work' = [work EXCEPT ![t] = w]
    BY <1>6
  <2> HIDE DEF w
  <2>3. Holds(c, w) /\ RSpares(c, w)
    BY <1>6, <2>1 DEF Holds, RSpares
  <2>4. vec \in {"untried", "loading", "ok"}
    BY DEF RTypes
  <2> QED BY <1>2, <1>6, <2>1, <2>2, <2>3, <2>4
<1>7. CASE Rows(c)!StartDelete(t)
  <2>1. PICK i \in c.Ids, hard \in BOOLEAN :
          work' = [work EXCEPT ![t] = [Rows(c)!Idle EXCEPT !.at = IF hard THEN "delete" ELSE "archive", !.op = "delete", !.ids = {i}]]
    BY <1>7 DEF Rows!StartDelete
  <2>2. vec' = vec /\ work[t].at = "idle"
    BY <1>7 DEF Rows!StartDelete, Rows!At
  <2>3. PICK at \in {"delete", "archive"} : at = IF hard THEN "delete" ELSE "archive"
    OBVIOUS
  <2>4. {i} \in SUBSET (c.Ids \cup Rows(c)!Edges) /\ {i} \subseteq c.Ids
    OBVIOUS
  <2>5. work' = [work EXCEPT ![t] = [Rows(c)!Idle EXCEPT !.at = at, !.op = "delete", !.ids = {i}]]
    BY <2>1, <2>3
  <2> QED BY <1>6, <2>2, <2>4, <2>5
<1>8. CASE Rows(c)!StartPrune(t)
  <2>1. PICK ids \in SUBSET Rows(c)!Prunable(view), purge \in BOOLEAN :
          work' = [work EXCEPT ![t] = [Rows(c)!Idle EXCEPT !.at = IF purge THEN "delete" ELSE "archive", !.op = "prune", !.ids = ids]]
    BY <1>8 DEF Rows!StartPrune
  <2>2. vec' = vec /\ work[t].at = "idle"
    BY <1>8 DEF Rows!StartPrune, Rows!At
  <2>3. PICK at \in {"delete", "archive"} : at = IF purge THEN "delete" ELSE "archive"
    OBVIOUS
  <2>4. ids \in SUBSET (c.Ids \cup Rows(c)!Edges) /\ ids \subseteq c.Ids /\ \A i \in ids : ~view.rows[i].pinned
    BY DEF Rows!Prunable
  <2>5. work' = [work EXCEPT ![t] = [Rows(c)!Idle EXCEPT !.at = at, !.op = "prune", !.ids = ids]]
    BY <2>1, <2>3
  <2> QED BY <1>6, <2>2, <2>4, <2>5
<1>9. CASE Rows(c)!Search(t)
  <2> DEFINE w == [Rows(c)!Idle EXCEPT !.at = "touch", !.op = "search"]
  <2>1. w \in Work(c) /\ w.at = "touch" /\ w.op = "search"
    BY DEF Rows!Idle, Work
  <2>2. work' = [work EXCEPT ![t] = w] /\ vec' = vec /\ work[t].at = "idle" /\ vec \in {"untried", "loading", "ok"}
    BY <1>9 DEF Rows!Search, Rows!At, RTypes
  <2> HIDE DEF w
  <2>3. Holds(c, w) /\ RSpares(c, w)
    BY <2>1 DEF Holds, RSpares
  <2> QED BY <1>2, <2>1, <2>2, <2>3
<1>10. CASE Rows(c)!StartReplace(t)
  <2>1. PICK set \in SUBSET Rows(c)!Edges :
          work' = [work EXCEPT ![t] = [Rows(c)!Idle EXCEPT !.at = "begin", !.op = "edges", !.ids = set]]
    BY <1>10 DEF Rows!StartReplace
  <2>2. vec' = vec /\ work[t].at = "idle" /\ set \in SUBSET (c.Ids \cup Rows(c)!Edges)
    BY <1>10 DEF Rows!StartReplace, Rows!At
  <2> QED BY <1>6, <2>1, <2>2
<1> QED BY <1>3, <1>4, <1>5, <1>7, <1>8, <1>9, <1>10

\* The embedder of a write is loaded, or is not there.
LEMMA RResolves ==
    ASSUME NEW c, Rows(c)!ConstantsFit, RTypes(c), NEW t \in c.Tasks, Rows(c)!Resolve(t)
    PROVE  \E w \in Work(c) : RStep(c, t, w)
<1>1. /\ work[t].at = "pins" /\ db' = db /\ view' = view /\ intx' = intx /\ owed' = owed /\ vec' = vec
      /\ work[t] \in Work(c) /\ Holds(c, work[t]) /\ vec \in {"untried", "loading", "ok"}
  BY DEF Rows!Resolve, Rows!At, RTypes
<1>2. PICK e \in Rows(c)!Resolved(view.pins) :
        work' = [work EXCEPT ![t].model = e, ![t].at = IF e # None /\ Rows(c)!First(t) THEN "index" ELSE "write"]
  BY DEF Rows!Resolve
<1>3. /\ e \in c.Embedders \cup {None}
      /\ Faultless(c) /\ vec = "ok" => e \in c.Embedders /\ (view.pins = <<>> \/ e = view.pins[1])
  BY DEF Rows!Resolved, Faultless
<1>5. PICK at \in {"index", "write"} : /\ at = IF e # None /\ view.pins = <<>> THEN "index" ELSE "write"
                                     /\ (at = "index" => e # None /\ view.pins = <<>>)
                                     /\ (at = "write" => e = None \/ view.pins # <<>>)
  OBVIOUS
<1>6. PICK w \in Work(c) :
      /\ work' = [work EXCEPT ![t] = w] /\ w.at = at /\ w.op = work[t].op /\ w.id = work[t].id
      /\ w.row = work[t].row /\ w.model = e /\ w.ids = work[t].ids
  <2> DEFINE x == [work[t] EXCEPT !.model = e, !.at = at]
  <2>1. work' = [work EXCEPT ![t] = x]
    BY <1>2, <1>5 DEF Rows!First, RTypes
  <2>2. x \in Work(c) /\ x.at = at /\ x.op = work[t].op /\ x.id = work[t].id /\ x.row = work[t].row /\ x.model = e /\ x.ids = work[t].ids
    BY <1>1, <1>3, <1>5 DEF Work
  <2> HIDE DEF x
  <2> QED BY <2>1, <2>2
<1>7. Holds(c, w) /\ RSpares(c, w)
  BY <1>1, <1>3, <1>5, <1>6 DEF Holds, RSpares
<1>8. Faultless(c) /\ RFits(c, work[t]) => vec = "ok"
  BY <1>1 DEF RFits
<1>9. Faultless(c) /\ RFits(c, work[t]) => (w.at = "write" => w.model \in c.Embedders /\ view.pins # <<>> /\ w.model = view.pins[1])
  <2>1. None \notin c.Embedders
    BY DEF Rows!ConstantsFit
  <2> QED BY <1>3, <1>5, <1>6, <1>8, <2>1
<1> QED BY <1>1, <1>5, <1>6, <1>7, <1>8, <1>9, RQuiet
\* The first vector of a database makes its index, of the size of the embedder.
LEMMA RCreateIndex ==
    ASSUME NEW c, Rows(c)!ConstantsFit, RTypes(c), NEW t \in c.Tasks, Rows(c)!CreateIndex(t)
    PROVE  \E w \in Work(c) : RStep(c, t, w)
<1>1. /\ work[t].at = "index" /\ work[t] \in Work(c) /\ Holds(c, work[t]) /\ None \notin c.Embedders /\ None \notin Rows(c)!Rows
      /\ None \notin c.Contents
  BY DEF Rows!CreateIndex, Rows!At, RTypes, Rows!ConstantsFit
<1>2. PICK w \in Work(c) :
      /\ work' = [work EXCEPT ![t] = w] /\ w.at = "pin" /\ w.op = work[t].op /\ w.id = work[t].id
      /\ w.row = work[t].row /\ w.model = work[t].model /\ w.ids = work[t].ids
  <2> DEFINE x == [work[t] EXCEPT !.at = "pin"]
  <2>1. work' = [work EXCEPT ![t] = x]
    BY DEF RTypes, Rows!CreateIndex, Rows!Goes
  <2>2. /\ x \in Work(c) /\ x.at = "pin" /\ x.op = work[t].op /\ x.id = work[t].id
        /\ x.row = work[t].row /\ x.model = work[t].model /\ x.ids = work[t].ids
    BY <1>1 DEF Work
  <2> HIDE DEF x
  <2> QED BY <2>1, <2>2
<1>3. Holds(c, w)
  BY <1>1, <1>2 DEF Holds
<1> DEFINE e == work[t].model
<1>7. e \in c.Embedders /\ e = work[t].model
  BY <1>1 DEF Holds
<1> HIDE DEF e
<1>8. /\ Rows(c)!Made(view, e) \in Database(c) /\ Rows(c)!Made(view, e).rows = view.rows
      /\ Rows(c)!Made(view, e).vecs = view.vecs /\ Rows(c)!Made(view, e).pins = view.pins
      /\ Rows(c)!Made(view, e).edges = view.edges
      /\ Rows(c)!Made(view, e).index = IF view.index = None THEN e ELSE view.index
  BY <1>7, RMade DEF RTypes
<1>9. /\ Rows(c)!Made(db, e) \in Database(c) /\ Rows(c)!Made(db, e).rows = db.rows
      /\ Rows(c)!Made(db, e).vecs = db.vecs /\ Rows(c)!Made(db, e).pins = db.pins
      /\ Rows(c)!Made(db, e).edges = db.edges
      /\ Rows(c)!Made(db, e).index = IF db.index = None THEN e ELSE db.index
  BY <1>7, RMade DEF RTypes
<1>10. /\ view' = Rows(c)!Made(view, e) /\ db' = (IF intx THEN db ELSE Rows(c)!Made(db, e))
       /\ intx' = intx /\ vec' = vec /\ owed' = owed
  BY <1>7 DEF Rows!CreateIndex
<1>4. /\ db' \in Database(c) /\ view' \in Database(c) /\ intx' = intx /\ (~intx' => db' = view') /\ vec' = vec /\ owed' = owed
      /\ view'.rows = view.rows /\ view'.vecs = view.vecs /\ view'.pins = view.pins /\ view'.edges = view.edges
      /\ view'.index = (IF view.index = None THEN work[t].model ELSE view.index) /\ work[t].model \in c.Embedders
      /\ db'.rows = db.rows /\ db'.vecs = db.vecs /\ db'.pins = db.pins /\ db'.edges = db.edges
      /\ (db.index # None => db'.index # None)
  BY <1>7, <1>8, <1>9, <1>10 DEF RTypes
<1>5. RTypes(c)'
  BY <1>1, <1>2, <1>3, <1>4, RTyped DEF RTypes
<1>6. ASSUME ROne(c, work[t]) PROVE ROne(c, w)' /\ RSafe(c, work[t])
  <2>1. RKeeps(c, w)'
    BY <1>1, <1>2, <1>4, <1>6 DEF ROne, RKeeps, Holds
  <2>2. RSpares(c, w)'
    BY <1>1, <1>2, <1>4, <1>6 DEF ROne, RSpares, Holds
  <2>3. RWhole(c, w)'
    BY <1>1, <1>2, <1>4, <1>6 DEF ROne, RWhole, Holds
  <2>4. RCovers(c, w)'
    BY <1>1, <1>2, <1>4, <1>6 DEF ROne, RCovers, Holds
  <2>5. RFits(c, w)'
    BY <1>1, <1>2, <1>4, <1>6 DEF ROne, RFits, RKeeps, Holds
  <2>6. RSafe(c, work[t])
    BY <1>1, <1>2, <1>4, <1>6 DEF ROne, RSafe, RSpares, RWhole, Holds
  <2> QED BY <2>1, <2>2, <2>3, <2>4, <2>5, <2>6 DEF ROne
<1> QED BY <1>2, <1>5, <1>6 DEF RStep

\* Then the embedder is pinned, once.
LEMMA RPin ==
    ASSUME NEW c, Rows(c)!ConstantsFit, RTypes(c), NEW t \in c.Tasks, Rows(c)!Pin(t)
    PROVE  \E w \in Work(c) : RStep(c, t, w)
<1>1. /\ work[t].at = "pin" /\ work[t] \in Work(c) /\ Holds(c, work[t]) /\ None \notin c.Embedders /\ None \notin Rows(c)!Rows
      /\ None \notin c.Contents
  BY DEF Rows!Pin, Rows!At, RTypes, Rows!ConstantsFit
<1>2. PICK w \in Work(c) :
      /\ work' = [work EXCEPT ![t] = w] /\ w.at = "write" /\ w.op = work[t].op /\ w.id = work[t].id
      /\ w.row = work[t].row /\ w.model = work[t].model /\ w.ids = work[t].ids
  <2> DEFINE x == [work[t] EXCEPT !.at = "write"]
  <2>1. work' = [work EXCEPT ![t] = x]
    BY DEF RTypes, Rows!Pin, Rows!Goes
  <2>2. /\ x \in Work(c) /\ x.at = "write" /\ x.op = work[t].op /\ x.id = work[t].id
        /\ x.row = work[t].row /\ x.model = work[t].model /\ x.ids = work[t].ids
    BY <1>1 DEF Work
  <2> HIDE DEF x
  <2> QED BY <2>1, <2>2
<1>3. Holds(c, w)
  BY <1>1, <1>2 DEF Holds
<1>7. PICK e \in c.Embedders : e = work[t].model
  BY <1>1 DEF Holds
<1>8. view' = [view EXCEPT !.pins = Append(@, e)]
  BY <1>7 DEF Rows!Pin, Rows!Executes
<1>9. /\ view' \in Database(c) /\ view'.rows = view.rows /\ view'.vecs = view.vecs /\ view'.index = view.index
      /\ view'.edges = view.edges /\ view'.pins = Append(view.pins, e)
  <2> DEFINE s == Append(view.pins, e)
  <2>3. view \in Database(c)
    BY DEF RTypes
  <2>4. view.pins \in Seq(c.Embedders)
    BY <2>3 DEF Database
  <2>6. Append(view.pins, e) \in Seq(c.Embedders)
    BY <2>4, RAppended
  <2>1. view \in Database(c) /\ s \in Seq(c.Embedders) /\ s = Append(view.pins, e)
    BY <2>3, <2>6
  <2>2. view' = [view EXCEPT !.pins = s]
    BY <1>8
  <2> HIDE DEF s
  <2> QED BY <2>1, <2>2 DEF Database
<1>10. view.pins = <<>> => Len(view'.pins) = 1 /\ view'.pins # <<>> /\ view'.pins[1] = work[t].model
  BY <1>7, <1>9
<1>4. /\ db' = db /\ intx' = TRUE /\ vec' = vec /\ owed' = owed /\ work[t].model \in c.Embedders
      /\ view' \in Database(c) /\ view'.rows = view.rows /\ view'.vecs = view.vecs /\ view'.index = view.index
      /\ view'.edges = view.edges
      /\ (view.pins = <<>> => Len(view'.pins) = 1 /\ view'.pins # <<>> /\ view'.pins[1] = work[t].model)
  BY <1>7, <1>9, <1>10 DEF Rows!Pin, Rows!Executes
<1>5. RTypes(c)'
  BY <1>1, <1>2, <1>3, <1>4, RTyped DEF RTypes
<1>6. ASSUME ROne(c, work[t]) PROVE ROne(c, w)' /\ RSafe(c, work[t])
  <2>1. RKeeps(c, w)'
    <3>1. view.pins = <<>>
      BY <1>1, <1>6 DEF ROne, RKeeps
    <3>2. Len(view'.pins) = 1
      BY <1>4, <3>1
    <3>3. \A i \in c.Ids : owed'[i] = "acknowledged" => db'.rows[i] # None /\ view'.rows[i] # None
      BY <1>4, <1>6 DEF ROne, RKeeps
    <3>4. Len(db'.pins) <= 1
      BY <1>4, <1>6 DEF ROne, RKeeps
    <3> QED BY <1>2, <3>2, <3>3, <3>4 DEF RKeeps
  <2>2. RSpares(c, w)'
    BY <1>1, <1>2, <1>4, <1>6 DEF ROne, RSpares, Holds
  <2>3. RWhole(c, w)'
    BY <1>1, <1>2, <1>4, <1>6 DEF ROne, RWhole, Holds
  <2>4. RCovers(c, w)'
    BY <1>1, <1>2, <1>4, <1>6 DEF ROne, RCovers, Holds
  <2>5. RFits(c, w)'
    BY <1>1, <1>2, <1>4, <1>6 DEF ROne, RFits, RKeeps, Holds
  <2>6. RSafe(c, work[t])
    BY <1>1, <1>2, <1>4, <1>6 DEF ROne, RSafe, RSpares, RWhole, Holds
  <2> QED BY <2>1, <2>2, <2>3, <2>4, <2>5, <2>6 DEF ROne
<1> QED BY <1>2, <1>5, <1>6 DEF RStep

\* A row is written; the vector it had is of its old text until it is taken out.
LEMMA RUpsert ==
    ASSUME NEW c, Rows(c)!ConstantsFit, RTypes(c), NEW t \in c.Tasks, Rows(c)!Upsert(t)
    PROVE  \E w \in Work(c) : RStep(c, t, w)
<1>1. /\ work[t].at = "write" /\ work[t] \in Work(c) /\ Holds(c, work[t]) /\ None \notin c.Embedders /\ None \notin Rows(c)!Rows
      /\ None \notin c.Contents
  BY DEF Rows!Upsert, Rows!At, RTypes, Rows!ConstantsFit
<1>2. PICK w \in Work(c) :
      /\ work' = [work EXCEPT ![t] = w] /\ w.at = "commit row" /\ w.op = work[t].op /\ w.id = work[t].id
      /\ w.row = work[t].row /\ w.model = work[t].model /\ w.ids = work[t].ids
  <2> DEFINE x == [work[t] EXCEPT !.at = "commit row"]
  <2>1. work' = [work EXCEPT ![t] = x]
    BY DEF RTypes, Rows!Upsert, Rows!Goes
  <2>2. /\ x \in Work(c) /\ x.at = "commit row" /\ x.op = work[t].op /\ x.id = work[t].id
        /\ x.row = work[t].row /\ x.model = work[t].model /\ x.ids = work[t].ids
    BY <1>1 DEF Work
  <2> HIDE DEF x
  <2> QED BY <2>1, <2>2
<1>3. Holds(c, w)
  BY <1>1, <1>2 DEF Holds
<1> DEFINE k == work[t].id
           r == work[t].row
<1>7. k \in c.Ids /\ k = work[t].id /\ r \in Rows(c)!Rows /\ r = work[t].row
  BY <1>1 DEF Holds
<1> HIDE DEF k, r
<1>8. view' = [view EXCEPT !.rows[k] = r]
  BY <1>7 DEF Rows!Upsert, Rows!Executes
<1>9. owed' = [owed EXCEPT ![k] = IF @ = "no" THEN "written" ELSE @]
  BY <1>7 DEF Rows!Upsert
<1>10. owed \in [c.Ids -> {"no", "written", "acknowledged"}]
  BY DEF RTypes
<1>11. /\ owed' \in [c.Ids -> {"no", "written", "acknowledged"}]
       /\ \A i \in c.Ids : owed'[i] = "acknowledged" <=> owed[i] = "acknowledged"
  BY <1>7, <1>9, <1>10
<1>12. /\ view' \in Database(c) /\ view'.vecs = view.vecs /\ view'.index = view.index
       /\ view'.pins = view.pins /\ view'.edges = view.edges
       /\ \A i \in c.Ids : view'.rows[i] = IF i = k THEN r ELSE view.rows[i]
  <2> DEFINE f == [view.rows EXCEPT ![k] = r]
  <2>1. /\ view \in Database(c) /\ f \in [c.Ids -> Rows(c)!Rows \cup {None}]
        /\ \A i \in c.Ids : f[i] = IF i = k THEN r ELSE view.rows[i]
    BY <1>7 DEF RTypes, Database
  <2>2. view' = [view EXCEPT !.rows = f]
    BY <1>8, <2>1 DEF Database
  <2> HIDE DEF f
  <2> QED BY <2>1, <2>2 DEF Database
<1>4. /\ db' = db /\ intx' = TRUE /\ vec' = vec /\ work[t].id \in c.Ids /\ work[t].row \in Rows(c)!Rows
      /\ owed' \in [c.Ids -> {"no", "written", "acknowledged"}]
      /\ \A i \in c.Ids : owed'[i] = "acknowledged" <=> owed[i] = "acknowledged"
      /\ view' \in Database(c) /\ view'.vecs = view.vecs /\ view'.index = view.index
      /\ view'.pins = view.pins /\ view'.edges = view.edges
      /\ \A i \in c.Ids : view'.rows[i] = IF i = work[t].id THEN work[t].row ELSE view.rows[i]
  BY <1>7, <1>11, <1>12 DEF Rows!Upsert, Rows!Executes
<1>5. RTypes(c)'
  BY <1>1, <1>2, <1>3, <1>4, RTyped DEF RTypes
<1>6. ASSUME ROne(c, work[t]) PROVE ROne(c, w)' /\ RSafe(c, work[t])
  <2>1. RKeeps(c, w)'
    BY <1>1, <1>2, <1>4, <1>6, ZenonT(60) DEF ROne, RKeeps, Holds
  <2>2. RSpares(c, w)'
    BY <1>1, <1>2, <1>4, <1>6 DEF ROne, RSpares, Holds
  <2>3. RWhole(c, w)'
    BY <1>1, <1>2, <1>4, <1>6 DEF ROne, RWhole, Holds
  <2>4. RCovers(c, w)'
    BY <1>1, <1>2, <1>4, <1>6, ZenonT(60) DEF ROne, RCovers, Holds
  <2>5. RFits(c, w)'
    <3> SUFFICES ASSUME Faultless(c) PROVE RFits(c, w)'
      BY DEF RFits
    <3>1. /\ view.pins # <<>> /\ view.index = view.pins[1] /\ work[t].model \in c.Embedders /\ work[t].model = view.pins[1]
          /\ vec # "loading"
          /\ \A i \in c.Ids : view.rows[i] # None /\ view.vecs[i] # None => view.vecs[i] = view.rows[i].text
          /\ \A i \in c.Ids : owed[i] = "acknowledged" => view.vecs[i] # None
      BY <1>1, <1>6 DEF ROne, RFits
    <3>2. \A i \in c.Ids : view'.rows[i] # None /\ view'.vecs[i] # None => view'.vecs[i] = view'.rows[i].text \/ i = w.id
      BY <1>2, <1>4, <3>1
    <3>3. \A i \in c.Ids : owed'[i] = "acknowledged" => view'.vecs[i] # None
      BY <1>4, <3>1
    <3>4. view'.rows[w.id] = w.row
      BY <1>2, <1>4
    <3> QED BY <1>2, <1>4, <3>1, <3>2, <3>3, <3>4 DEF RFits
  <2>6. RSafe(c, work[t])
    BY <1>1, <1>2, <1>4, <1>6 DEF ROne, RSafe, RSpares, RWhole, Holds
  <2> QED BY <2>1, <2>2, <2>3, <2>4, <2>5, <2>6 DEF ROne
<1> QED BY <1>2, <1>5, <1>6 DEF RStep

\* A write without an embedder ends with its row committed.
LEMMA RCommitRowLast ==
    ASSUME NEW c, Rows(c)!ConstantsFit, RTypes(c), NEW t \in c.Tasks, Rows(c)!CommitRow(t), work[t].model = None
    PROVE  \E w \in Work(c) : RStep(c, t, w)
<1>1. /\ work[t].at = "commit row" /\ work[t] \in Work(c) /\ Holds(c, work[t]) /\ None \notin c.Embedders /\ None \notin Rows(c)!Rows
      /\ None \notin c.Contents
  BY DEF Rows!CommitRow, Rows!At, RTypes, Rows!ConstantsFit
<1>2. PICK w \in Work(c) : work' = [work EXCEPT ![t] = w] /\ w.at = "idle" /\ w.op = "none" /\ Holds(c, w)
  <2>1. work' = [work EXCEPT ![t] = Rows(c)!Idle]
    BY DEF Rows!CommitRow, Rows!Ends
  <2> QED BY <2>1, RIdle
<1>3. Holds(c, w)
  BY <1>2
<1>7. work[t].id \in c.Ids /\ owed \in [c.Ids -> {"no", "written", "acknowledged"}]
  BY <1>1 DEF Holds, RTypes
<1> DEFINE k == work[t].id
<1>8. k \in c.Ids /\ k = work[t].id
  BY <1>7
<1> HIDE DEF k
<1>9. owed' = [owed EXCEPT ![k] = IF @ = "written" THEN "acknowledged" ELSE @]
  BY <1>8 DEF Rows!CommitRow
<1>10. /\ owed' \in [c.Ids -> {"no", "written", "acknowledged"}]
       /\ \A i \in c.Ids : owed'[i] = "acknowledged" => owed[i] = "acknowledged" \/ i = k
  BY <1>7, <1>8, <1>9
<1>4. /\ db' = view /\ view' = view /\ db' \in Database(c) /\ view' \in Database(c) /\ intx' = FALSE /\ vec' = vec
      /\ owed' \in [c.Ids -> {"no", "written", "acknowledged"}]
      /\ \A i \in c.Ids : owed'[i] = "acknowledged" => owed[i] = "acknowledged" \/ i = work[t].id
      /\ work[t].id \in c.Ids
  BY <1>8, <1>10 DEF Rows!CommitRow, Rows!Commits, RTypes, Rows!CommitsRow
<1>5. RTypes(c)'
  BY <1>1, <1>2, <1>3, <1>4, RTyped DEF RTypes
<1>6. ASSUME ROne(c, work[t]) PROVE ROne(c, w)' /\ RSafe(c, work[t])
  <2>1. RKeeps(c, w)'
    BY <1>1, <1>2, <1>4, <1>6, ZenonT(60) DEF ROne, RKeeps, Holds
  <2>2. RSpares(c, w)'
    BY <1>1, <1>2, <1>4, <1>6 DEF ROne, RSpares, Holds
  <2>3. RWhole(c, w)'
    BY <1>1, <1>2, <1>4, <1>6 DEF ROne, RWhole, Holds
  <2>4. RCovers(c, w)'
    BY <1>1, <1>2, <1>4, <1>6, ZenonT(60) DEF ROne, RCovers, Holds
  <2>5. RFits(c, w)'
    BY <1>1, <1>2, <1>4, <1>6 DEF ROne, RFits, RKeeps, Holds
  <2>6. RSafe(c, work[t])
    BY <1>1, <1>2, <1>4, <1>6 DEF ROne, RSafe, RSpares, RWhole, Holds
  <2> QED BY <2>1, <2>2, <2>3, <2>4, <2>5, <2>6 DEF ROne
<1> QED BY <1>2, <1>5, <1>6 DEF RStep

\* A write with one goes on to the vector; its row stays whatever comes.
LEMMA RCommitRowThen ==
    ASSUME NEW c, Rows(c)!ConstantsFit, RTypes(c), NEW t \in c.Tasks, Rows(c)!CommitRow(t), work[t].model # None
    PROVE  \E w \in Work(c) : RStep(c, t, w)
<1>1. /\ work[t].at = "commit row" /\ work[t] \in Work(c) /\ Holds(c, work[t]) /\ None \notin c.Embedders /\ None \notin Rows(c)!Rows
      /\ None \notin c.Contents
  BY DEF Rows!CommitRow, Rows!At, RTypes, Rows!ConstantsFit
<1>2. PICK w \in Work(c) :
      /\ work' = [work EXCEPT ![t] = w] /\ w.at = "unindex" /\ w.op = work[t].op /\ w.id = work[t].id
      /\ w.row = work[t].row /\ w.model = work[t].model /\ w.ids = work[t].ids
  <2> DEFINE x == [work[t] EXCEPT !.at = "unindex"]
  <2>1. work' = [work EXCEPT ![t] = x]
    BY DEF RTypes, Rows!CommitRow, Rows!Goes
  <2>2. /\ x \in Work(c) /\ x.at = "unindex" /\ x.op = work[t].op /\ x.id = work[t].id
        /\ x.row = work[t].row /\ x.model = work[t].model /\ x.ids = work[t].ids
    BY <1>1 DEF Work
  <2> HIDE DEF x
  <2> QED BY <2>1, <2>2
<1>3. Holds(c, w)
  BY <1>1, <1>2 DEF Holds, Work
<1>4. /\ db' = view /\ view' = view /\ db' \in Database(c) /\ view' \in Database(c) /\ intx' = FALSE /\ vec' = vec
      /\ owed' = owed
  BY DEF Rows!CommitRow, Rows!Commits, RTypes, Rows!CommitsRow
<1>5. RTypes(c)'
  BY <1>1, <1>2, <1>3, <1>4, RTyped DEF RTypes
<1>6. ASSUME ROne(c, work[t]) PROVE ROne(c, w)' /\ RSafe(c, work[t])
  <2>1. RKeeps(c, w)'
    BY <1>1, <1>2, <1>4, <1>6, ZenonT(60) DEF ROne, RKeeps, Holds
  <2>2. RSpares(c, w)'
    BY <1>1, <1>2, <1>4, <1>6 DEF ROne, RSpares, Holds
  <2>3. RWhole(c, w)'
    BY <1>1, <1>2, <1>4, <1>6 DEF ROne, RWhole, Holds
  <2>4. RCovers(c, w)'
    BY <1>1, <1>2, <1>4, <1>6, ZenonT(60) DEF ROne, RCovers, Holds
  <2>5. RFits(c, w)'
    BY <1>1, <1>2, <1>4, <1>6 DEF ROne, RFits, RKeeps, Holds
  <2>6. RSafe(c, work[t])
    BY <1>1, <1>2, <1>4, <1>6 DEF ROne, RSafe, RSpares, RWhole, Holds
  <2> QED BY <2>1, <2>2, <2>3, <2>4, <2>5, <2>6 DEF ROne
<1> QED BY <1>2, <1>5, <1>6 DEF RStep

\* The old vector is taken out.
LEMMA RUnindex ==
    ASSUME NEW c, Rows(c)!ConstantsFit, RTypes(c), NEW t \in c.Tasks, Rows(c)!Unindex(t)
    PROVE  \E w \in Work(c) : RStep(c, t, w)
<1>1. /\ work[t].at = "unindex" /\ work[t] \in Work(c) /\ Holds(c, work[t]) /\ None \notin c.Embedders /\ None \notin Rows(c)!Rows
      /\ None \notin c.Contents
  BY DEF Rows!Unindex, Rows!At, RTypes, Rows!ConstantsFit
<1>2. PICK w \in Work(c) :
      /\ work' = [work EXCEPT ![t] = w] /\ w.at = "insert" /\ w.op = work[t].op /\ w.id = work[t].id
      /\ w.row = work[t].row /\ w.model = work[t].model /\ w.ids = work[t].ids
  <2> DEFINE x == [work[t] EXCEPT !.at = "insert"]
  <2>1. work' = [work EXCEPT ![t] = x]
    BY DEF RTypes, Rows!Unindex, Rows!Goes
  <2>2. /\ x \in Work(c) /\ x.at = "insert" /\ x.op = work[t].op /\ x.id = work[t].id
        /\ x.row = work[t].row /\ x.model = work[t].model /\ x.ids = work[t].ids
    BY <1>1 DEF Work
  <2> HIDE DEF x
  <2> QED BY <2>1, <2>2
<1>3. Holds(c, w)
  BY <1>1, <1>2 DEF Holds
<1>7. view' = Rows(c)!Unindexed(view, {work[t].id})
  BY DEF Rows!Unindex, Rows!Executes, Rows!WithoutOld
<1>8. /\ view' \in Database(c) /\ view'.rows = view.rows /\ view'.index = view.index /\ view'.pins = view.pins /\ view'.edges = view.edges
      /\ \A i \in c.Ids : view'.vecs[i] = IF i \in {work[t].id} THEN None ELSE view.vecs[i]
  BY <1>7, RUnindexed DEF RTypes
<1>4. /\ db' = db /\ intx' = TRUE /\ vec' = vec /\ owed' = owed /\ work[t].id \in c.Ids
      /\ view' \in Database(c) /\ view'.rows = view.rows /\ view'.index = view.index /\ view'.pins = view.pins /\ view'.edges = view.edges
      /\ \A i \in c.Ids : view'.vecs[i] = IF i = work[t].id THEN None ELSE view.vecs[i]
  BY <1>1, <1>8 DEF Rows!Unindex, Rows!Executes, Holds
<1>5. RTypes(c)'
  BY <1>1, <1>2, <1>3, <1>4, RTyped DEF RTypes
<1>6. ASSUME ROne(c, work[t]) PROVE ROne(c, w)' /\ RSafe(c, work[t])
  <2>1. RKeeps(c, w)'
    BY <1>1, <1>2, <1>4, <1>6 DEF ROne, RKeeps, Holds
  <2>2. RSpares(c, w)'
    BY <1>1, <1>2, <1>4, <1>6 DEF ROne, RSpares, Holds
  <2>3. RWhole(c, w)'
    BY <1>1, <1>2, <1>4, <1>6 DEF ROne, RWhole, Holds
  <2>4. RCovers(c, w)'
    BY <1>1, <1>2, <1>4, <1>6 DEF ROne, RCovers, Holds
  <2>5. RFits(c, w)'
    BY <1>1, <1>2, <1>4, <1>6 DEF ROne, RFits, RKeeps, Holds
  <2>6. RSafe(c, work[t])
    BY <1>1, <1>2, <1>4, <1>6 DEF ROne, RSafe, RSpares, RWhole, Holds
  <2> QED BY <2>1, <2>2, <2>3, <2>4, <2>5, <2>6 DEF ROne
<1> QED BY <1>2, <1>5, <1>6 DEF RStep

\* The new vector is put in.
LEMMA RInserts ==
    ASSUME NEW c, Rows(c)!ConstantsFit, RTypes(c), NEW t \in c.Tasks, Rows(c)!Insert(t), Rows(c)!Fits(t)
    PROVE  \E w \in Work(c) : RStep(c, t, w)
<1>1. /\ work[t].at = "insert" /\ work[t] \in Work(c) /\ Holds(c, work[t]) /\ None \notin c.Embedders /\ None \notin Rows(c)!Rows
      /\ None \notin c.Contents
  BY DEF Rows!Insert, Rows!At, RTypes, Rows!ConstantsFit
<1>2. PICK w \in Work(c) :
      /\ work' = [work EXCEPT ![t] = w] /\ w.at = "commit vector" /\ w.op = work[t].op /\ w.id = work[t].id
      /\ w.row = work[t].row /\ w.model = work[t].model /\ w.ids = work[t].ids
  <2> DEFINE x == [work[t] EXCEPT !.at = "commit vector"]
  <2>1. work' = [work EXCEPT ![t] = x]
    BY DEF RTypes, Rows!Insert, Rows!Goes
  <2>2. /\ x \in Work(c) /\ x.at = "commit vector" /\ x.op = work[t].op /\ x.id = work[t].id
        /\ x.row = work[t].row /\ x.model = work[t].model /\ x.ids = work[t].ids
    BY <1>1 DEF Work
  <2> HIDE DEF x
  <2> QED BY <2>1, <2>2
<1>3. Holds(c, w)
  BY <1>1, <1>2 DEF Holds
<1> DEFINE k == work[t].id
           x == work[t].row.text
<1>7. k \in c.Ids /\ k = work[t].id /\ x \in c.Contents /\ x = work[t].row.text
  BY <1>1 DEF Holds, Rows!Rows
<1> HIDE DEF k, x
<1>8. view' = [view EXCEPT !.vecs[k] = x]
  BY <1>7 DEF Rows!Insert, Rows!Executes
<1>9. /\ view' \in Database(c) /\ view'.rows = view.rows /\ view'.index = view.index /\ view'.pins = view.pins /\ view'.edges = view.edges
      /\ \A i \in c.Ids : view'.vecs[i] = IF i = k THEN x ELSE view.vecs[i]
  <2> DEFINE f == [view.vecs EXCEPT ![k] = x]
  <2>1. /\ view \in Database(c) /\ f \in [c.Ids -> c.Contents \cup {None}]
        /\ \A i \in c.Ids : f[i] = IF i = k THEN x ELSE view.vecs[i]
    BY <1>7 DEF RTypes, Database
  <2>2. view' = [view EXCEPT !.vecs = f]
    BY <1>8, <2>1 DEF Database
  <2> HIDE DEF f
  <2> QED BY <2>1, <2>2 DEF Database
<1>4. /\ db' = db /\ intx' = TRUE /\ vec' = vec /\ owed' = owed /\ work[t].id \in c.Ids /\ work[t].row.text \in c.Contents
      /\ view.index = work[t].model /\ work[t].model \in c.Embedders
      /\ view' \in Database(c) /\ view'.rows = view.rows /\ view'.index = view.index /\ view'.pins = view.pins /\ view'.edges = view.edges
      /\ \A i \in c.Ids : view'.vecs[i] = IF i = work[t].id THEN work[t].row.text ELSE view.vecs[i]
  BY <1>1, <1>7, <1>9 DEF Rows!Insert, Rows!Executes, Rows!Fits, Holds
<1>5. RTypes(c)'
  BY <1>1, <1>2, <1>3, <1>4, RTyped DEF RTypes
<1>6. ASSUME ROne(c, work[t]) PROVE ROne(c, w)' /\ RSafe(c, work[t])
  <2>1. RKeeps(c, w)'
    BY <1>1, <1>2, <1>4, <1>6, ZenonT(60) DEF ROne, RKeeps, Holds
  <2>2. RSpares(c, w)'
    BY <1>1, <1>2, <1>4, <1>6 DEF ROne, RSpares, Holds
  <2>3. RWhole(c, w)'
    BY <1>1, <1>2, <1>4, <1>6 DEF ROne, RWhole, Holds
  <2>4. RCovers(c, w)'
    <3>1. view.rows[work[t].id] # None
      BY <1>1, <1>6 DEF ROne, RKeeps
    <3> QED BY <1>1, <1>2, <1>4, <1>6, <3>1 DEF ROne, RCovers
  <2>5. RFits(c, w)'
    <3> SUFFICES ASSUME Faultless(c) PROVE RFits(c, w)'
      BY DEF RFits
    <3>1. /\ view.pins # <<>> /\ view.index = view.pins[1] /\ work[t].model = view.pins[1] /\ vec # "loading"
          /\ view.rows[work[t].id] = work[t].row
          /\ \A i \in c.Ids : view.rows[i] # None /\ view.vecs[i] # None => view.vecs[i] = view.rows[i].text
          /\ \A i \in c.Ids : owed[i] = "acknowledged" => view.vecs[i] # None \/ i = work[t].id
      BY <1>1, <1>6 DEF ROne, RFits
    <3>2. \A i \in c.Ids : view'.rows[i] # None /\ view'.vecs[i] # None => view'.vecs[i] = view'.rows[i].text
      BY <1>4, <3>1
    <3>3. (\A i \in c.Ids : owed'[i] = "acknowledged" => view'.vecs[i] # None) /\ view'.vecs[w.id] # None
      BY <1>1, <1>2, <1>4, <3>1, ZenonT(60)
    <3>4. view'.rows[w.id] = w.row
      BY <1>2, <1>4, <3>1
    <3> QED BY <1>2, <1>4, <3>1, <3>2, <3>3, <3>4 DEF RFits
  <2>6. RSafe(c, work[t])
    BY <1>1, <1>2, <1>4, <1>6 DEF ROne, RSafe, RSpares, RWhole, Holds
  <2> QED BY <2>1, <2>2, <2>3, <2>4, <2>5, <2>6 DEF ROne
<1> QED BY <1>2, <1>5, <1>6 DEF RStep

\* A vector that does not fit the index is not put in.
LEMMA RRefused ==
    ASSUME NEW c, Rows(c)!ConstantsFit, RTypes(c), NEW t \in c.Tasks, Rows(c)!Insert(t), ~Rows(c)!Fits(t)
    PROVE  \E w \in Work(c) : RStep(c, t, w)
<1>1. /\ work[t].at = "insert" /\ Holds(c, work[t]) /\ Rows(c)!Ends(t)
      /\ db' = db /\ view' = view /\ intx' = intx /\ vec' = vec /\ owed' = owed
  BY DEF Rows!Insert, Rows!At, RTypes
<1>2. RFits(c, work[t]) => ~Faultless(c)
  BY <1>1 DEF RFits, Rows!Fits
<1>3. work[t].op # "edges" /\ work[t].at # "vectors"
  BY <1>1 DEF Holds
<1> QED BY <1>1, <1>2, <1>3, RStops

\* A write ends with row and vector committed.
LEMMA RCommitVector ==
    ASSUME NEW c, Rows(c)!ConstantsFit, RTypes(c), NEW t \in c.Tasks, Rows(c)!CommitVector(t)
    PROVE  \E w \in Work(c) : RStep(c, t, w)
<1>1. /\ work[t].at = "commit vector" /\ work[t] \in Work(c) /\ Holds(c, work[t]) /\ None \notin c.Embedders /\ None \notin Rows(c)!Rows
      /\ None \notin c.Contents
  BY DEF Rows!CommitVector, Rows!At, RTypes, Rows!ConstantsFit
<1>2. PICK w \in Work(c) : work' = [work EXCEPT ![t] = w] /\ w.at = "idle" /\ w.op = "none" /\ Holds(c, w)
  <2>1. work' = [work EXCEPT ![t] = Rows(c)!Idle]
    BY DEF Rows!CommitVector, Rows!Ends
  <2> QED BY <2>1, RIdle
<1>3. Holds(c, w)
  BY <1>2
<1>7. work[t].id \in c.Ids /\ owed \in [c.Ids -> {"no", "written", "acknowledged"}]
  BY <1>1 DEF Holds, RTypes
<1> DEFINE k == work[t].id
<1>8. k \in c.Ids /\ k = work[t].id
  BY <1>7
<1> HIDE DEF k
<1>9. owed' = [owed EXCEPT ![k] = IF @ = "written" THEN "acknowledged" ELSE @]
  BY <1>8 DEF Rows!CommitVector
<1>10. /\ owed' \in [c.Ids -> {"no", "written", "acknowledged"}]
       /\ \A i \in c.Ids : owed'[i] = "acknowledged" => owed[i] = "acknowledged" \/ i = k
  BY <1>7, <1>8, <1>9
<1>4. /\ db' = view /\ view' = view /\ db' \in Database(c) /\ view' \in Database(c) /\ intx' = FALSE /\ vec' = vec
      /\ owed' \in [c.Ids -> {"no", "written", "acknowledged"}]
      /\ \A i \in c.Ids : owed'[i] = "acknowledged" => owed[i] = "acknowledged" \/ i = work[t].id
      /\ work[t].id \in c.Ids
  BY <1>8, <1>10 DEF Rows!CommitVector, Rows!Commits, RTypes
<1>5. RTypes(c)'
  BY <1>1, <1>2, <1>3, <1>4, RTyped DEF RTypes
<1>6. ASSUME ROne(c, work[t]) PROVE ROne(c, w)' /\ RSafe(c, work[t])
  <2>1. RKeeps(c, w)'
    BY <1>1, <1>2, <1>4, <1>6, ZenonT(60) DEF ROne, RKeeps, Holds
  <2>2. RSpares(c, w)'
    BY <1>1, <1>2, <1>4, <1>6 DEF ROne, RSpares, Holds
  <2>3. RWhole(c, w)'
    BY <1>1, <1>2, <1>4, <1>6 DEF ROne, RWhole, Holds
  <2>4. RCovers(c, w)'
    BY <1>1, <1>2, <1>4, <1>6, ZenonT(60) DEF ROne, RCovers, Holds
  <2>5. RFits(c, w)'
    BY <1>1, <1>2, <1>4, <1>6 DEF ROne, RFits, RKeeps, Holds
  <2>6. RSafe(c, work[t])
    BY <1>1, <1>2, <1>4, <1>6 DEF ROne, RSafe, RSpares, RWhole, Holds
  <2> QED BY <2>1, <2>2, <2>3, <2>4, <2>5, <2>6 DEF ROne
<1> QED BY <1>2, <1>5, <1>6 DEF RStep

\* A prune archives rows that are not pinned.
LEMMA RArchive ==
    ASSUME NEW c, Rows(c)!ConstantsFit, RTypes(c), NEW t \in c.Tasks, Rows(c)!Archive(t)
    PROVE  \E w \in Work(c) : RStep(c, t, w)
<1>1. /\ work[t].at = "archive" /\ work[t] \in Work(c) /\ Holds(c, work[t]) /\ None \notin c.Embedders /\ None \notin Rows(c)!Rows
      /\ None \notin c.Contents
  BY DEF Rows!Archive, Rows!At, RTypes, Rows!ConstantsFit
<1>2. PICK w \in Work(c) :
      /\ work' = [work EXCEPT ![t] = w] /\ w.at = "commit" /\ w.op = work[t].op /\ w.id = work[t].id
      /\ w.row = work[t].row /\ w.model = work[t].model /\ w.ids = work[t].ids
  <2> DEFINE x == [work[t] EXCEPT !.at = "commit"]
  <2>1. work' = [work EXCEPT ![t] = x]
    BY DEF RTypes, Rows!Archive, Rows!Goes
  <2>2. /\ x \in Work(c) /\ x.at = "commit" /\ x.op = work[t].op /\ x.id = work[t].id
        /\ x.row = work[t].row /\ x.model = work[t].model /\ x.ids = work[t].ids
    BY <1>1 DEF Work
  <2> HIDE DEF x
  <2> QED BY <2>1, <2>2
<1>3. Holds(c, w)
  BY <1>1, <1>2 DEF Holds
<1>7. view' = Rows(c)!Archived(view, work[t].ids)
  BY DEF Rows!Archive, Rows!Executes
<1>8. /\ view' \in Database(c) /\ view'.vecs = view.vecs /\ view'.index = view.index /\ view'.pins = view.pins /\ view'.edges = view.edges
      /\ \A i \in c.Ids : /\ view'.rows[i] = None <=> view.rows[i] = None
                          /\ view.rows[i] # None => view'.rows[i].text = view.rows[i].text
                          /\ i \notin work[t].ids => view'.rows[i] = view.rows[i]
  BY <1>7, RArchived DEF RTypes
<1>4. /\ db' = db /\ intx' = TRUE /\ vec' = vec /\ owed' = owed
      /\ view' \in Database(c) /\ view'.vecs = view.vecs /\ view'.index = view.index /\ view'.pins = view.pins /\ view'.edges = view.edges
      /\ \A i \in c.Ids : /\ view'.rows[i] = None <=> view.rows[i] = None
                          /\ view.rows[i] # None => view'.rows[i].text = view.rows[i].text
                          /\ i \notin work[t].ids => view'.rows[i] = view.rows[i]
  BY <1>8 DEF Rows!Archive, Rows!Executes
<1>5. RTypes(c)'
  BY <1>1, <1>2, <1>3, <1>4, RTyped DEF RTypes
<1>6. ASSUME ROne(c, work[t]) PROVE ROne(c, w)' /\ RSafe(c, work[t])
  <2>1. RKeeps(c, w)'
    BY <1>1, <1>2, <1>4, <1>6 DEF ROne, RKeeps, Holds
  <2>2. RSpares(c, w)'
    BY <1>1, <1>2, <1>4, <1>6 DEF ROne, RSpares, Holds
  <2>3. RWhole(c, w)'
    BY <1>1, <1>2, <1>4, <1>6 DEF ROne, RWhole, Holds
  <2>4. RCovers(c, w)'
    BY <1>1, <1>2, <1>4, <1>6 DEF ROne, RCovers, Holds
  <2>5. RFits(c, w)'
    BY <1>1, <1>2, <1>4, <1>6 DEF ROne, RFits, RKeeps, Holds
  <2>6. RSafe(c, work[t])
    BY <1>1, <1>2, <1>4, <1>6 DEF ROne, RSafe, RSpares, RWhole, Holds
  <2> QED BY <2>1, <2>2, <2>3, <2>4, <2>5, <2>6 DEF ROne
<1> QED BY <1>2, <1>5, <1>6 DEF RStep

\* A delete, or a prune that purges, takes out rows.
LEMMA RDelete ==
    ASSUME NEW c, Rows(c)!ConstantsFit, RTypes(c), NEW t \in c.Tasks, Rows(c)!Delete(t)
    PROVE  \E w \in Work(c) : RStep(c, t, w)
<1>1. /\ work[t].at = "delete" /\ work[t] \in Work(c) /\ Holds(c, work[t]) /\ None \notin c.Embedders /\ None \notin Rows(c)!Rows
      /\ None \notin c.Contents
  BY DEF Rows!Delete, Rows!At, RTypes, Rows!ConstantsFit
<1> DEFINE place == IF view.index # None /\ (work[t].op = "prune" \/ \E i \in work[t].ids : view.rows[i] # None)
                     THEN "vectors" ELSE "commit"
<1>7. Rows(c)!Goes(t, place)
  BY DEF Rows!Delete
<1>8. /\ place \in {"vectors", "commit"} /\ work[t].ids \subseteq c.Ids
      /\ (place = "commit" => view.index = None \/ \A i \in work[t].ids : view.rows[i] = None)
  BY <1>1 DEF Holds
<1> HIDE DEF place
<1>2. PICK w \in Work(c) :
      /\ work' = [work EXCEPT ![t] = w] /\ w.at = place /\ w.op = work[t].op /\ w.id = work[t].id
      /\ w.row = work[t].row /\ w.model = work[t].model /\ w.ids = work[t].ids
  <2> DEFINE x == [work[t] EXCEPT !.at = place]
  <2>1. work' = [work EXCEPT ![t] = x]
    BY <1>7 DEF RTypes, Rows!Delete, Rows!Goes
  <2>2. /\ x \in Work(c) /\ x.at = place /\ x.op = work[t].op /\ x.id = work[t].id
        /\ x.row = work[t].row /\ x.model = work[t].model /\ x.ids = work[t].ids
    BY <1>1, <1>8 DEF Work
  <2> HIDE DEF x
  <2> QED BY <2>1, <2>2
<1>3. Holds(c, w)
  BY <1>1, <1>2, <1>8 DEF Holds
<1>9. view' = Rows(c)!Removed(view, work[t].ids) /\ owed' = [i \in c.Ids |-> IF i \in work[t].ids THEN "no" ELSE owed[i]]
  BY DEF Rows!Delete, Rows!Executes, Rows!Forgets
<1>10. /\ view' \in Database(c) /\ view'.vecs = view.vecs /\ view'.index = view.index /\ view'.pins = view.pins /\ view'.edges = view.edges
       /\ \A i \in c.Ids : view'.rows[i] = IF i \in work[t].ids THEN None ELSE view.rows[i]
  BY <1>9, RRemoved DEF RTypes
<1>11. /\ owed' \in [c.Ids -> {"no", "written", "acknowledged"}]
       /\ \A i \in c.Ids : owed'[i] = "acknowledged" <=> owed[i] = "acknowledged" /\ i \notin work[t].ids
  BY <1>9 DEF RTypes
<1>4. /\ db' = db /\ intx' = TRUE /\ vec' = vec /\ w.at \in {"vectors", "commit"} /\ work[t].ids \subseteq c.Ids
      /\ (w.at = "commit" => view.index = None \/ \A i \in work[t].ids : view.rows[i] = None)
      /\ view' \in Database(c) /\ view'.vecs = view.vecs /\ view'.index = view.index /\ view'.pins = view.pins /\ view'.edges = view.edges
      /\ \A i \in c.Ids : view'.rows[i] = IF i \in work[t].ids THEN None ELSE view.rows[i]
      /\ owed' \in [c.Ids -> {"no", "written", "acknowledged"}]
      /\ \A i \in c.Ids : owed'[i] = "acknowledged" <=> owed[i] = "acknowledged" /\ i \notin work[t].ids
  BY <1>2, <1>8, <1>10, <1>11 DEF Rows!Delete, Rows!Executes
<1>5. RTypes(c)'
  BY <1>1, <1>2, <1>3, <1>4, RTyped DEF RTypes
<1>6. ASSUME ROne(c, work[t]) PROVE ROne(c, w)' /\ RSafe(c, work[t])
  <2>1. RKeeps(c, w)'
    <3>1. \A i \in c.Ids : owed'[i] = "acknowledged" => db'.rows[i] # None /\ view'.rows[i] # None
      BY <1>4, <1>6 DEF ROne, RKeeps
    <3>2. Len(db'.pins) <= 1 /\ Len(view'.pins) <= 1
      BY <1>4, <1>6 DEF ROne, RKeeps
    <3>3. w.at \in {"vectors", "commit"}
      BY <1>4
    <3> QED BY <3>1, <3>2, <3>3 DEF RKeeps
  <2>2. RSpares(c, w)'
    BY <1>1, <1>2, <1>4, <1>6 DEF ROne, RSpares, Holds
  <2>3. RWhole(c, w)'
    BY <1>1, <1>2, <1>4, <1>6 DEF ROne, RWhole, Holds
  <2>4. RCovers(c, w)'
    BY <1>1, <1>2, <1>4, <1>6 DEF ROne, RCovers, Holds
  <2>5. RFits(c, w)'
    <3> SUFFICES ASSUME Faultless(c) PROVE RFits(c, w)'
      BY DEF RFits
    <3>1. /\ (view.pins = <<>> => view.index = None) /\ (view.pins # <<>> => view.index = view.pins[1]) /\ vec # "loading"
          /\ \A i \in c.Ids : view.rows[i] # None /\ view.vecs[i] # None => view.vecs[i] = view.rows[i].text
          /\ \A i \in c.Ids : owed[i] = "acknowledged" => view.vecs[i] # None
      BY <1>1, <1>6 DEF ROne, RFits
    <3>2. \A i \in c.Ids : view'.rows[i] # None /\ view'.vecs[i] # None => view'.vecs[i] = view'.rows[i].text
      BY <1>4, <3>1
    <3>3. \A i \in c.Ids : owed'[i] = "acknowledged" => view'.vecs[i] # None
      BY <1>4, <3>1
    <3>4. \A i \in w.ids : owed'[i] # "acknowledged"
      BY <1>2, <1>4
    <3>5. w.at \in {"vectors", "commit"}
      BY <1>4
    <3> QED BY <1>4, <3>1, <3>2, <3>3, <3>4, <3>5 DEF RFits
  <2>6. RSafe(c, work[t])
    BY <1>1, <1>2, <1>4, <1>6 DEF ROne, RSafe, RSpares, RWhole, Holds
  <2> QED BY <2>1, <2>2, <2>3, <2>4, <2>5, <2>6 DEF ROne
<1> QED BY <1>2, <1>5, <1>6 DEF RStep

\* Then their vectors.
LEMMA RDeleteVectors ==
    ASSUME NEW c, Rows(c)!ConstantsFit, RTypes(c), NEW t \in c.Tasks, Rows(c)!DeleteVectors(t)
    PROVE  \E w \in Work(c) : RStep(c, t, w)
<1>1. /\ work[t].at = "vectors" /\ work[t] \in Work(c) /\ Holds(c, work[t]) /\ None \notin c.Embedders /\ None \notin Rows(c)!Rows
      /\ None \notin c.Contents
  BY DEF Rows!DeleteVectors, Rows!At, RTypes, Rows!ConstantsFit
<1>2. PICK w \in Work(c) :
      /\ work' = [work EXCEPT ![t] = w] /\ w.at = "commit" /\ w.op = work[t].op /\ w.id = work[t].id
      /\ w.row = work[t].row /\ w.model = work[t].model /\ w.ids = work[t].ids
  <2> DEFINE x == [work[t] EXCEPT !.at = "commit"]
  <2>1. work' = [work EXCEPT ![t] = x]
    BY DEF RTypes, Rows!DeleteVectors, Rows!Goes
  <2>2. /\ x \in Work(c) /\ x.at = "commit" /\ x.op = work[t].op /\ x.id = work[t].id
        /\ x.row = work[t].row /\ x.model = work[t].model /\ x.ids = work[t].ids
    BY <1>1 DEF Work
  <2> HIDE DEF x
  <2> QED BY <2>1, <2>2
<1>3. Holds(c, w)
  BY <1>1, <1>2 DEF Holds
<1>7. view' = Rows(c)!Unindexed(view, work[t].ids)
  BY DEF Rows!DeleteVectors, Rows!Executes, Rows!DeletedVectors
<1>8. /\ view' \in Database(c) /\ view'.rows = view.rows /\ view'.index = view.index /\ view'.pins = view.pins /\ view'.edges = view.edges
      /\ \A i \in c.Ids : view'.vecs[i] = IF i \in work[t].ids THEN None ELSE view.vecs[i]
  BY <1>7, RUnindexed DEF RTypes
<1>4. /\ db' = db /\ intx' = TRUE /\ vec' = vec /\ owed' = owed
      /\ view' \in Database(c) /\ view'.rows = view.rows /\ view'.index = view.index /\ view'.pins = view.pins /\ view'.edges = view.edges
      /\ \A i \in c.Ids : view'.vecs[i] = IF i \in work[t].ids THEN None ELSE view.vecs[i]
  BY <1>8 DEF Rows!DeleteVectors, Rows!Executes
<1>5. RTypes(c)'
  BY <1>1, <1>2, <1>3, <1>4, RTyped DEF RTypes
<1>6. ASSUME ROne(c, work[t]) PROVE ROne(c, w)' /\ RSafe(c, work[t])
  <2>1. RKeeps(c, w)'
    BY <1>1, <1>2, <1>4, <1>6 DEF ROne, RKeeps, Holds
  <2>2. RSpares(c, w)'
    BY <1>1, <1>2, <1>4, <1>6 DEF ROne, RSpares, Holds
  <2>3. RWhole(c, w)'
    BY <1>1, <1>2, <1>4, <1>6 DEF ROne, RWhole, Holds
  <2>4. RCovers(c, w)'
    BY <1>1, <1>2, <1>4, <1>6 DEF ROne, RCovers, Holds
  <2>5. RFits(c, w)'
    BY <1>1, <1>2, <1>4, <1>6 DEF ROne, RFits, RKeeps, Holds
  <2>6. RSafe(c, work[t])
    BY <1>1, <1>2, <1>4, <1>6 DEF ROne, RSafe, RSpares, RWhole, Holds
  <2> QED BY <2>1, <2>2, <2>3, <2>4, <2>5, <2>6 DEF ROne
<1> QED BY <1>2, <1>5, <1>6 DEF RStep

\* Then both are committed.
LEMMA RCommit ==
    ASSUME NEW c, Rows(c)!ConstantsFit, RTypes(c), NEW t \in c.Tasks, Rows(c)!Commit(t)
    PROVE  \E w \in Work(c) : RStep(c, t, w)
<1>1. /\ work[t].at = "commit" /\ work[t] \in Work(c) /\ Holds(c, work[t]) /\ None \notin c.Embedders /\ None \notin Rows(c)!Rows
      /\ None \notin c.Contents
  BY DEF Rows!Commit, Rows!At, RTypes, Rows!ConstantsFit
<1>2. PICK w \in Work(c) : work' = [work EXCEPT ![t] = w] /\ w.at = "idle" /\ w.op = "none" /\ Holds(c, w)
  <2>1. work' = [work EXCEPT ![t] = Rows(c)!Idle]
    BY DEF Rows!Commit, Rows!Ends
  <2> QED BY <2>1, RIdle
<1>3. Holds(c, w)
  BY <1>2
<1>4. /\ db' = view /\ view' = view /\ db' \in Database(c) /\ view' \in Database(c) /\ intx' = FALSE /\ vec' = vec
      /\ owed' = owed
  BY DEF Rows!Commit, Rows!Commits, RTypes
<1>5. RTypes(c)'
  BY <1>1, <1>2, <1>3, <1>4, RTyped DEF RTypes
<1>6. ASSUME ROne(c, work[t]) PROVE ROne(c, w)' /\ RSafe(c, work[t])
  <2>1. RKeeps(c, w)'
    BY <1>1, <1>2, <1>4, <1>6 DEF ROne, RKeeps, Holds
  <2>2. RSpares(c, w)'
    BY <1>1, <1>2, <1>4, <1>6 DEF ROne, RSpares, Holds
  <2>3. RWhole(c, w)'
    BY <1>1, <1>2, <1>4, <1>6 DEF ROne, RWhole, Holds
  <2>4. RCovers(c, w)'
    BY <1>1, <1>2, <1>4, <1>6 DEF ROne, RCovers, Holds
  <2>5. RFits(c, w)'
    BY <1>1, <1>2, <1>4, <1>6 DEF ROne, RFits, RKeeps, Holds
  <2>6. RSafe(c, work[t])
    BY <1>1, <1>2, <1>4, <1>6 DEF ROne, RSafe, RSpares, RWhole, Holds
  <2> QED BY <2>1, <2>2, <2>3, <2>4, <2>5, <2>6 DEF ROne
<1> QED BY <1>2, <1>5, <1>6 DEF RStep

\* A search that refreshes access times changes no text.
LEMMA RTouch ==
    ASSUME NEW c, Rows(c)!ConstantsFit, RTypes(c), NEW t \in c.Tasks, Rows(c)!Touch(t)
    PROVE  \E w \in Work(c) : RStep(c, t, w)
<1>1. /\ work[t].at = "touch" /\ work[t] \in Work(c) /\ Holds(c, work[t]) /\ None \notin c.Embedders /\ None \notin Rows(c)!Rows
      /\ None \notin c.Contents
  BY DEF Rows!Touch, Rows!At, RTypes, Rows!ConstantsFit
<1>2. PICK w \in Work(c) :
      /\ work' = [work EXCEPT ![t] = w] /\ w.at = "commit" /\ w.op = work[t].op /\ w.id = work[t].id
      /\ w.row = work[t].row /\ w.model = work[t].model /\ w.ids = work[t].ids
  <2> DEFINE x == [work[t] EXCEPT !.at = "commit"]
  <2>1. work' = [work EXCEPT ![t] = x]
    BY DEF RTypes, Rows!Touch, Rows!Goes
  <2>2. /\ x \in Work(c) /\ x.at = "commit" /\ x.op = work[t].op /\ x.id = work[t].id
        /\ x.row = work[t].row /\ x.model = work[t].model /\ x.ids = work[t].ids
    BY <1>1 DEF Work
  <2> HIDE DEF x
  <2> QED BY <2>1, <2>2
<1>3. Holds(c, w)
  BY <1>1, <1>2 DEF Holds
<1>4. db' = db /\ view' = view /\ view' \in Database(c) /\ intx' = TRUE /\ vec' = vec /\ owed' = owed
  BY DEF Rows!Touch, Rows!Executes, RTypes
<1>5. RTypes(c)'
  BY <1>1, <1>2, <1>3, <1>4, RTyped DEF RTypes
<1>6. ASSUME ROne(c, work[t]) PROVE ROne(c, w)' /\ RSafe(c, work[t])
  <2>1. RKeeps(c, w)'
    BY <1>1, <1>2, <1>4, <1>6 DEF ROne, RKeeps, Holds
  <2>2. RSpares(c, w)'
    BY <1>1, <1>2, <1>4, <1>6 DEF ROne, RSpares, Holds
  <2>3. RWhole(c, w)'
    BY <1>1, <1>2, <1>4, <1>6 DEF ROne, RWhole, Holds
  <2>4. RCovers(c, w)'
    BY <1>1, <1>2, <1>4, <1>6 DEF ROne, RCovers, Holds
  <2>5. RFits(c, w)'
    BY <1>1, <1>2, <1>4, <1>6 DEF ROne, RFits, RKeeps, Holds
  <2>6. RSafe(c, work[t])
    BY <1>1, <1>2, <1>4, <1>6 DEF ROne, RSafe, RSpares, RWhole, Holds
  <2> QED BY <2>1, <2>2, <2>3, <2>4, <2>5, <2>6 DEF ROne
<1> QED BY <1>2, <1>5, <1>6 DEF RStep

\* The replacement of edges begins a transaction of its own.
LEMMA RBegins ==
    ASSUME NEW c, Rows(c)!ConstantsFit, RTypes(c), NEW t \in c.Tasks, Rows(c)!Begin(t), ~intx
    PROVE  \E w \in Work(c) : RStep(c, t, w)
<1>1. /\ work[t].at = "begin" /\ work[t] \in Work(c) /\ Holds(c, work[t]) /\ None \notin c.Embedders /\ None \notin Rows(c)!Rows
      /\ None \notin c.Contents
  BY DEF Rows!Begin, Rows!At, RTypes, Rows!ConstantsFit
<1>2. PICK w \in Work(c) :
      /\ work' = [work EXCEPT ![t] = w] /\ w.at = "clear" /\ w.op = work[t].op /\ w.id = work[t].id
      /\ w.row = work[t].row /\ w.model = work[t].model /\ w.ids = work[t].ids
  <2> DEFINE x == [work[t] EXCEPT !.at = "clear"]
  <2>1. work' = [work EXCEPT ![t] = x]
    BY DEF RTypes, Rows!Begin, Rows!Goes
  <2>2. /\ x \in Work(c) /\ x.at = "clear" /\ x.op = work[t].op /\ x.id = work[t].id
        /\ x.row = work[t].row /\ x.model = work[t].model /\ x.ids = work[t].ids
    BY <1>1 DEF Work
  <2> HIDE DEF x
  <2> QED BY <2>1, <2>2
<1>3. Holds(c, w)
  BY <1>1, <1>2 DEF Holds
<1>4. db' = db /\ view' = view /\ intx' = TRUE /\ vec' = vec /\ owed' = owed /\ db = view
  BY DEF Rows!Begin, RTypes
<1>5. RTypes(c)'
  BY <1>1, <1>2, <1>3, <1>4, RTyped DEF RTypes
<1>6. ASSUME ROne(c, work[t]) PROVE ROne(c, w)' /\ RSafe(c, work[t])
  <2>1. RKeeps(c, w)'
    BY <1>1, <1>2, <1>4, <1>6 DEF ROne, RKeeps, Holds
  <2>2. RSpares(c, w)'
    BY <1>1, <1>2, <1>4, <1>6 DEF ROne, RSpares, Holds
  <2>3. RWhole(c, w)'
    BY <1>1, <1>2, <1>4, <1>6 DEF ROne, RWhole, Holds
  <2>4. RCovers(c, w)'
    BY <1>1, <1>2, <1>4, <1>6 DEF ROne, RCovers, Holds
  <2>5. RFits(c, w)'
    BY <1>1, <1>2, <1>4, <1>6 DEF ROne, RFits, RKeeps, Holds
  <2>6. RSafe(c, work[t])
    BY <1>1, <1>2, <1>4, <1>6 DEF ROne, RSafe, RSpares, RWhole, Holds
  <2> QED BY <2>1, <2>2, <2>3, <2>4, <2>5, <2>6 DEF ROne
<1> QED BY <1>2, <1>5, <1>6 DEF RStep

\* Or does not, when one is open.
LEMMA RBeginFails ==
    ASSUME NEW c, Rows(c)!ConstantsFit, RTypes(c), NEW t \in c.Tasks, Rows(c)!Begin(t), intx
    PROVE  \E w \in Work(c) : RStep(c, t, w)
<1>1. /\ work[t].at = "begin" /\ Holds(c, work[t]) /\ Rows(c)!Ends(t)
      /\ db' = db /\ view' = db /\ intx' = FALSE /\ vec' = vec /\ owed' = owed
  BY DEF Rows!Begin, Rows!RollsBack, Rows!At, RTypes
<1>2. RFits(c, work[t]) => ~Faultless(c)
  BY <1>1 DEF RFits
<1>3. work[t].op = "edges"
  BY <1>1 DEF Holds
<1> QED BY <1>1, <1>2, <1>3, RStops

\* The old edges of a source are taken out.
LEMMA RClear ==
    ASSUME NEW c, Rows(c)!ConstantsFit, RTypes(c), NEW t \in c.Tasks, Rows(c)!Clear(t)
    PROVE  \E w \in Work(c) : RStep(c, t, w)
<1>1. /\ work[t].at = "clear" /\ work[t] \in Work(c) /\ Holds(c, work[t]) /\ None \notin c.Embedders /\ None \notin Rows(c)!Rows
      /\ None \notin c.Contents
  BY DEF Rows!Clear, Rows!At, RTypes, Rows!ConstantsFit
<1>2. PICK w \in Work(c) :
      /\ work' = [work EXCEPT ![t] = w] /\ w.at = "insert edges" /\ w.op = work[t].op /\ w.id = work[t].id
      /\ w.row = work[t].row /\ w.model = work[t].model /\ w.ids = work[t].ids
  <2> DEFINE x == [work[t] EXCEPT !.at = "insert edges"]
  <2>1. work' = [work EXCEPT ![t] = x]
    BY DEF RTypes, Rows!Clear, Rows!Goes
  <2>2. /\ x \in Work(c) /\ x.at = "insert edges" /\ x.op = work[t].op /\ x.id = work[t].id
        /\ x.row = work[t].row /\ x.model = work[t].model /\ x.ids = work[t].ids
    BY <1>1 DEF Work
  <2> HIDE DEF x
  <2> QED BY <2>1, <2>2
<1>3. Holds(c, w)
  BY <1>1, <1>2 DEF Holds
<1>7. view' = [view EXCEPT !.edges = {}] /\ {} \in SUBSET Rows(c)!Edges
  BY <1>1 DEF Rows!Clear, Rows!Executes, Rows!Cleared, Holds
<1>8. /\ view' \in Database(c) /\ view'.rows = view.rows /\ view'.vecs = view.vecs /\ view'.index = view.index
      /\ view'.pins = view.pins /\ view'.edges = {}
  BY <1>7, RLinked DEF RTypes
<1>4. /\ db' = db /\ intx' = TRUE /\ vec' = vec /\ owed' = owed
      /\ view' \in Database(c) /\ view'.rows = view.rows /\ view'.vecs = view.vecs /\ view'.index = view.index
      /\ view'.pins = view.pins /\ view'.edges = {}
  BY <1>8 DEF Rows!Clear, Rows!Executes, Rows!Cleared
<1>5. RTypes(c)'
  BY <1>1, <1>2, <1>3, <1>4, RTyped DEF RTypes
<1>6. ASSUME ROne(c, work[t]) PROVE ROne(c, w)' /\ RSafe(c, work[t])
  <2>1. RKeeps(c, w)'
    BY <1>1, <1>2, <1>4, <1>6, ZenonT(60) DEF ROne, RKeeps, Holds
  <2>2. RSpares(c, w)'
    BY <1>1, <1>2, <1>4, <1>6 DEF ROne, RSpares, Holds
  <2>3. RWhole(c, w)'
    BY <1>1, <1>2, <1>4, <1>6 DEF ROne, RWhole, Holds
  <2>4. RCovers(c, w)'
    BY <1>1, <1>2, <1>4, <1>6, ZenonT(60) DEF ROne, RCovers, Holds
  <2>5. RFits(c, w)'
    BY <1>1, <1>2, <1>4, <1>6 DEF ROne, RFits, RKeeps, Holds
  <2>6. RSafe(c, work[t])
    BY <1>1, <1>2, <1>4, <1>6 DEF ROne, RSafe, RSpares, RWhole, Holds
  <2> QED BY <2>1, <2>2, <2>3, <2>4, <2>5, <2>6 DEF ROne
<1> QED BY <1>2, <1>5, <1>6 DEF RStep

\* The new ones are put in, and both are committed.
LEMMA RInsertEdges ==
    ASSUME NEW c, Rows(c)!ConstantsFit, RTypes(c), NEW t \in c.Tasks, Rows(c)!InsertEdges(t)
    PROVE  \E w \in Work(c) : RStep(c, t, w)
<1>1. /\ work[t].at = "insert edges" /\ work[t] \in Work(c) /\ Holds(c, work[t]) /\ None \notin c.Embedders /\ None \notin Rows(c)!Rows
      /\ None \notin c.Contents
  BY DEF Rows!InsertEdges, Rows!At, RTypes, Rows!ConstantsFit
<1>2. PICK w \in Work(c) :
      /\ work' = [work EXCEPT ![t] = w] /\ w.at = "commit" /\ w.op = work[t].op /\ w.id = work[t].id
      /\ w.row = work[t].row /\ w.model = work[t].model /\ w.ids = work[t].ids
  <2> DEFINE x == [work[t] EXCEPT !.at = "commit"]
  <2>1. work' = [work EXCEPT ![t] = x]
    BY DEF RTypes, Rows!InsertEdges, Rows!Goes
  <2>2. /\ x \in Work(c) /\ x.at = "commit" /\ x.op = work[t].op /\ x.id = work[t].id
        /\ x.row = work[t].row /\ x.model = work[t].model /\ x.ids = work[t].ids
    BY <1>1 DEF Work
  <2> HIDE DEF x
  <2> QED BY <2>1, <2>2
<1>3. Holds(c, w)
  BY <1>1, <1>2 DEF Holds
<1>7. view' = [view EXCEPT !.edges = work[t].ids] /\ work[t].ids \in SUBSET Rows(c)!Edges
  BY <1>1 DEF Rows!InsertEdges, Rows!Executes, Holds
<1>8. /\ view' \in Database(c) /\ view'.rows = view.rows /\ view'.vecs = view.vecs /\ view'.index = view.index
      /\ view'.pins = view.pins /\ view'.edges = work[t].ids
  BY <1>7, RLinked DEF RTypes
<1>4. /\ db' = db /\ intx' = TRUE /\ vec' = vec /\ owed' = owed
      /\ view' \in Database(c) /\ view'.rows = view.rows /\ view'.vecs = view.vecs /\ view'.index = view.index
      /\ view'.pins = view.pins /\ view'.edges = work[t].ids
  BY <1>8 DEF Rows!InsertEdges, Rows!Executes
<1>5. RTypes(c)'
  BY <1>1, <1>2, <1>3, <1>4, RTyped DEF RTypes
<1>6. ASSUME ROne(c, work[t]) PROVE ROne(c, w)' /\ RSafe(c, work[t])
  <2>1. RKeeps(c, w)'
    BY <1>1, <1>2, <1>4, <1>6, ZenonT(60) DEF ROne, RKeeps, Holds
  <2>2. RSpares(c, w)'
    BY <1>1, <1>2, <1>4, <1>6 DEF ROne, RSpares, Holds
  <2>3. RWhole(c, w)'
    BY <1>1, <1>2, <1>4, <1>6 DEF ROne, RWhole, Holds
  <2>4. RCovers(c, w)'
    BY <1>1, <1>2, <1>4, <1>6, ZenonT(60) DEF ROne, RCovers, Holds
  <2>5. RFits(c, w)'
    BY <1>1, <1>2, <1>4, <1>6 DEF ROne, RFits, RKeeps, Holds
  <2>6. RSafe(c, work[t])
    BY <1>1, <1>2, <1>4, <1>6 DEF ROne, RSafe, RSpares, RWhole, Holds
  <2> QED BY <2>1, <2>2, <2>3, <2>4, <2>5, <2>6 DEF ROne
<1> QED BY <1>2, <1>5, <1>6 DEF RStep

\* A statement fails: what is committed stays, what is not may stay open.
LEMMA RFail ==
    ASSUME NEW c, Rows(c)!ConstantsFit, RTypes(c), NEW t \in c.Tasks, Rows(c)!Fail(t)
    PROVE  \E w \in Work(c) : RStep(c, t, w)
<1>1. ~Whole(c) /\ ~Faultless(c) /\ "error" \in c.Faults
  BY DEF Rows!Fail, Whole, Faultless
<1>2. /\ Rows(c)!Ends(t) /\ db' = db /\ vec' = vec /\ owed' = owed
      /\ (view' = view /\ intx' = intx /\ work[t].op # "edges") \/ (view' = db /\ intx' = FALSE /\ work[t].op = "edges")
  BY DEF Rows!Fail, Rows!RollsBack
<1> QED BY <1>1, <1>2, RStops

\* A task is cut off at a statement.
LEMMA RCancel ==
    ASSUME NEW c, Rows(c)!ConstantsFit, RTypes(c), NEW t \in c.Tasks, Rows(c)!Cancel(t)
    PROVE  \E w \in Work(c) : RStep(c, t, w)
<1>1. ~Whole(c) /\ ~Faultless(c) /\ "cancel" \in c.Faults
  BY DEF Rows!Cancel, Whole, Faultless
<1>2. /\ Rows(c)!Ends(t) /\ db' = db /\ vec' = vec /\ owed' = owed
      /\ view' = view /\ intx' = intx
  BY DEF Rows!Cancel
<1> QED BY <1>1, <1>2, RStops

\* With several operations at once, only the types are kept.
RInv(c) ==
    /\ RTypes(c)
    /\ Rows(c)!OneAtATime => \A t \in c.Tasks : \A w \in Work(c) : work[t] = w => ROne(c, w)

\* The first state.
LEMMA RInit ==
    ASSUME NEW c, Rows(c)!ConstantsFit, Rows(c)!Init
    PROVE  RInv(c)
<1>1. /\ Rows(c)!Idle \in Work(c) /\ Holds(c, Rows(c)!Idle) /\ Rows(c)!Idle.at = "idle" /\ Rows(c)!Idle.op = "none"
      /\ db = Rows(c)!Empty /\ view = Rows(c)!Empty /\ intx = FALSE /\ vec = "untried"
      /\ owed = [i \in c.Ids |-> "no"] /\ work = [t \in c.Tasks |-> Rows(c)!Idle]
  BY RIdle DEF Rows!Init
<1>2. <<>> \in Seq(c.Embedders) /\ Len(<<>>) = 0
  OBVIOUS
<1>3. /\ Rows(c)!Empty \in Database(c) /\ Rows(c)!Empty.pins = <<>> /\ Rows(c)!Empty.index = None
      /\ \A i \in c.Ids : Rows(c)!Empty.vecs[i] = None
  BY <1>2 DEF Rows!Empty, Database
<1>4. RTypes(c)
  BY <1>1, <1>3 DEF RTypes
<1>5. ASSUME NEW w \in Work(c), w.at = "idle", w.op = "none" PROVE ROne(c, w)
  <2>1. RKeeps(c, w)
    BY <1>1, <1>2, <1>3, <1>5 DEF RKeeps
  <2>2. RSpares(c, w) /\ RWhole(c, w)
    BY <1>1, <1>5 DEF RSpares, RWhole
  <2>3. RCovers(c, w) /\ RFits(c, w)
    BY <1>1, <1>3, <1>5 DEF RCovers, RFits
  <2> QED BY <2>1, <2>2, <2>3 DEF ROne
<1> QED BY <1>1, <1>4, <1>5 DEF RInv

\* Every step but the death of the process is one of an operation.
LEMMA RActs ==
    ASSUME NEW c, Rows(c)!ConstantsFit, RTypes(c), Rows(c)!Next, ~Rows(c)!Crash
    PROVE  \E t \in c.Tasks : \E w \in Work(c) : RStep(c, t, w)
<1>1. ASSUME NEW t \in c.Tasks,
             \/ Rows(c)!Connect(t) \/ Rows(c)!Load(t) \/ Rows(c)!StartWrite(t) \/ Rows(c)!StartDelete(t)
             \/ Rows(c)!StartPrune(t) \/ Rows(c)!Search(t) \/ Rows(c)!StartReplace(t)
      PROVE  \E w \in Work(c) : RStep(c, t, w)
  BY <1>1, RStarts
<1>2. ASSUME NEW t \in c.Tasks, Rows(c)!Resolve(t) \/ Rows(c)!CreateIndex(t) \/ Rows(c)!Pin(t) \/ Rows(c)!Upsert(t)
      PROVE  \E w \in Work(c) : RStep(c, t, w)
  BY <1>2, RResolves, RCreateIndex, RPin, RUpsert
<1>3. ASSUME NEW t \in c.Tasks, Rows(c)!CommitRow(t) \/ Rows(c)!Unindex(t) \/ Rows(c)!Insert(t) \/ Rows(c)!CommitVector(t)
      PROVE  \E w \in Work(c) : RStep(c, t, w)
  BY <1>3, RCommitRowLast, RCommitRowThen, RUnindex, RInserts, RRefused, RCommitVector
<1>4. ASSUME NEW t \in c.Tasks,
             \/ Rows(c)!Archive(t) \/ Rows(c)!Delete(t) \/ Rows(c)!DeleteVectors(t) \/ Rows(c)!Commit(t) \/ Rows(c)!Touch(t)
      PROVE  \E w \in Work(c) : RStep(c, t, w)
  BY <1>4, RArchive, RDelete, RDeleteVectors, RCommit, RTouch
<1>5. ASSUME NEW t \in c.Tasks,
             Rows(c)!Begin(t) \/ Rows(c)!Clear(t) \/ Rows(c)!InsertEdges(t) \/ Rows(c)!Fail(t) \/ Rows(c)!Cancel(t)
      PROVE  \E w \in Work(c) : RStep(c, t, w)
  BY <1>5, RBegins, RBeginFails, RClear, RInsertEdges, RFail, RCancel
<1> QED BY <1>1, <1>2, <1>3, <1>4, <1>5 DEF Rows!Next

\* The process dies: what is not committed is gone, and so is every operation.
LEMMA RCrash ==
    ASSUME NEW c, Rows(c)!ConstantsFit, RInv(c), Rows(c)!Crash
    PROVE  RInv(c)' /\ Rows(c)!StepSpoilsNothing
<1>1. /\ Rows(c)!Idle \in Work(c) /\ Holds(c, Rows(c)!Idle) /\ Rows(c)!Idle.at = "idle" /\ Rows(c)!Idle.op = "none"
      /\ db' = db /\ view' = db /\ intx' = FALSE /\ vec' = "untried" /\ owed' = owed
      /\ work' = [t \in c.Tasks |-> Rows(c)!Idle] /\ ~Faultless(c) /\ RTypes(c)
  BY RIdle DEF Rows!Crash, Rows!RollsBack, Faultless, RInv
<1>2. \A u \in c.Tasks : Holds(c, work'[u])
  BY <1>1
<1>3. \A u \in c.Tasks : Holds(c, work[u])'
  BY <1>2 DEF Holds
<1>4. RTypes(c)'
  BY <1>1, <1>3 DEF RTypes, Database, Work
<1>5. ASSUME Rows(c)!OneAtATime, NEW t \in c.Tasks, NEW w \in Work(c), w.at = "idle", w.op = "none" PROVE ROne(c, w)'
  <2>1. work[t] \in Work(c)
    BY <1>1 DEF RTypes
  <2>2. PICK o \in Work(c) : ROne(c, o)
    BY <1>5, <2>1 DEF RInv
  <2>3. RKeeps(c, w)'
    BY <1>1, <1>5, <2>2 DEF ROne, RKeeps
  <2>4. RSpares(c, w)' /\ RWhole(c, w)'
    BY <1>1, <1>5 DEF RSpares, RWhole
  <2>5. RCovers(c, w)'
    BY <1>1, <2>2 DEF ROne, RCovers
  <2>6. RFits(c, w)'
    BY <1>1 DEF RFits
  <2> QED BY <2>3, <2>4, <2>5, <2>6 DEF ROne
<1>6. ASSUME Rows(c)!OneAtATime, NEW t \in c.Tasks, NEW w \in Work(c), work'[t] = w PROVE ROne(c, w)'
  BY <1>1, <1>5, <1>6
<1>7. Rows(c)!OneAtATime' <=> Rows(c)!OneAtATime
  BY DEF Rows!OneAtATime
<1>8. Rows(c)!StepSpoilsNothing
  BY <1>1 DEF Rows!StepSpoilsNothing, Rows!PinnedStays, Rows!EdgesWhole
<1> QED BY <1>4, <1>6, <1>7, <1>8 DEF RInv

\* The invariant is inductive, and no step spoils what one may not.
LEMMA RNext ==
    ASSUME NEW c, Rows(c)!ConstantsFit, RInv(c), Rows(c)!Next
    PROVE  RInv(c)' /\ Rows(c)!StepSpoilsNothing
<1>1. CASE Rows(c)!Crash
  BY <1>1, RCrash
<1>2. CASE ~Rows(c)!Crash
  <2>1. RTypes(c)
    BY DEF RInv
  <2>2. PICK t \in c.Tasks : \E w \in Work(c) : RStep(c, t, w)
    BY <1>2, <2>1, RActs
  <2>3. PICK w \in Work(c) : RStep(c, t, w)
    BY <2>2
  <2>4. /\ work' = [work EXCEPT ![t] = w] /\ RTypes(c)' /\ (ROne(c, work[t]) => ROne(c, w)' /\ RSafe(c, work[t]))
        /\ work \in [c.Tasks -> Work(c)] /\ work[t] \in Work(c)
    BY <2>1, <2>3 DEF RStep, RTypes
  <2>5. Rows(c)!OneAtATime => (\A u \in c.Tasks : u = t) /\ ROne(c, work[t])
    BY <2>4 DEF Rows!OneAtATime, RInv
  <2>6. Rows(c)!OneAtATime => \A u \in c.Tasks : \A x \in Work(c) : work'[u] = x => ROne(c, x)'
    BY <2>4, <2>5
  <2>7. Rows(c)!OneAtATime' <=> Rows(c)!OneAtATime
    BY DEF Rows!OneAtATime
  <2>8. Rows(c)!StepSpoilsNothing
    BY <2>4, <2>5 DEF Rows!StepSpoilsNothing, Rows!PinnedStays, Rows!EdgesWhole, RSafe
  <2> QED BY <2>4, <2>6, <2>7, <2>8 DEF RInv
<1> QED BY <1>1, <1>2

\* So it is where nothing happens.
LEMMA RStutter ==
    ASSUME NEW c, RInv(c), UNCHANGED <<v1, v2, v3, v4, v5, v6>>
    PROVE  RInv(c)' /\ Rows(c)!StepSpoilsNothing
<1>1. db' = db /\ view' = view /\ intx' = intx /\ vec' = vec /\ owed' = owed /\ work' = work
  OBVIOUS
<1>2. RTypes(c)'
  <2>1. \A t \in c.Tasks : Holds(c, work[t])'
    BY <1>1 DEF RInv, RTypes, Holds
  <2>2. /\ db' \in Database(c) /\ view' \in Database(c) /\ intx' \in BOOLEAN /\ (~intx' => db' = view')
        /\ vec' \in {"untried", "loading", "ok"} /\ owed' \in [c.Ids -> {"no", "written", "acknowledged"}]
        /\ work' \in [c.Tasks -> Work(c)]
    BY <1>1 DEF RInv, RTypes
  <2> QED BY <2>1, <2>2 DEF RTypes, Database, Work
<1>3. ASSUME NEW w \in Work(c), ROne(c, w) PROVE ROne(c, w)'
  <2>1. RKeeps(c, w)' /\ RSpares(c, w)' /\ RWhole(c, w)'
    BY <1>1, <1>3 DEF ROne, RKeeps, RSpares, RWhole
  <2>2. RCovers(c, w)'
    BY <1>1, <1>3 DEF ROne, RCovers
  <2>3. RFits(c, w)'
    <3> SUFFICES ASSUME Faultless(c) PROVE RFits(c, w)'
      BY DEF RFits
    <3>1. RFits(c, w)
      BY <1>3 DEF ROne
    <3>2. /\ \A i \in c.Ids : view'.rows[i] # None /\ view'.vecs[i] # None =>
               view'.vecs[i] = view'.rows[i].text \/ (w.at \in {"commit row", "unindex"} /\ i = w.id)
          /\ \A i \in c.Ids : owed'[i] = "acknowledged" => view'.vecs[i] # None \/ (w.at = "insert" /\ i = w.id)
          /\ w.at = "vectors" => \A i \in w.ids : owed'[i] # "acknowledged"
      BY <1>1, <3>1 DEF RFits
    <3>6. w.at \in {"idle", "load", "pins", "index", "archive", "delete", "touch", "begin"} => ~intx'
      <4>1. w.at \in {"idle", "load", "pins", "index", "archive", "delete", "touch", "begin"} => ~intx
        BY <3>1 DEF RFits
      <4>2. ~intx => ~intx'
        <5>1. intx' = intx /\ intx \in BOOLEAN
          BY <1>1 DEF RInv, RTypes
        <5> QED BY <5>1
      <4> QED BY <4>1, <4>2
    <3>3. /\ (vec' = "loading" => w.at = "load") /\ (w.at = "pins" => vec' = "ok")
          /\ w.at \in {"write", "commit row"} => w.model \in c.Embedders
      BY <1>1, <3>1 DEF RFits
    <3>4. /\ w.at # "pin" => (view'.pins = <<>> => view'.index = None) /\ (view'.pins # <<>> => view'.index = view'.pins[1])
          /\ w.at = "pin" => view'.index = w.model
          /\ w.at \in {"write", "commit row", "unindex", "insert", "commit vector"} => view'.pins # <<>> /\ w.model = view'.pins[1]
      BY <1>1, <3>1 DEF RFits
    <3>5. /\ w.at \in {"commit row", "unindex", "insert", "commit vector"} => view'.rows[w.id] = w.row
          /\ w.at = "insert" => view'.vecs[w.id] = None
          /\ w.at = "commit vector" => view'.vecs[w.id] # None
      BY <1>1, <3>1 DEF RFits
    <3> QED BY <3>2, <3>3, <3>4, <3>5, <3>6 DEF RFits
  <2> QED BY <2>1, <2>2, <2>3 DEF ROne
<1>4. Rows(c)!OneAtATime' <=> Rows(c)!OneAtATime
  BY DEF Rows!OneAtATime
<1>5. Rows(c)!StepSpoilsNothing
  BY <1>1 DEF Rows!StepSpoilsNothing, Rows!PinnedStays, Rows!EdgesWhole
<1> QED BY <1>1, <1>2, <1>3, <1>4, <1>5 DEF RInv

\* The invariant implies what the database promises.
LEMMA RHolds ==
    ASSUME NEW c, Rows(c)!ConstantsFit, RInv(c)
    PROVE  Rows(c)!RowsAndVectors
<1>1. Rows(c)!TypeOK
  <2>1. \A v \in Database(c) : /\ v.rows \in [c.Ids -> Rows(c)!Rows \cup {None}] /\ v.vecs \in [c.Ids -> c.Contents \cup {None}]
                               /\ v.index \in c.Embedders \cup {None} /\ v.pins \in Seq(c.Embedders) /\ v.edges \subseteq Rows(c)!Edges
    BY DEF Database
  <2> QED BY <2>1 DEF RInv, RTypes, Rows!TypeOK
<1>2. Rows(c)!OneAtATime => \E t \in c.Tasks : ROne(c, work[t])
  BY DEF RInv, RTypes, Rows!ConstantsFit
<1>3. Rows(c)!OneAtATime => Rows(c)!WrittenStays /\ Rows(c)!OnePin
  BY <1>2 DEF ROne, RKeeps, Rows!WrittenStays, Rows!OnePin
<1>4. Rows(c)!OneAtATime /\ c.Faults \subseteq {"crash", "down"} => Rows(c)!VectorsHaveRows
  BY <1>2 DEF ROne, RCovers, Whole, Rows!VectorsHaveRows
<1>5. ASSUME Rows(c)!OneAtATime, c.Faults = {}, Rows(c)!Quiet PROVE Rows(c)!VectorsMatchRows /\ Rows(c)!RowsHaveVectors
  <2>1. PICK t \in c.Tasks : ROne(c, work[t])
    BY <1>2, <1>5
  <2>2. work[t].at = "idle"
    BY <1>5 DEF Rows!Quiet, Rows!At
  <2>3. /\ ~intx
        /\ \A i \in c.Ids : view.rows[i] # None /\ view.vecs[i] # None => view.vecs[i] = view.rows[i].text
        /\ \A i \in c.Ids : owed[i] = "acknowledged" => view.vecs[i] # None
    BY <1>5, <2>1, <2>2 DEF ROne, RFits, Faultless
  <2>4. db = view
    BY <2>3 DEF RInv, RTypes
  <2> QED BY <2>3, <2>4 DEF Rows!VectorsMatchRows, Rows!RowsHaveVectors
<1>6. ~Rows(c)!Quiet => Rows(c)!VectorsMatchRows /\ Rows(c)!RowsHaveVectors
  BY DEF Rows!VectorsMatchRows, Rows!RowsHaveVectors
<1> QED BY <1>1, <1>3, <1>4, <1>5, <1>6 DEF Rows!RowsAndVectors

----------------------------------------
(* VectorSearch.  The candidates have the scores of their leg and the rows *)
(* fetched pass (SLegs); that a fused score respects the legs is arithmetic *)
(* over the spans of any integer scores. *)

mode == v1
embedder == v2
row == v3
pc == v4
near == v5
word == v6
rows == v7
found == v8
USE DEF mode, embedder, row, pc, near, word, rows, found

\* The candidates of a leg and their scores.
Leg(c, leg, scores) == DOMAIN leg \subseteq 1..c.Count /\ \A i \in DOMAIN leg : leg[i] \in scores

STypes(c) ==
    /\ mode \in c.Modes /\ embedder \in BOOLEAN
    /\ row \in [1..c.Count -> Search(c)!Kinds \cup {None}]
    /\ pc \in {"start", "words", "fetch", "rank", "done"}
    /\ \E n \in 0..c.Limit : found \in [1..n -> 1..c.Count]

SLegs(c) ==
    /\ Leg(c, near, c.Distances) /\ Leg(c, word, c.WordScores)
    /\ mode # "hybrid" => DOMAIN word = {}
    /\ pc \in {"words", "fetch", "rank"} => Search(c)!ByVector
    /\ rows \subseteq DOMAIN near \cup DOMAIN word /\ rows \subseteq Search(c)!Passing
    /\ pc \in {"start", "words", "fetch"} => rows = {}
    /\ pc = "words" => mode = "hybrid"

SInv(c) ==
    /\ STypes(c) /\ SLegs(c)
    /\ pc # "done" => DOMAIN found = {}
    /\ Search(c)!EachOnce /\ Search(c)!OnlyPassing /\ Search(c)!NoWorseFirst

\* What the sort and the cut leave of a set.
LEMMA SResults ==
    ASSUME NEW c, Search(c)!ConstantsFit, NEW s \in SUBSET (1..c.Count), NEW score, NEW q \in Search(c)!Results(s, score)
    PROVE  /\ \E n \in 0..c.Limit : q \in [1..n -> s]
           /\ \A a, b \in DOMAIN q : (q[a] = q[b] => a = b) /\ (a < b => score[q[a]] <= score[q[b]])
<1>1. PICK o \in Search(c)!Ordered(s, score) : q = [a \in 1..Search(c)!Cut(Len(o)) |-> o[a]]
  BY DEF Search!Results
<1>2. PICK n \in 0..c.Count : o \in [1..n -> s]
  BY <1>1 DEF Search!Ordered
<1>3. \A a, b \in 1..n : a < b => o[a] # o[b] /\ score[o[a]] <= score[o[b]]
  BY <1>1, <1>2 DEF Search!Ordered
<1>4. n \in Nat /\ c.Limit \in Nat
  BY <1>2 DEF Search!ConstantsFit
<1>5. Len(o) = n
  BY <1>2, <1>4
<1> DEFINE m == Search(c)!Cut(n)
<1>6. m \in 0..c.Limit /\ m <= n
  BY <1>4 DEF Search!Cut
<1>7. q = [a \in 1..m |-> o[a]]
  BY <1>1, <1>5
<1> HIDE DEF m
<1>8. q \in [1..m -> s] /\ \A a \in 1..m : a \in 1..n /\ q[a] = o[a]
  BY <1>2, <1>4, <1>6, <1>7
<1>9. \A a, b \in 1..m : (q[a] = q[b] => a = b) /\ (a < b => score[q[a]] <= score[q[b]])
  <2> SUFFICES ASSUME NEW a \in 1..m, NEW b \in 1..m PROVE (q[a] = q[b] => a = b) /\ (a < b => score[q[a]] <= score[q[b]])
    OBVIOUS
  <2>1. a < b \/ b < a \/ a = b
    BY <1>6
  <2> QED BY <1>3, <1>8, <2>1
<1> QED BY <1>6, <1>8, <1>9

\* A leg's part in the fused score: the better its score of a row, the more.
LEMMA SNorm ==
    ASSUME NEW c, Search(c)!ConstantsFit, NEW scores \in {c.Distances, c.WordScores}, NEW leg, Leg(c, leg, scores)
    PROVE  /\ Search(c)!Span(leg) \in Nat \ {0}
           /\ \A i \in rows : Search(c)!Norm(leg, i) \in Nat
           /\ \A i, j \in rows :
                /\ (j \in DOMAIN leg => i \in DOMAIN leg /\ leg[i] <= leg[j]) => Search(c)!Norm(leg, j) <= Search(c)!Norm(leg, i)
                /\ {i, j} \subseteq DOMAIN leg /\ leg[i] < leg[j] => Search(c)!Norm(leg, j) < Search(c)!Norm(leg, i)
<1> DEFINE s == Search(c)!Scores(leg)
           most == Search(c)!Most(s)
           least == Search(c)!Least(s)
<1>1. s \subseteq scores /\ s \subseteq Int
  BY DEF Leg, Search!Scores, Search!ConstantsFit
<1>2. ASSUME s # {} PROVE most \in s /\ least \in s /\ \A x \in s : x <= most /\ least <= x
  <2>1. (\E x \in s : \A y \in s : y <= x) /\ (\E x \in s : \A y \in s : x <= y)
    BY <1>1, <1>2 DEF Search!ConstantsFit
  <2> HIDE DEF s
  <2> QED BY <2>1 DEF Search!Most, Search!Least
<1>3. \A i \in rows : i \in DOMAIN leg => leg[i] \in s
  BY DEF Search!Scores
<1>4. Search(c)!Tied(leg) <=> \A x, y \in s : x = y
  BY DEF Search!Tied
<1>5. Search(c)!Span(leg) = IF Search(c)!Tied(leg) THEN 1 ELSE most - least
  BY DEF Search!Span
<1>6. \A i : Search(c)!Norm(leg, i) = IF i \notin DOMAIN leg THEN 0 ELSE IF Search(c)!Tied(leg) THEN 1 ELSE most - leg[i]
  BY DEF Search!Norm
<1> HIDE DEF s, most, least
<1>7. Search(c)!Span(leg) \in Nat \ {0}
  <2>1. CASE Search(c)!Tied(leg)
    BY <1>5, <2>1
  <2>2. CASE ~Search(c)!Tied(leg)
    <3>1. PICK x \in s, y \in s : x # y
      BY <1>4, <2>2
    <3>2. /\ most \in Int /\ least \in Int /\ x \in Int /\ y \in Int
          /\ x <= most /\ y <= most /\ least <= x /\ least <= y
      BY <1>1, <1>2, <3>1
    <3> QED BY <1>5, <2>2, <3>1, <3>2
  <2> QED BY <2>1, <2>2
<1>8. ASSUME NEW i \in rows, i \in DOMAIN leg PROVE leg[i] \in Int /\ most \in Int /\ leg[i] <= most
  BY <1>1, <1>2, <1>3, <1>8
<1>9. \A i \in rows : Search(c)!Norm(leg, i) \in Nat
  BY <1>6, <1>8
<1>10. ASSUME NEW i \in rows, NEW j \in rows, j \in DOMAIN leg => i \in DOMAIN leg /\ leg[i] <= leg[j]
       PROVE  Search(c)!Norm(leg, j) <= Search(c)!Norm(leg, i)
  BY <1>6, <1>8, <1>9, <1>10
<1>11. ASSUME NEW i \in rows, NEW j \in rows, {i, j} \subseteq DOMAIN leg, leg[i] < leg[j]
       PROVE  Search(c)!Norm(leg, j) < Search(c)!Norm(leg, i)
  <2>1. ~Search(c)!Tied(leg)
    BY <1>3, <1>4, <1>8, <1>11
  <2> QED BY <1>6, <1>8, <1>11, <2>1
<1> QED BY <1>7, <1>9, <1>10, <1>11

\* A sum of weighted parts grows with each of them.
LEMMA Weighted ==
    ASSUME NEW x1 \in Nat, NEW x2 \in Nat, NEW y1 \in Nat, NEW y2 \in Nat, NEW s \in Nat \ {0}, NEW t \in Nat \ {0},
           x2 <= x1, y2 <= y1, x2 < x1 \/ y2 < y1
    PROVE  7 * x1 * s + 3 * y1 * t \in Int /\ 7 * x2 * s + 3 * y2 * t \in Int
           /\ 7 * x2 * s + 3 * y2 * t < 7 * x1 * s + 3 * y1 * t
<1>1. PICK d \in Nat, e \in Nat : x1 = x2 + d /\ y1 = y2 + e /\ (d > 0 \/ e > 0)
  <2>1. x1 - x2 \in Nat /\ y1 - y2 \in Nat /\ x1 = x2 + (x1 - x2) /\ y1 = y2 + (y1 - y2) /\ (x1 - x2 > 0 \/ y1 - y2 > 0)
    OBVIOUS
  <2> QED BY <2>1
<1>2. d * s \in Nat /\ e * t \in Nat /\ x2 * s \in Nat /\ y2 * t \in Nat /\ (d > 0 => d * s > 0) /\ (e > 0 => e * t > 0)
  OBVIOUS
<1>3. (x2 + d) * s = x2 * s + d * s /\ (y2 + e) * t = y2 * t + e * t
  OBVIOUS
<1>4. 7 * x1 * s = 7 * (x1 * s) /\ 7 * x2 * s = 7 * (x2 * s) /\ 3 * y1 * t = 3 * (y1 * t) /\ 3 * y2 * t = 3 * (y2 * t)
  OBVIOUS
<1> QED BY <1>1, <1>2, <1>3, <1>4

\* A row that beats another is ranked before it.
LEMMA SAhead ==
    ASSUME NEW c, Search(c)!ConstantsFit, SLegs(c), NEW i \in rows, NEW j \in rows,
           j \in DOMAIN near => i \in DOMAIN near /\ near[i] <= near[j],
           j \in DOMAIN word => i \in DOMAIN word /\ word[i] <= word[j],
           \/ {i, j} \subseteq DOMAIN near /\ near[i] < near[j]
           \/ {i, j} \subseteq DOMAIN word /\ word[i] < word[j]
    PROVE  ~(Search(c)!Ranking[j] <= Search(c)!Ranking[i])
<1>1. CASE mode # "hybrid"
  <2>1. DOMAIN word = {} /\ Search(c)!Ranking = near
    BY <1>1 DEF SLegs, Search!Ranking
  <2>2. i \in DOMAIN near /\ j \in DOMAIN near /\ near[i] < near[j]
    BY <2>1
  <2>3. near[i] \in Int /\ near[j] \in Int
    BY <2>2 DEF SLegs, Leg, Search!ConstantsFit
  <2> QED BY <2>1, <2>2, <2>3
<1>2. CASE mode = "hybrid"
  <2>1. Leg(c, near, c.Distances) /\ Leg(c, word, c.WordScores)
    BY DEF SLegs
  <2>2. /\ Search(c)!Span(near) \in Nat \ {0}
        /\ Search(c)!Norm(near, i) \in Nat /\ Search(c)!Norm(near, j) \in Nat
        /\ Search(c)!Norm(near, j) <= Search(c)!Norm(near, i)
        /\ {i, j} \subseteq DOMAIN near /\ near[i] < near[j] => Search(c)!Norm(near, j) < Search(c)!Norm(near, i)
    BY <2>1, SNorm
  <2>3. /\ Search(c)!Span(word) \in Nat \ {0}
        /\ Search(c)!Norm(word, i) \in Nat /\ Search(c)!Norm(word, j) \in Nat
        /\ Search(c)!Norm(word, j) <= Search(c)!Norm(word, i)
        /\ {i, j} \subseteq DOMAIN word /\ word[i] < word[j] => Search(c)!Norm(word, j) < Search(c)!Norm(word, i)
    BY <2>1, SNorm
  <2>4. /\ Search(c)!Fused(j) \in Int /\ Search(c)!Fused(i) \in Int
        /\ Search(c)!Fused(j) < Search(c)!Fused(i)
    BY <2>2, <2>3, Weighted DEF Search!Fused
  <2>5. Search(c)!Ranking[i] = 0 - Search(c)!Fused(i) /\ Search(c)!Ranking[j] = 0 - Search(c)!Fused(j)
    BY <1>2 DEF Search!Ranking
  <2> QED BY <2>4, <2>5
<1> QED BY <1>1, <1>2

\* The first state.
LEMMA SInit == ASSUME NEW c, Search(c)!ConstantsFit, Search(c)!Init PROVE SInv(c)
<1>1. /\ mode \in c.Modes /\ embedder \in BOOLEAN /\ row \in [1..c.Count -> Search(c)!Kinds]
      /\ pc = "start" /\ near = <<>> /\ word = <<>> /\ rows = {} /\ found = <<>>
  BY DEF Search!Init, Search!Ids, Search!ConstantsFit
<1>2. DOMAIN near = {} /\ DOMAIN word = {} /\ DOMAIN found = {} /\ 0 \in 0..c.Limit /\ found \in [1..0 -> 1..c.Count]
  BY <1>1 DEF Search!ConstantsFit
<1>3. STypes(c)
  BY <1>1, <1>2 DEF STypes
<1>4. SLegs(c)
  BY <1>1, <1>2 DEF SLegs, Leg
<1>5. Search(c)!EachOnce /\ Search(c)!OnlyPassing /\ Search(c)!NoWorseFirst
  BY <1>1, <1>2 DEF Search!EachOnce, Search!OnlyPassing, Search!Found, Search!NoWorseFirst
<1> QED BY <1>2, <1>3, <1>4, <1>5 DEF SInv

\* A leg of the search has found its candidates.
LEMMA SLegStep ==
    ASSUME NEW c, Search(c)!ConstantsFit, SInv(c), Search(c)!Knn \/ Search(c)!Words PROVE SInv(c)'
<1>1. /\ UNCHANGED <<mode, embedder, row, rows, found>> /\ pc # "done" /\ pc' \in {"words", "fetch"}
      /\ pc' = "words" => mode = "hybrid"
      /\ Search(c)!ByVector
  BY DEF Search!Knn, Search!Words, Search!query, SInv, SLegs
<1>2. rows = {} /\ DOMAIN found = {}
  BY DEF SInv, SLegs, Search!Knn, Search!Words
<1>3. \A i \in Search(c)!Live : i \in 1..c.Count /\ row[i] \in Search(c)!Kinds
  BY DEF SInv, STypes, Search!Live, Search!Ids
<1>4. Leg(c, near, c.Distances)' /\ Leg(c, word, c.WordScores)' /\ (mode' # "hybrid" => DOMAIN word' = {})
  <2>1. CASE Search(c)!Knn
    <3>1. PICK t \in Search(c)!Best(Search(c)!Indexed, Search(c)!Distance, c.K) : near' = [i \in t |-> row[i].distance]
      BY <2>1 DEF Search!Knn
    <3>2. t \subseteq Search(c)!Indexed
      BY DEF Search!Best
    <3>3. \A i \in t : i \in 1..c.Count /\ row[i].distance \in c.Distances
      BY <1>3, <3>2 DEF Search!Indexed, Search!Kinds
    <3>4. word' = word
      BY <2>1 DEF Search!Knn
    <3> QED BY <1>1, <3>1, <3>3, <3>4 DEF SInv, SLegs, Leg
  <2>2. CASE Search(c)!Words
    <3>1. PICK t \in Search(c)!Best(Search(c)!Matching, Search(c)!Bm25, c.K) : word' = [i \in t |-> row[i].bm25]
      BY <2>2 DEF Search!Words
    <3>2. t \subseteq Search(c)!Matching
      BY DEF Search!Best
    <3>3. \A i \in t : i \in 1..c.Count /\ row[i].bm25 \in c.WordScores
      BY <1>3, <3>2 DEF Search!Matching, Search!Passing, Search!Kinds
    <3>4. near' = near /\ mode = "hybrid"
      BY <2>2 DEF Search!Words, SInv, SLegs
    <3> QED BY <1>1, <3>1, <3>3, <3>4 DEF SInv, SLegs, Leg
  <2> QED BY <2>1, <2>2
<1>5. STypes(c)'
  BY <1>1 DEF SInv, STypes
<1>6. SLegs(c)'
  BY <1>1, <1>2, <1>4 DEF SLegs, Search!ByVector
<1>7. Search(c)!EachOnce' /\ Search(c)!OnlyPassing' /\ Search(c)!NoWorseFirst'
  BY <1>1, <1>2 DEF Search!EachOnce, Search!OnlyPassing, Search!Found, Search!NoWorseFirst
<1> QED BY <1>1, <1>2, <1>5, <1>6, <1>7 DEF SInv

\* The rows fetched pass the filters, whatever changed since the legs.
LEMMA SFetchStep ==
    ASSUME NEW c, Search(c)!ConstantsFit, SInv(c), Search(c)!Fetch PROVE SInv(c)'
<1>1. /\ UNCHANGED <<mode, embedder, row, near, word, found>> /\ pc = "fetch" /\ pc' = "rank"
      /\ rows' = (DOMAIN near \cup DOMAIN word) \cap Search(c)!Passing
  BY DEF Search!Fetch, Search!Fetched, Search!query
<1>2. Search(c)!Passing' = Search(c)!Passing
  BY <1>1 DEF Search!Passing, Search!Live
<1>3. DOMAIN found = {} /\ Search(c)!ByVector
  BY <1>1 DEF SInv, SLegs
<1>4. STypes(c)'
  BY <1>1 DEF SInv, STypes
<1>5. SLegs(c)'
  BY <1>1, <1>2, <1>3 DEF SInv, SLegs, Leg, Search!ByVector
<1>6. Search(c)!EachOnce' /\ Search(c)!OnlyPassing' /\ Search(c)!NoWorseFirst'
  BY <1>1, <1>3 DEF Search!EachOnce, Search!OnlyPassing, Search!Found, Search!NoWorseFirst
<1> QED BY <1>1, <1>3, <1>4, <1>5, <1>6 DEF SInv

\* The search returns.
LEMMA SReturnStep ==
    ASSUME NEW c, Search(c)!ConstantsFit, SInv(c), Search(c)!Keyword \/ Search(c)!Rank PROVE SInv(c)'
<1>1. UNCHANGED <<mode, embedder, row, near, word, rows>> /\ pc' = "done"
  BY DEF Search!Keyword, Search!Rank, Search!query
<1>2. PICK s \in SUBSET (1..c.Count) : \E score :
        /\ found' \in Search(c)!Results(s, score) /\ s \subseteq Search(c)!Passing
        /\ Search(c)!ByVector => s = rows /\ score = Search(c)!Ranking
  <2>1. Search(c)!Passing \subseteq 1..c.Count
    BY DEF Search!Passing, Search!Live, Search!Ids
  <2>2. CASE Search(c)!Keyword
    <3>1. Search(c)!Matching \subseteq Search(c)!Passing
      BY DEF Search!Matching
    <3> QED BY <2>1, <2>2, <3>1 DEF Search!Keyword
  <2>3. CASE Search(c)!Rank
    <3>1. rows \subseteq Search(c)!Passing
      BY DEF SInv, SLegs
    <3> QED BY <2>1, <2>3, <3>1 DEF Search!Rank
  <2> QED BY <2>2, <2>3
<1> PICK score :
        /\ found' \in Search(c)!Results(s, score) /\ s \subseteq Search(c)!Passing
        /\ Search(c)!ByVector => s = rows /\ score = Search(c)!Ranking
  BY <1>2
<1>3. /\ \E n \in 0..c.Limit : found' \in [1..n -> s]
      /\ \A a, b \in DOMAIN found' : (found'[a] = found'[b] => a = b) /\ (a < b => score[found'[a]] <= score[found'[b]])
  BY <1>2, SResults
<1>4. PICK n \in 0..c.Limit : found' \in [1..n -> s]
  BY <1>3
<1>5. STypes(c)'
  BY <1>1, <1>4 DEF SInv, STypes
<1>6. SLegs(c)'
  BY <1>1 DEF SInv, SLegs, Leg, Search!Passing, Search!Live
<1>7. Search(c)!EachOnce'
  BY <1>3 DEF Search!EachOnce
<1>8. Search(c)!OnlyPassing'
  <2>1. \A a \in DOMAIN found' : found'[a] \in Search(c)!Passing
    BY <1>2, <1>4
  <2>2. Search(c)!Passing' = Search(c)!Passing
    BY <1>1 DEF Search!Passing, Search!Live
  <2> QED BY <2>1, <2>2 DEF Search!OnlyPassing, Search!Found
<1>9. Search(c)!NoWorseFirst'
  <2> SUFFICES ASSUME Search(c)!ByVector, NEW a \in DOMAIN found', NEW b \in DOMAIN found', a < b,
                      found'[a] \in DOMAIN near => found'[b] \in DOMAIN near /\ near[found'[b]] <= near[found'[a]],
                      found'[a] \in DOMAIN word => found'[b] \in DOMAIN word /\ word[found'[b]] <= word[found'[a]],
                      \/ {found'[b], found'[a]} \subseteq DOMAIN near /\ near[found'[b]] < near[found'[a]]
                      \/ {found'[b], found'[a]} \subseteq DOMAIN word /\ word[found'[b]] < word[found'[a]]
               PROVE  FALSE
    BY <1>1 DEF Search!NoWorseFirst, Search!ByVector
  <2>1. found'[a] \in rows /\ found'[b] \in rows
    BY <1>2, <1>4
  <2>2. Search(c)!Ranking[found'[a]] <= Search(c)!Ranking[found'[b]]
    BY <1>2, <1>3
  <2>3. SLegs(c)
    BY DEF SInv
  <2> QED BY <2>1, <2>2, <2>3, SAhead
<1> QED BY <1>1, <1>5, <1>6, <1>7, <1>8, <1>9 DEF SInv

\* Others change rows while the search has fetched none yet.
LEMMA SChangeStep ==
    ASSUME NEW c, Search(c)!ConstantsFit, SInv(c), Search(c)!Change PROVE SInv(c)'
<1>1. UNCHANGED <<mode, embedder, pc, near, word, rows, found>> /\ pc \in {"words", "fetch"}
  BY DEF Search!Change, Search!query
<1>2. rows = {} /\ DOMAIN found = {}
  BY <1>1 DEF SInv, SLegs
<1>3. row' \in [1..c.Count -> Search(c)!Kinds \cup {None}]
  <2>1. PICK i \in Search(c)!Live : \/ row' = [row EXCEPT ![i] = None]
                                    \/ row' = [row EXCEPT ![i].passes = FALSE]
    BY DEF Search!Change
  <2>2. i \in 1..c.Count /\ row[i] \in Search(c)!Kinds
    BY DEF SInv, STypes, Search!Live, Search!Ids
  <2> DEFINE r == [row[i] EXCEPT !.passes = FALSE]
  <2>3. r \in Search(c)!Kinds
    BY <2>2 DEF Search!Kinds
  <2>4. row' = [row EXCEPT ![i] = None] \/ row' = [row EXCEPT ![i] = r]
    BY <2>1
  <2> HIDE DEF r
  <2> QED BY <2>2, <2>3, <2>4 DEF SInv, STypes
<1>4. STypes(c)'
  BY <1>1, <1>3 DEF SInv, STypes
<1>5. SLegs(c)'
  BY <1>1, <1>2 DEF SInv, SLegs, Leg, Search!ByVector
<1>6. Search(c)!EachOnce' /\ Search(c)!OnlyPassing' /\ Search(c)!NoWorseFirst'
  BY <1>1, <1>2 DEF Search!EachOnce, Search!OnlyPassing, Search!Found, Search!NoWorseFirst
<1> QED BY <1>1, <1>2, <1>4, <1>5, <1>6 DEF SInv

\* The invariant is inductive.
LEMMA SStep ==
    ASSUME NEW c, Search(c)!ConstantsFit, SInv(c), [Search(c)!Next]_(Search(c)!vars)
    PROVE  SInv(c)'
<1>1. CASE UNCHANGED Search(c)!vars
  <2>1. UNCHANGED <<mode, embedder, row, pc, near, word, rows, found>>
    BY <1>1 DEF Search!vars
  <2>2. STypes(c)' /\ SLegs(c)'
    BY <2>1 DEF SInv, STypes, SLegs, Leg, Search!ByVector, Search!Passing, Search!Live
  <2>3. Search(c)!EachOnce' /\ Search(c)!OnlyPassing' /\ Search(c)!NoWorseFirst'
    BY <2>1 DEF SInv, Search!EachOnce, Search!OnlyPassing, Search!Found, Search!Passing, Search!Live, Search!NoWorseFirst, Search!ByVector
  <2> QED BY <2>1, <2>2, <2>3 DEF SInv
<1> QED BY <1>1, SLegStep, SFetchStep, SReturnStep, SChangeStep DEF Search!Next

\* The invariant implies what a search promises.
LEMMA SHolds == ASSUME NEW c, Search(c)!ConstantsFit, SInv(c) PROVE Search(c)!SearchIsSound
<1>1. Search(c)!TypeOK
  <2>1. rows \subseteq 1..c.Count
    BY DEF SInv, STypes, SLegs, Leg
  <2> QED BY <2>1 DEF SInv, STypes, Search!TypeOK, Search!Ids
<1> QED BY <1>1 DEF SInv, Search!SearchIsSound

----------------------------------------
(* MemoryLife.  The entries are numbered without a gap, are listed but for *)
(* one row of each failed write, are as many as the turns owe if none *)
(* failed, and none is more trusted than what the code gives out (LInv). *)

memories == v1
time == v2
session == v3
durable == v4
extracted == v5
shown == v6
lapsed == v7
turns == v8
lost == v9
touched == v10
USE DEF memories, time, session, durable, extracted, shown, lapsed, turns, lost, touched

\* The rows an agent's memory holds: of no more confidence than its word may have, where the
\* cap is not below the default one.
Good(c) == {r \in Life(c)!Row : c.AgentCap >= 70 /\ r.source = "agent" => r.confidence <= c.AgentCap}
Fresh(c) == {r \in Good(c) : r.accessed = time}
Owed == turns + (IF session THEN 0 ELSE 1)

LInv(c) ==
    /\ memories \in [Life(c)!Ids -> Good(c) \cup {None}]
    /\ time \in 0..c.MaxTime /\ turns \in 0..c.MaxTurns /\ session \in BOOLEAN /\ lost \in 0..Owed
    /\ extracted \subseteq Life(c)!Live /\ Cardinality(Life(c)!Live \ extracted) <= lost
    /\ shown \subseteq Life(c)!Live /\ lapsed \subseteq Life(c)!Live
    /\ touched \in [Life(c)!Ids -> 0..c.MaxTime]
    /\ \A i \in Life(c)!Live : memories[i].accessed = touched[i] /\ touched[i] <= time
    /\ \E n \in 0..c.Count : Life(c)!Live = 1..n /\ (c.MinStore <= c.AgentCap /\ lost = 0 => Owed <= n)

\* What ages out is an episode; and an episode of two half-lives has aged out, or of three if
\* it has full importance.
LEMMA LEffective ==
    ASSUME NEW c, NEW r \in Good(c), time \in Nat, r.accessed <= time
    PROVE  /\ Life(c)!AgedOut(r) => r.type = "episodic" /\ ~r.pinned
           /\ r.type = "episodic" /\ ~r.pinned /\ time - r.accessed >= Life(c)!Lasts(r) => Life(c)!AgedOut(r)
<1> DEFINE k == Life(c)!Halved(time - r.accessed)
           left == r.importance \div k
<1>1. r.importance \in 0..100 /\ r.accessed \in Nat /\ r.type \in {"episodic", "semantic", "procedural"} /\ r.pinned \in BOOLEAN
  BY DEF Good, Life!Row
<1>2. /\ k \in {1, 2, 4, 8, 16, 32, 64, 128}
      /\ time - r.accessed >= 2 => k \in {4, 8, 16, 32, 64, 128}
      /\ time - r.accessed >= 3 => k \in {8, 16, 32, 64, 128}
  BY <1>1 DEF Life!Halved
<1>0. Life(c)!Lasts(r) = IF r.importance = 100 THEN 3 ELSE 2
  BY DEF Life!Lasts
<1> HIDE DEF k
<1>3. left \in Int /\ (time - r.accessed >= Life(c)!Lasts(r) => left < 25)
  <2>1. CASE k = 1
    BY <1>0, <1>1, <1>2, <2>1
  <2>2. CASE k = 2
    BY <1>0, <1>1, <1>2, <2>2
  <2>3. CASE k = 4
    BY <1>0, <1>1, <1>2, <2>3
  <2>4. CASE k = 8
    BY <1>0, <1>1, <1>2, <2>4
  <2>5. CASE k = 16
    BY <1>0, <1>1, <1>2, <2>5
  <2>6. CASE k = 32
    BY <1>0, <1>1, <1>2, <2>6
  <2>7. CASE k = 64
    BY <1>0, <1>1, <1>2, <2>7
  <2>8. CASE k = 128
    BY <1>0, <1>1, <1>2, <2>8
  <2> QED BY <1>2, <2>1, <2>2, <2>3, <2>4, <2>5, <2>6, <2>7, <2>8
<1>4. ~r.pinned => Life(c)!Effective(r) = Life(c)!Larger(Life(c)!Floor(r.type), left)
  BY DEF Life!Effective, k
<1> HIDE DEF left
<1>5. CASE r.type = "episodic"
  <2>1. Life(c)!Floor(r.type) = 5 /\ Life(c)!Threshold(r.type) = 25
    BY <1>5 DEF Life!Floor, Life!Threshold
  <2> QED BY <1>1, <1>3, <1>4, <1>5, <2>1 DEF Life!AgedOut, Life!Larger
<1>6. CASE r.type = "semantic"
  <2>1. Life(c)!Floor(r.type) = 20 /\ Life(c)!Threshold(r.type) = 10
    BY <1>6 DEF Life!Floor, Life!Threshold
  <2> QED BY <1>1, <1>3, <1>4, <1>6, <2>1 DEF Life!AgedOut, Life!Larger
<1>7. CASE r.type = "procedural"
  <2>1. Life(c)!Floor(r.type) = 30 /\ Life(c)!Threshold(r.type) = 5
    BY <1>7 DEF Life!Floor, Life!Threshold
  <2> QED BY <1>1, <1>3, <1>4, <1>7, <2>1 DEF Life!AgedOut, Life!Larger
<1> QED BY <1>1, <1>5, <1>6, <1>7

\* Filtered, an extraction has good entries; and its first one if the agent's word is stored.
LEMMA LJoined ==
    ASSUME NEW S, NEW q \in Seq(S), NEW r \in Seq(S)
    PROVE  q \o r \in Seq(S) /\ Len(q \o r) = Len(q) + Len(r) /\ (Len(q) >= 1 => (q \o r)[1] = q[1])
OBVIOUS

\* What the filter keeps is what it was given, above the threshold.
LEMMA LStorable ==
    ASSUME NEW c, NEW S, NEW q \in Seq(S)
    PROVE  /\ Life(c)!Storable(q) \in Seq(S)
           /\ Len(q) >= 1 /\ q[1].confidence >= c.MinStore => Len(Life(c)!Storable(q)) >= 1
<1> DEFINE kept(k) == Life(c)!Kept(q, k)
<1>1. ASSUME NEW k \in {1, 2, 3}
      PROVE  kept(k) \in Seq(S) /\ Len(kept(k)) \in Nat /\ (k <= Len(q) /\ q[k].confidence >= c.MinStore => Len(kept(k)) = 1)
  BY DEF Life!Kept
<1> HIDE DEF kept
<1>2. kept(1) \o kept(2) \in Seq(S) /\ Len(kept(1) \o kept(2)) = Len(kept(1)) + Len(kept(2))
  BY <1>1, LJoined
<1>3. /\ (kept(1) \o kept(2)) \o kept(3) \in Seq(S)
      /\ Len((kept(1) \o kept(2)) \o kept(3)) = Len(kept(1) \o kept(2)) + Len(kept(3))
  BY <1>1, <1>2, LJoined
<1>4. Life(c)!Storable(q) = (kept(1) \o kept(2)) \o kept(3)
  BY DEF Life!Storable, kept
<1> QED BY <1>1, <1>2, <1>3, <1>4, SMTT(20)

\* What the code makes an entry of is good.
LEMMA LEntry ==
    ASSUME NEW c, Life(c)!ConstantsFit, time \in 0..c.MaxTime,
           NEW type \in {"episodic", "semantic", "procedural"}, NEW importance \in 0..100
    PROVE  /\ Life(c)!Entry(type, importance, c.AgentCap, "agent") \in Fresh(c)
           /\ Life(c)!Entry(type, importance, c.AgentCap, "agent").confidence = c.AgentCap
           /\ Life(c)!Entry(type, importance, 90, "user") \in Fresh(c)
           /\ Life(c)!Entry(type, importance, 70, "agent") \in Fresh(c)
<1>1. c.AgentCap \in 0..100
  BY DEF Life!ConstantsFit
<1>2. /\ Life(c)!Entry(type, importance, c.AgentCap, "agent") \in Fresh(c)
      /\ Life(c)!Entry(type, importance, c.AgentCap, "agent").confidence = c.AgentCap
  BY <1>1 DEF Life!Entry, Fresh, Good, Life!Row
<1>3. Life(c)!Entry(type, importance, 90, "user") \in Fresh(c)
  BY <1>1 DEF Life!Entry, Fresh, Good, Life!Row
<1>4. Life(c)!Entry(type, importance, 70, "agent") \in Fresh(c)
  BY <1>1 DEF Life!Entry, Fresh, Good, Life!Row
<1> QED BY <1>2, <1>3, <1>4

\* The rules extract one to three entries, of the agent or of the user.
LEMMA LHeuristic ==
    ASSUME NEW c, Life(c)!ConstantsFit, time \in 0..c.MaxTime, NEW states \in BOOLEAN, NEW steps \in BOOLEAN, NEW bonus \in BOOLEAN
    PROVE  LET q == Life(c)!Heuristic(states, steps, bonus)
           IN  q \in Seq(Fresh(c)) /\ Len(q) >= 1 /\ q[1].confidence = c.AgentCap
<1> DEFINE gain == IF bonus THEN 20 ELSE 0
           first == <<Life(c)!Entry("episodic", 40 + gain, c.AgentCap, "agent")>>
           second == IF states THEN <<Life(c)!Entry("semantic", 50 + gain, 90, "user")>> ELSE <<>>
           third == IF steps THEN <<Life(c)!Entry("procedural", 40, c.AgentCap, "agent")>> ELSE <<>>
<1>1. 40 + gain \in 0..100 /\ 50 + gain \in 0..100 /\ 40 \in 0..100
  OBVIOUS
<1> HIDE DEF gain
<1>2. /\ Life(c)!Entry("episodic", 40 + gain, c.AgentCap, "agent") \in Fresh(c)
      /\ Life(c)!Entry("episodic", 40 + gain, c.AgentCap, "agent").confidence = c.AgentCap
  BY <1>1, LEntry
<1>3. Life(c)!Entry("semantic", 50 + gain, 90, "user") \in Fresh(c)
  BY <1>1, LEntry
<1>4. Life(c)!Entry("procedural", 40, c.AgentCap, "agent") \in Fresh(c)
  BY <1>1, LEntry
<1>5. first \in Seq(Fresh(c)) /\ Len(first) = 1 /\ first[1].confidence = c.AgentCap
  BY <1>2
<1>6. second \in Seq(Fresh(c)) /\ Len(second) \in Nat
  BY <1>3
<1>7. third \in Seq(Fresh(c)) /\ Len(third) \in Nat
  BY <1>4
<1>8. Life(c)!Heuristic(states, steps, bonus) = (first \o second) \o third
  BY DEF Life!Heuristic, Life!UserConfirmed, gain
<1> HIDE DEF first, second, third
<1>9. first \o second \in Seq(Fresh(c)) /\ Len(first \o second) >= 1 /\ (first \o second)[1] = first[1]
  BY <1>5, <1>6, LJoined
<1>10. /\ (first \o second) \o third \in Seq(Fresh(c)) /\ Len((first \o second) \o third) >= 1
       /\ ((first \o second) \o third)[1] = first[1]
  BY <1>7, <1>9, LJoined
<1> QED BY <1>5, <1>8, <1>10

\* So does a model, or the rules in its place; one is stored where the agent's word may be.
LEMMA LExtracts ==
    ASSUME NEW c, Life(c)!ConstantsFit, time \in 0..c.MaxTime, NEW states \in BOOLEAN, NEW steps \in BOOLEAN, NEW bonus \in BOOLEAN,
           NEW reply \in Life(c)!Replies
    PROVE  LET q == Life(c)!Storable(Life(c)!Extract(reply, Life(c)!Heuristic(states, steps, bonus)))
           IN  q \in Seq(Fresh(c)) /\ (c.MinStore <= c.AgentCap => Len(q) >= 1)
<1> DEFINE h == Life(c)!Heuristic(states, steps, bonus)
           e == Life(c)!Extract(reply, h)
<1>1. h \in Seq(Fresh(c)) /\ Len(h) >= 1 /\ h[1].confidence = c.AgentCap
  BY LHeuristic
<1>2. reply # <<>> => reply \in Seq(Fresh(c)) /\ Len(reply) >= 1 /\ reply[1].confidence = c.AgentCap
  <2>1. ASSUME NEW t \in {"episodic", "semantic"}, NEW imp \in {10, 100}
        PROVE  /\ <<Life(c)!Entry(t, imp, c.AgentCap, "agent")>> \in Seq(Fresh(c))
               /\ <<Life(c)!Entry(t, imp, c.AgentCap, "agent")>>[1].confidence = c.AgentCap
    <3>1. imp \in 0..100 /\ t \in {"episodic", "semantic", "procedural"}
      BY <2>1
    <3>2. /\ Life(c)!Entry(t, imp, c.AgentCap, "agent") \in Fresh(c)
          /\ Life(c)!Entry(t, imp, c.AgentCap, "agent").confidence = c.AgentCap
      BY <3>1, LEntry
    <3> QED BY <3>2
  <2>2. ASSUME reply # <<>> PROVE reply \in Seq(Fresh(c)) /\ Len(reply) >= 1 /\ reply[1].confidence = c.AgentCap
    <3>1. PICK t \in {"episodic", "semantic"} : \E imp \in {10, 100} : reply = <<Life(c)!Entry(t, imp, c.AgentCap, "agent")>>
      BY <2>2 DEF Life!Replies
    <3>2. PICK imp \in {10, 100} : reply = <<Life(c)!Entry(t, imp, c.AgentCap, "agent")>>
      BY <3>1
    <3>3. Len(reply) = 1
      BY <3>2
    <3> QED BY <2>1, <3>2, <3>3
  <2> QED BY <2>2
<1> HIDE DEF h
<1>3. e = h \/ (e = reply /\ reply # <<>>)
  BY DEF Life!Extract
<1> HIDE DEF e
<1>4. e \in Seq(Fresh(c)) /\ Len(e) >= 1 /\ e[1].confidence = c.AgentCap
  BY <1>1, <1>2, <1>3
<1>5. Life(c)!Storable(e) \in Seq(Fresh(c)) /\ (e[1].confidence >= c.MinStore => Len(Life(c)!Storable(e)) >= 1)
  BY <1>4, LStorable
<1>6. c.AgentCap \in Nat /\ c.MinStore \in Nat
  BY DEF Life!ConstantsFit
<1> QED BY <1>4, <1>5, <1>6 DEF e, h

\* Entries are owed for the turns and for the close.
LEMMA LCount ==
    ASSUME NEW n \in Nat, NEW b
    PROVE  n + (IF b THEN 0 ELSE 1) \in Nat
OBVIOUS

\* Entries are stored: the ids stay 1 to some number, and so does all that is said of the rows.
LEMMA LPersist ==
    ASSUME NEW c, Life(c)!ConstantsFit, LInv(c), NEW q \in Seq(Fresh(c)), Life(c)!Persist(q),
           time' = time, shown' = shown, lapsed' = lapsed, turns' \in 0..c.MaxTurns, session' \in BOOLEAN, Owed' = Owed + 1,
           c.MinStore <= c.AgentCap => Owed' <= Owed + Len(q)
    PROVE  LInv(c)'
<1> DEFINE top == Life(c)!Stored
<1>1. /\ c.Count \in Nat /\ c.MaxTime \in Nat /\ c.MaxTurns \in Nat /\ None \notin Life(c)!Row
      /\ Life(c)!Ids = 1..c.Count /\ time \in 0..c.MaxTime /\ turns \in 0..c.MaxTurns
  BY DEF Life!ConstantsFit, Life!Ids, LInv
<1>2. top \in 0..c.Count /\ Life(c)!Live = 1..top /\ (c.MinStore <= c.AgentCap /\ lost = 0 => Owed <= top)
  <2>1. PICK m \in 0..c.Count : Life(c)!Live = 1..m /\ (c.MinStore <= c.AgentCap /\ lost = 0 => Owed <= m)
    BY DEF LInv
  <2>2. top \in 0..c.Count /\ Life(c)!Live = 1..top
    BY <2>1 DEF Life!Stored
  <2>3. m \in Nat /\ top \in Nat /\ 1..m = 1..top
    BY <1>1, <2>1, <2>2
  <2>4. m = top
    BY <2>3
  <2> QED BY <2>1, <2>2, <2>4
<1> HIDE DEF top
<1>3. top + Len(q) <= c.Count
  BY DEF Life!Persist, top
<1>4. PICK n \in 0..Len(q), m \in 0..Len(q) :
        /\ m \in {n, n + 1}
        /\ memories' = [i \in Life(c)!Ids |-> IF i \in top + 1 .. top + m THEN q[i - top] ELSE memories[i]]
        /\ extracted' = extracted \cup (top + 1 .. top + n)
        /\ touched' = [i \in Life(c)!Ids |-> IF i \in top + 1 .. top + m THEN time ELSE touched[i]]
        /\ lost' = lost + (IF n < Len(q) THEN 1 ELSE 0)
  BY DEF Life!Persist, Life!Written, top
<1>5. n \in Nat /\ m \in Nat /\ Len(q) \in Nat /\ top \in Nat /\ top + m \in 0..c.Count
  BY <1>1, <1>2, <1>3, <1>4
<1>6. ASSUME NEW i \in Life(c)!Ids, i \in top + 1 .. top + m
      PROVE  memories'[i] \in Fresh(c) /\ memories'[i] # None /\ touched'[i] = time
  <2>1. memories'[i] = q[i - top] /\ touched'[i] = time
    BY <1>4, <1>6
  <2>2. i - top \in 1..Len(q)
    BY <1>1, <1>4, <1>5, <1>6
  <2>3. q[i - top] \in Fresh(c)
    BY <2>2
  <2> QED BY <1>1, <2>1, <2>3 DEF Fresh, Good
<1>7. ASSUME NEW i \in Life(c)!Ids, i \notin top + 1 .. top + m
      PROVE  memories'[i] = memories[i] /\ touched'[i] = touched[i]
  BY <1>4, <1>7
<1>8. memories' \in [Life(c)!Ids -> Good(c) \cup {None}] /\ touched' \in [Life(c)!Ids -> 0..c.MaxTime]
  <2>1. \A i \in Life(c)!Ids : memories'[i] \in Good(c) \cup {None} /\ touched'[i] \in 0..c.MaxTime
    BY <1>1, <1>6, <1>7 DEF Fresh, LInv
  <2> QED BY <1>4, <2>1
<1>9. Life(c)!Live' = 1 .. top + m
  <2>1. ASSUME NEW i \in Life(c)!Ids PROVE memories'[i] # None <=> i \in 1 .. top + m
    <3>1. CASE i \in top + 1 .. top + m
      BY <1>1, <1>5, <1>6, <3>1
    <3>2. CASE i \notin top + 1 .. top + m
      <4>1. memories[i] # None <=> i \in 1..top
        BY <1>2 DEF Life!Live
      <4> QED BY <1>1, <1>5, <1>7, <3>2, <4>1
    <3> QED BY <3>1, <3>2
  <2>2. Life(c)!Live' = {i \in Life(c)!Ids : memories'[i] # None}
    BY DEF Life!Live, Life!Ids
  <2>3. 1 .. top + m \subseteq Life(c)!Ids
    BY <1>1, <1>5
  <2> QED BY <2>1, <2>2, <2>3
<1>10. Life(c)!Live \subseteq Life(c)!Live'
  BY <1>2, <1>5, <1>9
<1>18. extracted' \subseteq Life(c)!Live'
  <2>1. top + 1 .. top + n \subseteq 1 .. top + m
    BY <1>4, <1>5
  <2> QED BY <1>4, <1>9, <1>10, <2>1 DEF LInv
<1> DEFINE left == Life(c)!Live \ extracted
           after == Life(c)!Live' \ extracted'
<1>19. IsFiniteSet(left) /\ Cardinality(left) \in Nat /\ Cardinality(left) <= lost /\ lost \in Nat
  <2>1. IsFiniteSet(1..top) /\ left \in SUBSET (1..top)
    BY <1>2, <1>5, FS_Interval
  <2>2. IsFiniteSet(left)
    BY <2>1, FS_Subset
  <2>3. Owed \in Nat /\ lost \in 0..Owed /\ Cardinality(left) <= lost
    BY <1>1, LCount DEF LInv, Owed
  <2> QED BY <2>2, <2>3, FS_CardinalityType
<1>20. ASSUME m = n PROVE Cardinality(after) <= lost'
  <2>1. after \in SUBSET left
    BY <1>2, <1>4, <1>5, <1>9, <1>20
  <2>2. IsFiniteSet(after) /\ Cardinality(after) <= Cardinality(left)
    BY <1>19, <2>1, FS_Subset
  <2>3. Cardinality(after) \in Nat /\ lost' \in Nat /\ lost <= lost'
    BY <1>4, <1>19, <2>2, FS_CardinalityType
  <2> HIDE DEF left, after
  <2> QED BY <1>19, <2>2, <2>3
<1>21. ASSUME m = n + 1 PROVE Cardinality(after) <= lost'
  <2>1. after \in SUBSET (left \cup {top + m})
    BY <1>2, <1>4, <1>5, <1>9, <1>21
  <2>2. lost' = lost + 1
    BY <1>4, <1>5, <1>21
  <2> HIDE DEF left, after
  <2>3. IsFiniteSet(left \cup {top + m}) /\ Cardinality(left \cup {top + m}) <= Cardinality(left) + 1
    <3>1. /\ IsFiniteSet(left \cup {top + m})
          /\ Cardinality(left \cup {top + m}) = IF top + m \in left THEN Cardinality(left) ELSE Cardinality(left) + 1
      <4>1. IsFiniteSet(left)
        BY <1>19
      <4> QED BY <4>1, FS_AddElement, Zenon
    <3> QED BY <1>19, <3>1
  <2>4. IsFiniteSet(after) /\ Cardinality(after) <= Cardinality(left \cup {top + m})
    BY <2>1, <2>3, FS_Subset
  <2>5. Cardinality(after) \in Nat /\ Cardinality(left \cup {top + m}) \in Nat
    BY <2>3, <2>4, FS_CardinalityType
  <2> QED BY <1>19, <2>2, <2>3, <2>4, <2>5
<1>22. Cardinality(Life(c)!Live' \ extracted') <= lost'
  BY <1>4, <1>20, <1>21
<1> HIDE DEF left, after
<1>11. ASSUME NEW i \in Life(c)!Live' PROVE memories'[i].accessed = touched'[i] /\ touched'[i] <= time
  <2>1. i \in Life(c)!Ids /\ memories'[i] # None
    BY DEF Life!Live, Life!Ids
  <2>2. CASE i \in top + 1 .. top + m
    BY <1>1, <1>6, <2>1, <2>2 DEF Fresh
  <2>3. CASE i \notin top + 1 .. top + m
    <3>1. memories[i] # None /\ memories'[i] = memories[i] /\ touched'[i] = touched[i]
      BY <1>7, <2>1, <2>3
    <3>2. i \in Life(c)!Live
      BY <2>1, <3>1 DEF Life!Live
    <3> QED BY <3>1, <3>2 DEF LInv
  <2> QED BY <2>2, <2>3
<1>12. c.MinStore <= c.AgentCap /\ lost' = 0 => Owed' <= top + m
  <2>1. Owed \in Nat
    BY <1>1, LCount DEF Owed
  <2>2. lost' = 0 => lost = 0 /\ m = Len(q)
    BY <1>4, <1>5, <1>19
  <2> QED BY <1>2, <1>5, <2>1, <2>2
<1>13. lost' \in 0..Owed'
  <2>1. Owed \in Nat /\ lost \in 0..Owed
    BY <1>1, LCount DEF Owed, LInv
  <2>2. lost' \in {lost, lost + 1}
    BY <1>4, <1>19
  <2> QED BY <2>1, <2>2
<1>14. \E k \in 0..c.Count : Life(c)!Live' = 1..k /\ (c.MinStore <= c.AgentCap /\ lost' = 0 => Owed' <= k)
  BY <1>5, <1>9, <1>12
<1>15. shown' \subseteq Life(c)!Live' /\ lapsed' \subseteq Life(c)!Live'
  BY <1>10 DEF LInv
<1>16. Life(c)!Ids' = Life(c)!Ids
  BY DEF Life!Ids
<1>17. Good(c)' = Good(c)
  BY DEF Good, Life!Row
<1> QED BY <1>1, <1>8, <1>10, <1>11, <1>13, <1>14, <1>15, <1>16, <1>17, <1>18, <1>22 DEF LInv

\* A turn lists the entries it stored, up to a failed write.
LEMMA LTurn ==
    ASSUME NEW c, Life(c)!ConstantsFit, LInv(c), NEW states \in BOOLEAN, NEW steps \in BOOLEAN, NEW bonus \in BOOLEAN,
           NEW reply \in Life(c)!Replies, Life(c)!Turn(states, steps, bonus, reply)
    PROVE  LInv(c)'
<1>1. /\ time' = time /\ session' = session /\ session /\ shown' = shown /\ lapsed' = lapsed
      /\ turns' = turns + 1 /\ turns < c.MaxTurns
      /\ Life(c)!Persist(Life(c)!Storable(Life(c)!Extract(reply, Life(c)!Heuristic(states, steps, bonus))))
  BY DEF Life!Turn
<1>2. time \in 0..c.MaxTime /\ turns \in 0..c.MaxTurns /\ c.MaxTurns \in Nat /\ session \in BOOLEAN
  BY DEF LInv, Life!ConstantsFit
<1>3. PICK q \in Seq(Fresh(c)) :
      /\ q = Life(c)!Storable(Life(c)!Extract(reply, Life(c)!Heuristic(states, steps, bonus)))
      /\ (c.MinStore <= c.AgentCap => Len(q) >= 1)
  BY <1>2, LExtracts
<1>4. Life(c)!Persist(q)
  BY <1>1, <1>3
<1>5. turns' \in 0..c.MaxTurns /\ session' \in BOOLEAN
  BY <1>1, <1>2
<1>6. Owed = turns /\ Owed' = turns'
  BY <1>1, <1>2 DEF Owed
<1>7. Len(q) \in Nat
  BY <1>3
<1>8. Owed' = Owed + 1 /\ (c.MinStore <= c.AgentCap => Owed' <= Owed + Len(q))
  BY <1>1, <1>2, <1>3, <1>6, <1>7
<1> QED BY <1>1, <1>3, <1>4, <1>5, <1>8, LPersist

\* The close of a session adds its summary.
LEMMA LClose ==
    ASSUME NEW c, Life(c)!ConstantsFit, LInv(c), Life(c)!Close
    PROVE  LInv(c)'
<1>1. /\ time' = time /\ session = TRUE /\ session' = FALSE /\ shown' = shown /\ lapsed' = lapsed /\ turns' = turns
      /\ Life(c)!Persist(<<Life(c)!Consolidated>>) /\ time \in 0..c.MaxTime /\ turns \in 0..c.MaxTurns
  BY DEF Life!Close, LInv
<1>2. Life(c)!Consolidated \in Fresh(c)
  <2>1. PICK type \in {"episodic", "semantic", "procedural"} : type = IF durable THEN "semantic" ELSE "episodic"
    OBVIOUS
  <2>2. Life(c)!Consolidated = Life(c)!Entry(type, 70, 70, "agent")
    BY <2>1 DEF Life!Consolidated, Life!DefaultCap
  <2>3. Life(c)!Entry(type, 70, 70, "agent") \in Fresh(c)
    <3>1. 70 \in 0..100 /\ time \in 0..c.MaxTime
      BY <1>1
    <3> QED BY <3>1, LEntry, SMTT(20)
  <2> QED BY <2>2, <2>3
<1>3. PICK q \in Seq(Fresh(c)) : q = <<Life(c)!Consolidated>>
  <2>1. \A x \in Fresh(c) : <<x>> \in Seq(Fresh(c))
    OBVIOUS
  <2> QED BY <1>2, <2>1
<1>4. Life(c)!Persist(q) /\ Len(q) = 1
  BY <1>1, <1>3
<1>5. Owed = turns /\ Owed' = turns + 1 /\ turns \in Nat
  BY <1>1 DEF Owed
<1>6. c.MinStore <= c.AgentCap => Owed' <= Owed + Len(q)
  BY <1>4, <1>5
<1> QED BY <1>1, <1>3, <1>4, <1>5, <1>6, LPersist

\* A retrieval or a listing resets the clock of what it read.
LEMMA LRefresh ==
    ASSUME NEW c, Life(c)!ConstantsFit, LInv(c), NEW read \in SUBSET Life(c)!Live, Life(c)!Refresh(read),
           touched' = [i \in Life(c)!Ids |-> IF i \in read THEN time ELSE touched[i]],
           shown' \subseteq Life(c)!Live, lapsed' \subseteq Life(c)!Live,
           time' = time, session' = session, extracted' = extracted, turns' = turns, lost' = lost
    PROVE  LInv(c)'
<1>1. memories' = [i \in Life(c)!Ids |-> IF i \in read THEN [memories[i] EXCEPT !.accessed = time] ELSE memories[i]]
  BY DEF Life!Refresh
<1>2. /\ c.MaxTime \in Nat /\ None \notin Good(c) /\ time \in 0..c.MaxTime
      /\ Life(c)!Live = {i \in Life(c)!Ids : memories[i] # None}
  BY DEF Life!ConstantsFit, Good, LInv, Life!Live, Life!Ids
<1>3. ASSUME NEW i \in Life(c)!Ids, i \in read
      PROVE  memories'[i] \in Good(c) /\ memories'[i].accessed = time /\ touched'[i] = time /\ memories[i] # None
  <2>1. memories'[i] = [memories[i] EXCEPT !.accessed = time] /\ touched'[i] = time /\ memories[i] # None
    BY <1>1, <1>2, <1>3
  <2>2. memories[i] \in Good(c)
    BY <2>1 DEF LInv
  <2>3. [memories[i] EXCEPT !.accessed = time] \in Good(c) /\ [memories[i] EXCEPT !.accessed = time].accessed = time
    BY <1>2, <2>2 DEF Good, Life!Row
  <2> QED BY <2>1, <2>3
<1>4. ASSUME NEW i \in Life(c)!Ids, i \notin read PROVE memories'[i] = memories[i] /\ touched'[i] = touched[i]
  BY <1>1, <1>4
<1>5. memories' \in [Life(c)!Ids -> Good(c) \cup {None}] /\ touched' \in [Life(c)!Ids -> 0..c.MaxTime]
  <2>1. \A i \in Life(c)!Ids : memories'[i] \in Good(c) \cup {None} /\ touched'[i] \in 0..c.MaxTime
    BY <1>2, <1>3, <1>4 DEF LInv
  <2> QED BY <1>1, <2>1
<1>6. Life(c)!Live' = Life(c)!Live
  <2>1. Life(c)!Live' = {i \in Life(c)!Ids : memories'[i] # None}
    BY DEF Life!Live, Life!Ids
  <2>2. \A i \in Life(c)!Ids : memories'[i] # None <=> memories[i] # None
    BY <1>2, <1>3, <1>4
  <2> QED BY <1>2, <2>1, <2>2
<1>7. \A i \in Life(c)!Live : memories'[i].accessed = touched'[i] /\ touched'[i] <= time
  BY <1>2, <1>3, <1>4 DEF LInv
<1>8. Life(c)!Ids' = Life(c)!Ids /\ Good(c)' = Good(c) /\ Owed' = Owed
  BY DEF Life!Ids, Good, Life!Row, Owed
<1>9. /\ time' \in 0..c.MaxTime /\ turns' \in 0..c.MaxTurns /\ session' \in BOOLEAN /\ lost' \in 0..Owed'
      /\ extracted' \subseteq Life(c)!Live' /\ Cardinality(Life(c)!Live' \ extracted') <= lost'
  BY <1>6, <1>8 DEF LInv
<1>10. \E n \in 0..c.Count : Life(c)!Live' = 1..n /\ (c.MinStore <= c.AgentCap /\ lost' = 0 => Owed' <= n)
  BY <1>6, <1>8 DEF LInv
<1>11. \A i \in Life(c)!Live' : memories'[i].accessed = touched'[i] /\ touched'[i] <= time'
  BY <1>6, <1>7
<1> QED BY <1>5, <1>6, <1>8, <1>9, <1>10, <1>11 DEF LInv

\* The user pins an entry.
LEMMA LPin ==
    ASSUME NEW c, Life(c)!ConstantsFit, LInv(c), NEW i \in Life(c)!Ids, Life(c)!Pin(i)
    PROVE  LInv(c)'
<1>1. /\ memories' = [memories EXCEPT ![i].pinned = TRUE] /\ memories[i] # None
      /\ time' = time /\ session' = session /\ extracted' = extracted /\ shown' = shown /\ lapsed' = lapsed
      /\ turns' = turns /\ lost' = lost /\ touched' = touched
  BY DEF Life!Pin, Life!Live
<1>2. None \notin Good(c) /\ Life(c)!Live = {j \in Life(c)!Ids : memories[j] # None}
  BY DEF Life!ConstantsFit, Good, Life!Live, Life!Ids
<1> DEFINE r == [memories[i] EXCEPT !.pinned = TRUE]
<1>3. r \in Good(c) /\ r.accessed = memories[i].accessed
  <2>1. memories[i] \in Good(c)
    BY <1>1 DEF LInv
  <2> QED BY <2>1 DEF Good, Life!Row
<1>4. memories' = [memories EXCEPT ![i] = r]
  BY <1>1
<1> HIDE DEF r
<1>5. /\ memories' \in [Life(c)!Ids -> Good(c) \cup {None}]
      /\ \A j \in Life(c)!Ids : memories'[j] = IF j = i THEN r ELSE memories[j]
  BY <1>3, <1>4 DEF LInv
<1>6. Life(c)!Live' = Life(c)!Live
  <2>1. Life(c)!Live' = {j \in Life(c)!Ids : memories'[j] # None}
    BY DEF Life!Live, Life!Ids
  <2>2. \A j \in Life(c)!Ids : memories'[j] # None <=> memories[j] # None
    BY <1>1, <1>2, <1>3, <1>5
  <2> QED BY <1>2, <2>1, <2>2
<1>7. \A j \in Life(c)!Live' : memories'[j].accessed = touched'[j] /\ touched'[j] <= time'
  BY <1>1, <1>2, <1>3, <1>5, <1>6 DEF LInv
<1>8. Life(c)!Ids' = Life(c)!Ids /\ Good(c)' = Good(c) /\ Owed' = Owed
  BY <1>1 DEF Life!Ids, Good, Life!Row, Owed
<1>9. \E n \in 0..c.Count : Life(c)!Live' = 1..n /\ (c.MinStore <= c.AgentCap /\ lost' = 0 => Owed' <= n)
  BY <1>1, <1>6, <1>8 DEF LInv
<1>10. /\ time' \in 0..c.MaxTime /\ turns' \in 0..c.MaxTurns /\ session' \in BOOLEAN /\ lost' \in 0..Owed'
       /\ extracted' \subseteq Life(c)!Live' /\ Cardinality(Life(c)!Live' \ extracted') <= lost'
       /\ shown' \subseteq Life(c)!Live /\ lapsed' \subseteq Life(c)!Live
       /\ touched' \in [Life(c)!Ids -> 0..c.MaxTime]
  BY <1>1, <1>6, <1>8 DEF LInv
<1> QED BY <1>5, <1>6, <1>7, <1>8, <1>9, <1>10 DEF LInv

\* Nothing about the rows changes: time passes, or nothing happens.
LEMMA LSame ==
    ASSUME NEW c, Life(c)!ConstantsFit, LInv(c), memories' = memories, session' = session, extracted' = extracted,
           lapsed' = lapsed, turns' = turns, lost' = lost, touched' = touched,
           shown' = {} \/ shown' = shown, time' = time \/ (time < c.MaxTime /\ time' = time + 1)
    PROVE  LInv(c)'
<1>1. /\ Life(c)!Ids' = Life(c)!Ids /\ Good(c)' = Good(c) /\ Owed' = Owed /\ Life(c)!Live' = Life(c)!Live
      /\ c.MaxTime \in Nat /\ time \in 0..c.MaxTime
  BY DEF Life!Ids, Good, Life!Row, Owed, Life!Live, Life!ConstantsFit, LInv
<1>2. time' \in 0..c.MaxTime /\ time <= time'
  BY <1>1
<1>3. \A i \in Life(c)!Live : memories[i].accessed = touched[i] /\ touched[i] <= time'
  <2>1. ASSUME NEW i \in Life(c)!Live PROVE touched[i] <= time'
    <3>1. touched[i] \in 0..c.MaxTime /\ touched[i] <= time
      BY <2>1 DEF LInv, Life!Live
    <3> QED BY <1>1, <1>2, <3>1
  <2> QED BY <2>1 DEF LInv
<1>4. \E n \in 0..c.Count : Life(c)!Live' = 1..n /\ (c.MinStore <= c.AgentCap /\ lost' = 0 => Owed' <= n)
  BY <1>1 DEF LInv
<1>5. /\ memories' \in [Life(c)!Ids -> Good(c) \cup {None}] /\ turns' \in 0..c.MaxTurns /\ session' \in BOOLEAN /\ lost' \in 0..Owed'
      /\ extracted' \subseteq Life(c)!Live' /\ Cardinality(Life(c)!Live' \ extracted') <= lost'
      /\ shown' \subseteq Life(c)!Live /\ lapsed' \subseteq Life(c)!Live
      /\ touched' \in [Life(c)!Ids -> 0..c.MaxTime]
  BY <1>1 DEF LInv
<1>6. \A i \in Life(c)!Live' : memories'[i].accessed = touched'[i] /\ touched'[i] <= time'
  BY <1>1, <1>3
<1> QED BY <1>1, <1>2, <1>4, <1>5, <1>6 DEF LInv

\* The invariant is inductive, and no step spoils what one may not.
LEMMA LNext ==
    ASSUME NEW c, Life(c)!ConstantsFit, LInv(c), Life(c)!Next
    PROVE  LInv(c)' /\ Life(c)!StepSpoilsNothing
<1>1. time \in 0..c.MaxTime /\ c.MaxTime \in Nat /\ time \in Nat
  BY DEF LInv, Life!ConstantsFit
<1>2. ASSUME NEW states \in BOOLEAN, NEW steps \in BOOLEAN, NEW bonus \in BOOLEAN, NEW reply \in Life(c)!Replies,
             Life(c)!Turn(states, steps, bonus, reply)
      PROVE  LInv(c)' /\ Life(c)!StepSpoilsNothing
  <2>1. LInv(c)'
    BY <1>2, LTurn
  <2> QED BY <1>2, <2>1 DEF Life!Turn, Life!StepSpoilsNothing, Life!OnlyEpisodesLapse, Life!IdleEpisodesLapse
<1>3. ASSUME Life(c)!Close PROVE LInv(c)' /\ Life(c)!StepSpoilsNothing
  <2>1. LInv(c)'
    BY <1>3, LClose
  <2> QED BY <1>3, <2>1 DEF Life!Close, Life!StepSpoilsNothing, Life!OnlyEpisodesLapse, Life!IdleEpisodesLapse
<1>4. ASSUME NEW text \in BOOLEAN, NEW read \in SUBSET Life(c)!Ids, Life(c)!Retrieve(text, read)
      PROVE  LInv(c)' /\ Life(c)!StepSpoilsNothing
  <2>1. read \in SUBSET Life(c)!Live
    BY <1>4 DEF Life!Retrieve, Life!Searched
  <2>2. /\ shown' = Life(c)!Ranked(read) /\ lapsed' = read \ Life(c)!Ranked(read)
        /\ Life(c)!Refresh(read) /\ touched' = [i \in Life(c)!Ids |-> IF i \in read THEN time ELSE touched[i]]
        /\ time' = time /\ session' = session /\ extracted' = extracted /\ turns' = turns /\ lost' = lost
    BY <1>4 DEF Life!Retrieve
  <2>3. Life(c)!Ranked(read) = {i \in read : ~Life(c)!AgedOut(memories[i])}
    BY DEF Life!Ranked
  <2>4. shown' \subseteq Life(c)!Live /\ lapsed' \subseteq Life(c)!Live
    BY <2>1, <2>2, <2>3
  <2>5. LInv(c)'
    BY <2>1, <2>2, <2>4, LRefresh
  <2>6. ASSUME NEW i \in read
        PROVE  /\ memories[i] \in Good(c) /\ memories[i].accessed = touched[i] /\ touched[i] <= time
               /\ memories[i].type \in {"episodic", "semantic", "procedural"} /\ touched[i] \in Nat
    <3>1. i \in Life(c)!Live /\ i \in Life(c)!Ids /\ memories[i] # None
      BY <2>1 DEF Life!Live, Life!Ids
    <3>2. memories[i] \in Good(c) /\ memories[i].accessed = touched[i] /\ touched[i] <= time /\ touched[i] \in 0..c.MaxTime
      BY <3>1 DEF LInv
    <3> QED BY <1>1, <3>2 DEF Good, Life!Row
  <2>7. \A i \in read : /\ Life(c)!AgedOut(memories[i]) => memories[i].type = "episodic" /\ ~memories[i].pinned
                        /\ memories[i].type = "episodic" /\ ~memories[i].pinned /\ time - memories[i].accessed >= Life(c)!Lasts(memories[i]) =>
                             Life(c)!AgedOut(memories[i])
    BY <1>1, <2>6, LEffective
  <2>8. \A i \in lapsed' : memories[i].type = "episodic" /\ ~memories[i].pinned
    BY <2>2, <2>3, <2>7
  <2>9. \A i \in shown' : memories[i].pinned \/ memories[i].type # "episodic" \/ time - touched[i] < Life(c)!Lasts(memories[i])
    <3> SUFFICES ASSUME NEW i \in shown', ~memories[i].pinned, memories[i].type = "episodic" PROVE time - touched[i] < Life(c)!Lasts(memories[i])
      OBVIOUS
    <3>1. i \in read /\ ~Life(c)!AgedOut(memories[i])
      BY <2>2, <2>3
    <3>2. ~(time - memories[i].accessed >= Life(c)!Lasts(memories[i])) /\ Life(c)!Lasts(memories[i]) \in {2, 3}
      BY <2>7, <3>1 DEF Life!Lasts
    <3> QED BY <1>1, <2>6, <3>1, <3>2
  <2> QED BY <2>5, <2>8, <2>9 DEF Life!StepSpoilsNothing, Life!OnlyEpisodesLapse, Life!IdleEpisodesLapse
<1>5. ASSUME NEW read \in SUBSET Life(c)!Ids, Life(c)!Browse(read) PROVE LInv(c)' /\ Life(c)!StepSpoilsNothing
  <2>1. read \in SUBSET Life(c)!Live
    BY <1>5 DEF Life!Browse, Life!Searched
  <2>2. /\ Life(c)!Refresh(read) /\ touched' = [i \in Life(c)!Ids |-> IF i \in read THEN time ELSE touched[i]]
        /\ time' = time /\ session' = session /\ extracted' = extracted /\ turns' = turns /\ lost' = lost
        /\ shown' = shown /\ lapsed' = lapsed
    BY <1>5 DEF Life!Browse
  <2>3. shown' \subseteq Life(c)!Live /\ lapsed' \subseteq Life(c)!Live
    BY <2>2 DEF LInv
  <2>4. LInv(c)'
    BY <2>1, <2>2, <2>3, LRefresh
  <2> QED BY <2>2, <2>4 DEF Life!StepSpoilsNothing, Life!OnlyEpisodesLapse, Life!IdleEpisodesLapse
<1>6. ASSUME NEW i \in Life(c)!Ids, Life(c)!Pin(i) PROVE LInv(c)' /\ Life(c)!StepSpoilsNothing
  <2>1. LInv(c)'
    BY <1>6, LPin
  <2> QED BY <1>6, <2>1 DEF Life!Pin, Life!StepSpoilsNothing, Life!OnlyEpisodesLapse, Life!IdleEpisodesLapse
<1>7. ASSUME Life(c)!Tick PROVE LInv(c)' /\ Life(c)!StepSpoilsNothing
  <2>1. /\ memories' = memories /\ session' = session /\ extracted' = extracted /\ lapsed' = lapsed /\ turns' = turns
        /\ lost' = lost /\ touched' = touched /\ shown' = {} /\ time < c.MaxTime /\ time' = time + 1
    BY <1>7 DEF Life!Tick
  <2>2. LInv(c)'
    BY <2>1, LSame
  <2> QED BY <2>1, <2>2 DEF Life!StepSpoilsNothing, Life!OnlyEpisodesLapse, Life!IdleEpisodesLapse
<1> QED BY <1>2, <1>3, <1>4, <1>5, <1>6, <1>7 DEF Life!Next

\* So it is where nothing happens.
LEMMA LStutter ==
    ASSUME NEW c, Life(c)!ConstantsFit, LInv(c), UNCHANGED <<v1, v2, v3, v4, v5, v6, v7, v8, v9, v10>>
    PROVE  LInv(c)' /\ Life(c)!StepSpoilsNothing
<1>1. /\ memories' = memories /\ session' = session /\ extracted' = extracted /\ lapsed' = lapsed /\ turns' = turns
      /\ lost' = lost /\ touched' = touched /\ shown' = shown /\ time' = time
  OBVIOUS
<1>2. LInv(c)'
  BY <1>1, LSame
<1> QED BY <1>1, <1>2 DEF Life!StepSpoilsNothing, Life!OnlyEpisodesLapse, Life!IdleEpisodesLapse

\* The first state.
LEMMA LInit ==
    ASSUME NEW c, Life(c)!ConstantsFit, Life(c)!Init
    PROVE  LInv(c)
<1>1. /\ memories = [i \in Life(c)!Ids |-> None] /\ time = 0 /\ session = TRUE /\ extracted = {} /\ shown = {} /\ lapsed = {}
      /\ turns = 0 /\ lost = 0 /\ touched = [i \in Life(c)!Ids |-> 0]
      /\ c.Count \in Nat /\ c.MaxTime \in Nat /\ c.MaxTurns \in Nat
  BY DEF Life!Init, Life!ConstantsFit
<1>2. Life(c)!Live = {}
  BY <1>1 DEF Life!Live, Life!Ids
<1>3. Owed = 0 /\ 0 \in 0..c.Count /\ 1..0 = {}
  BY <1>1 DEF Owed
<1>4. \E n \in 0..c.Count : Life(c)!Live = 1..n /\ (c.MinStore <= c.AgentCap /\ lost = 0 => Owed <= n)
  BY <1>2, <1>3
<1>5. memories \in [Life(c)!Ids -> Good(c) \cup {None}] /\ touched \in [Life(c)!Ids -> 0..c.MaxTime]
  BY <1>1
<1>6. time \in 0..c.MaxTime /\ turns \in 0..c.MaxTurns
  <2>1. time = 0 /\ turns = 0 /\ c.MaxTime \in Nat /\ c.MaxTurns \in Nat
    BY <1>1
  <2> QED BY <2>1
<1>7. /\ session \in BOOLEAN /\ lost \in 0..Owed
      /\ extracted \subseteq Life(c)!Live /\ Cardinality(Life(c)!Live \ extracted) <= lost
  <2>1. Life(c)!Live \ extracted = {} /\ Cardinality({}) = 0
    BY <1>2, FS_EmptySet
  <2> QED BY <1>1, <1>2, <1>3, <2>1
<1> QED BY <1>1, <1>2, <1>4, <1>5, <1>6, <1>7 DEF LInv

\* The invariant implies what an agent's memory promises.
LEMMA LHolds ==
    ASSUME NEW c, Life(c)!ConstantsFit, LInv(c)
    PROVE  Life(c)!TurnsRemembered
<1>1. Good(c) \subseteq Life(c)!Row
  BY DEF Good
<1>2. Life(c)!TypeOK /\ Life(c)!SessionListsItsOwn
  <2>1. memories \in [Life(c)!Ids -> Life(c)!Row \cup {None}]
    BY <1>1 DEF LInv
  <2>2. lost \in 0..c.MaxTurns + 1
    BY DEF LInv, Owed, Life!ConstantsFit
  <2>3. /\ extracted \subseteq Life(c)!Live /\ Cardinality(Life(c)!Live \ extracted) <= lost
        /\ shown \subseteq Life(c)!Live /\ lapsed \subseteq Life(c)!Live
        /\ time \in 0..c.MaxTime /\ turns \in 0..c.MaxTurns
    BY DEF LInv
  <2>4. Life(c)!SessionListsItsOwn
    BY <2>3 DEF Life!SessionListsItsOwn, Life!Cardinality, Cardinality
  <2>5. Life(c)!TypeOK
    BY <2>1, <2>2, <2>3 DEF Life!TypeOK
  <2> QED BY <2>4, <2>5
<1>3. c.MinStore <= c.AgentCap => Life(c)!TurnLeavesTrace
  <2>1. PICK n \in 0..c.Count : Life(c)!Live = 1..n /\ (c.MinStore <= c.AgentCap /\ lost = 0 => Owed <= n)
    BY DEF LInv
  <2>2. c.Count \in Nat /\ turns \in Nat /\ Owed \in Nat
    BY DEF Life!ConstantsFit, LInv, Owed
  <2>3. c.MinStore <= c.AgentCap /\ lost = 0 => 1..Owed \subseteq 1..n
    BY <2>1, <2>2
  <2> QED BY <2>1, <2>3 DEF Life!TurnLeavesTrace, Owed
<1>4. c.AgentCap >= Life(c)!DefaultCap => Life(c)!AgentCapped
  <2>1. ASSUME NEW i \in Life(c)!Live PROVE memories[i] \in Good(c)
    BY <2>1 DEF LInv, Life!Live
  <2> QED BY <2>1 DEF Life!AgentCapped, Life!DefaultCap, Good
<1> QED BY <1>2, <1>3, <1>4 DEF Life!TurnsRemembered

----------------------------------------
(* MemoryCommands.  What was reported as forgotten stays so; what a command *)
(* carries is of its step (Carries), and is up to date where one command *)
(* runs after the other (Current). *)

store == v1
registry == v2
out == v3
litter == v4
proc == v5
told == v6
listed == v7
USE DEF store, registry, out, litter, proc, told, listed

Registry(c) == [names : SUBSET c.Names, budgets : {"old", "new", "corrupt"}]

Process(c) == [at : {"idle", "confirm", "find", "delete", "save", "check", "write", "replace"},
               id : c.Ids \cup {None}, hard : BOOLEAN, yes : BOOLEAN, tier : {"private", "global", None},
               name : c.Names \cup {None}, read : Registry(c) \cup {None}, ours : (SUBSET c.Ids) \cup {None}]

\* What a command carries from one of its steps to the next.
Carries(c, r) ==
    /\ r.at \in {"confirm", "find", "delete"} => r.id \in c.Ids
    /\ r.at = "delete" => r.tier = "private"
    /\ r.at = "save" => r.name \in c.Names /\ r.read \in Registry(c)
    /\ r.at \in {"check", "write", "replace"} => r.ours \in SUBSET c.Ids

CTypes(c) ==
    /\ store \in [{"private", "global"} -> [c.Ids -> {"none", "live", "archived"}]]
    /\ registry \in Registry(c) /\ out \in (SUBSET c.Ids) \cup {None} /\ litter \in BOOLEAN
    /\ proc \in [c.Procs -> Process(c)] /\ \A p \in c.Procs : Carries(c, proc[p])
    /\ told \in [c.Ids -> {None, "deleted", "archived", "pruned"}] /\ listed \subseteq c.Names
    /\ litter => (\E p \in c.Procs : proc[p].at = "replace") \/ "crash" \in c.Faults

\* Where one command runs after the other, it saves what the registry lists; and
\* where nobody else acts meanwhile, what it read and looked at is still so.
Current(c, r) ==
    Commands(c)!OneAtATime =>
        /\ r.at = "save" => listed \subseteq r.read.names
        /\ "meanwhile" \notin c.Others =>
             /\ r.at = "save" => r.read = registry
             /\ r.at \in {"write", "replace"} => r.yes \/ out = None

CInv(c) ==
    /\ CTypes(c) /\ Commands(c)!ForgottenStays
    /\ Commands(c)!OneAtATime => listed \subseteq registry.names
    /\ \A p \in c.Procs : Current(c, proc[p])

\* What an idle command carries.
LEMMA CIdle ==
    ASSUME NEW c
    PROVE  /\ Commands(c)!Idle \in Process(c) /\ Commands(c)!Idle.at = "idle"
           /\ Carries(c, Commands(c)!Idle) /\ Current(c, Commands(c)!Idle)
<1>1. Commands(c)!Idle \in Process(c)
  BY DEF Commands!Idle, Process
<1>2. Commands(c)!Idle.at = "idle"
  BY DEF Commands!Idle
<1> QED BY <1>1, <1>2 DEF Carries, Current

\* The first state.
LEMMA CInit == ASSUME NEW c, Commands(c)!ConstantsFit, Commands(c)!Init PROVE CInv(c)
<1>1. CTypes(c)
  BY CIdle DEF Commands!Init, CTypes, Registry, Commands!Tiers
<1>2. Commands(c)!ForgottenStays
  BY DEF Commands!Init, Commands!ConstantsFit, Commands!ForgottenStays
<1>3. \A p \in c.Procs : Current(c, proc[p])
  BY CIdle DEF Commands!Init
<1> QED BY <1>1, <1>2, <1>3 DEF Commands!Init, CInv

\* A step of a command that touches neither the memory nor the files.
LEMMA CMoves ==
    ASSUME NEW c, Commands(c)!ConstantsFit, CInv(c), NEW p \in c.Procs, NEW r \in Process(c), Carries(c, r), Current(c, r),
           Commands(c)!Goto(p, r), UNCHANGED <<store, told, registry, out, listed>>, litter' \in BOOLEAN,
           litter' => r.at = "replace" \/ (litter /\ proc[p].at # "replace") \/ "crash" \in c.Faults
    PROVE  CInv(c)'
<1>1. proc' \in [c.Procs -> Process(c)] /\ proc'[p] = r /\ \A q \in c.Procs : q # p => proc'[q] = proc[q]
  BY DEF CInv, CTypes, Commands!Goto
<1>2. \A q \in c.Procs : Carries(c, proc'[q])
  BY <1>1 DEF CInv, CTypes
<1>3. litter' => (\E q \in c.Procs : proc'[q].at = "replace") \/ "crash" \in c.Faults
  BY <1>1 DEF CInv, CTypes
<1>4. CTypes(c)'
  BY <1>1, <1>2, <1>3 DEF CInv, CTypes
<1>5. Commands(c)!ForgottenStays'
  BY DEF CInv, Commands!ForgottenStays
<1>6. \A q \in c.Procs : Current(c, proc'[q])
  BY <1>1 DEF CInv
<1>7. \A q \in c.Procs : Current(c, proc[q])'
  BY <1>6 DEF Current, Commands!OneAtATime
<1>8. (Commands(c)!OneAtATime => listed \subseteq registry.names)'
  BY DEF CInv, Commands!OneAtATime
<1> QED BY <1>4, <1>5, <1>7, <1>8 DEF CInv

\* The steps that change no entry, registry or target file.
LEMMA CQuietStep ==
    ASSUME NEW c, Commands(c)!ConstantsFit, CInv(c), NEW p \in c.Procs,
           \/ Commands(c)!Look(p) \/ Commands(c)!Confirm(p) \/ Commands(c)!Find(p) \/ Commands(c)!Load(p)
           \/ Commands(c)!Browse(p) \/ Commands(c)!Check(p) \/ Commands(c)!WriteTemp(p)
           \/ Commands(c)!DiskFails(p) \/ Commands(c)!Crash(p)
    PROVE  CInv(c)'
<1>0. proc[p] \in Process(c) /\ Carries(c, proc[p]) /\ Current(c, proc[p])
  BY DEF CInv, CTypes
<1> DEFINE Same == UNCHANGED <<store, told, registry, out, listed>>
\* A step that leaves the temporary file alone, too.
<1>1. ASSUME NEW r \in Process(c), Carries(c, r), Current(c, r), Commands(c)!Goto(p, r), Same, litter' = litter,
             proc[p].at # "replace" \/ "crash" \in c.Faults
      PROVE  CInv(c)'
  BY <1>1, CMoves DEF CInv, CTypes
<1>2. CASE Commands(c)!Look(p)
  <2>1. PICK i \in c.Ids, hard \in BOOLEAN : Commands(c)!Goto(p, [Commands(c)!Idle EXCEPT !.at = "confirm", !.id = i, !.hard = hard])
    BY <1>2 DEF Commands!Look
  <2> DEFINE r == [Commands(c)!Idle EXCEPT !.at = "confirm", !.id = i, !.hard = hard]
  <2>2. r \in Process(c) /\ r.at = "confirm" /\ r.id = i
    BY DEF Commands!Idle, Process
  <2>3. Commands(c)!Goto(p, r) /\ Same /\ litter' = litter /\ proc[p].at = "idle"
    BY <1>2, <2>1 DEF Commands!Look, Commands!files, Commands!memory, Commands!Step
  <2> HIDE DEF r
  <2>4. Carries(c, r) /\ Current(c, r)
    BY <2>2 DEF Carries, Current
  <2> QED BY <1>1, <2>2, <2>3, <2>4
<1>3. CASE Commands(c)!Confirm(p)
  <2> DEFINE r == [proc[p] EXCEPT !.at = "find"]
  <2>1. r \in Process(c) /\ r.at = "find" /\ r.id = proc[p].id
    BY <1>0 DEF Process
  <2>2. Commands(c)!Goto(p, r) \/ Commands(c)!Goto(p, Commands(c)!Idle)
    BY <1>3 DEF Commands!Confirm
  <2>3. Same /\ litter' = litter /\ proc[p].at = "confirm"
    BY <1>3 DEF Commands!Confirm, Commands!files, Commands!memory, Commands!Step
  <2> HIDE DEF r
  <2>4. Carries(c, r) /\ Current(c, r)
    BY <1>0, <2>1, <2>3 DEF Carries, Current
  <2> QED BY <1>1, <2>1, <2>2, <2>3, <2>4, CIdle
<1>4. CASE Commands(c)!Find(p)
  <2> DEFINE r == [proc[p] EXCEPT !.at = "delete", !.tier = Commands(c)!Owner(proc[p].id)]
  <2>1. CASE Commands(c)!Owner(proc[p].id) = "private" /\ Commands(c)!Goto(p, r)
    <3>1. r \in Process(c) /\ r.at = "delete" /\ r.id = proc[p].id /\ r.tier = "private"
      BY <1>0, <2>1 DEF Process
    <3>2. Commands(c)!Goto(p, r)
      BY <2>1
    <3>3. Same /\ litter' = litter /\ proc[p].at = "find"
      BY <1>4 DEF Commands!Find, Commands!files, Commands!memory, Commands!Step
    <3> HIDE DEF r
    <3>4. Carries(c, r) /\ Current(c, r)
      BY <1>0, <3>1, <3>3 DEF Carries, Current
    <3> QED BY <1>1, <3>1, <3>2, <3>3, <3>4
  <2>2. CASE Commands(c)!Goto(p, Commands(c)!Idle)
    <3>1. Same /\ litter' = litter /\ proc[p].at = "find"
      BY <1>4 DEF Commands!Find, Commands!files, Commands!memory, Commands!Step
    <3> QED BY <1>1, <2>2, <3>1, CIdle
  <2> QED BY <1>4, <2>1, <2>2 DEF Commands!Find, Commands!Deletable
<1>5. CASE Commands(c)!Load(p)
  <2>1. PICK n \in c.Names : Commands(c)!Goto(p, [Commands(c)!Idle EXCEPT !.at = "save", !.name = n, !.read = registry])
    BY <1>5 DEF Commands!Load
  <2> DEFINE r == [Commands(c)!Idle EXCEPT !.at = "save", !.name = n, !.read = registry]
  <2>2. registry \in Registry(c)
    BY DEF CInv, CTypes
  <2>3. r \in Process(c) /\ r.at = "save" /\ r.name = n /\ r.read = registry
    BY <2>2 DEF Commands!Idle, Process
  <2>4. Commands(c)!Goto(p, r) /\ Same /\ litter' = litter /\ proc[p].at = "idle"
    BY <1>5, <2>1 DEF Commands!Load, Commands!files, Commands!memory, Commands!Step
  <2> HIDE DEF r
  <2>5. Carries(c, r) /\ Current(c, r)
    BY <2>2, <2>3 DEF CInv, Carries, Current
  <2> QED BY <1>1, <2>3, <2>4, <2>5
<1>6. CASE Commands(c)!Browse(p)
  <2> DEFINE mine == {i \in c.Ids : store["private"][i] = "live"}
  <2>1. PICK yes \in BOOLEAN : Commands(c)!Goto(p, [Commands(c)!Idle EXCEPT !.at = "check", !.yes = yes, !.ours = mine])
    BY <1>6 DEF Commands!Browse
  <2> DEFINE r == [Commands(c)!Idle EXCEPT !.at = "check", !.yes = yes, !.ours = mine]
  <2>2. mine \in SUBSET c.Ids
    OBVIOUS
  <2> HIDE DEF mine
  <2>3. r \in Process(c) /\ r.at = "check" /\ r.ours = mine
    BY <2>2 DEF Commands!Idle, Process
  <2>4. Commands(c)!Goto(p, r) /\ Same /\ litter' = litter /\ proc[p].at = "idle"
    BY <1>6, <2>1 DEF Commands!Browse, Commands!files, Commands!memory, Commands!Step
  <2> HIDE DEF r
  <2>5. Carries(c, r) /\ Current(c, r)
    BY <2>2, <2>3 DEF Carries, Current
  <2> QED BY <1>1, <2>3, <2>4, <2>5
<1>7. CASE Commands(c)!Check(p)
  <2>1. Same /\ litter' = litter /\ proc[p].at = "check"
    BY <1>7 DEF Commands!Check, Commands!files, Commands!memory, Commands!Step
  <2> DEFINE r == [proc[p] EXCEPT !.at = "write"]
  <2>2. r \in Process(c) /\ r.at = "write" /\ r.ours = proc[p].ours /\ r.yes = proc[p].yes
    BY <1>0 DEF Process
  <2>3. ((out = None \/ proc[p].yes) /\ Commands(c)!Goto(p, r)) \/ Commands(c)!Goto(p, Commands(c)!Idle)
    BY <1>7 DEF Commands!Check, Commands!MayWrite
  <2> HIDE DEF r
  <2>4. Carries(c, r)
    BY <1>0, <2>1, <2>2 DEF Carries
  <2>5. out = None \/ proc[p].yes => Current(c, r)
    BY <2>2 DEF Current
  <2> QED BY <1>1, <2>1, <2>2, <2>3, <2>4, <2>5, CIdle
<1>8. CASE Commands(c)!WriteTemp(p)
  <2> DEFINE r == [proc[p] EXCEPT !.at = "replace"]
  <2>1. r \in Process(c) /\ r.at = "replace" /\ r.ours = proc[p].ours /\ r.yes = proc[p].yes
    BY <1>0 DEF Process
  <2>2. Commands(c)!Goto(p, r) /\ Same /\ litter' = TRUE /\ proc[p].at = "write"
    BY <1>8 DEF Commands!WriteTemp, Commands!memory, Commands!Step
  <2> HIDE DEF r
  <2>3. Carries(c, r) /\ Current(c, r)
    BY <1>0, <2>1, <2>2 DEF Carries, Current
  <2> QED BY <2>1, <2>2, <2>3, CMoves
<1>9. CASE Commands(c)!DiskFails(p)
  <2>1. Same /\ Commands(c)!Goto(p, Commands(c)!Idle) /\ litter' \in BOOLEAN /\ (litter' => litter /\ proc[p].at # "replace")
    BY <1>9 DEF Commands!DiskFails, Commands!memory, Commands!Step, Commands!TempLeft, CInv, CTypes
  <2> QED BY <2>1, CMoves, CIdle
<1>10. CASE Commands(c)!Crash(p)
  <2>1. Same /\ Commands(c)!Goto(p, Commands(c)!Idle) /\ litter' = litter /\ "crash" \in c.Faults
    BY <1>10 DEF Commands!Crash, Commands!memory, Commands!files
  <2> QED BY <1>1, <2>1, CIdle
<1> QED BY <1>2, <1>3, <1>4, <1>5, <1>6, <1>7, <1>8, <1>9, <1>10

\* A command that ends with its step: it was not the one that has a temporary file, or that file goes.
LEMMA CEnds ==
    ASSUME NEW c, CInv(c), NEW p \in c.Procs, Commands(c)!Goto(p, Commands(c)!Idle),
           (proc[p].at # "replace" /\ litter' = litter) \/ litter' = FALSE
    PROVE  /\ proc' \in [c.Procs -> Process(c)] /\ litter' \in BOOLEAN
           /\ \A q \in c.Procs : Carries(c, proc'[q]) /\ Current(c, proc'[q])
           /\ litter' => (\E q \in c.Procs : proc'[q].at = "replace") \/ "crash" \in c.Faults
           /\ \A q \in c.Procs : q # p => proc'[q] = proc[q]
           /\ proc'[p].at = "idle"
<1>1. /\ proc' \in [c.Procs -> Process(c)] /\ proc'[p] = Commands(c)!Idle
      /\ \A q \in c.Procs : q # p => proc'[q] = proc[q]
  BY CIdle DEF CInv, CTypes, Commands!Goto
<1>2. \A q \in c.Procs : Carries(c, proc'[q]) /\ Current(c, proc'[q])
  BY <1>1, CIdle DEF CInv, CTypes
<1>3. litter' => (\E q \in c.Procs : proc'[q].at = "replace") \/ "crash" \in c.Faults
  BY <1>1 DEF CInv, CTypes
<1>4. litter' \in BOOLEAN /\ proc'[p].at = "idle"
  BY <1>1, CIdle DEF CInv, CTypes
<1> QED BY <1>1, <1>2, <1>3, <1>4

\* The delete takes only an entry of the agent, and reports what it did.
LEMMA CDeleteStep ==
    ASSUME NEW c, Commands(c)!ConstantsFit, CInv(c), NEW p \in c.Procs, Commands(c)!Delete(p)
    PROVE  CInv(c)' /\ Commands(c)!StepSpoilsNothing
<1>1. proc[p].tier = "private" /\ proc[p].id \in c.Ids /\ proc[p].hard \in BOOLEAN
  BY DEF CInv, CTypes, Carries, Process, Commands!Delete, Commands!Step
<1> DEFINE id == proc[p].id
           had == store["private"][id]
           left == Commands(c)!Left(had, proc[p].hard)
           tells == IF proc[p].hard THEN "deleted" ELSE "archived"
<1>2. /\ store' = [store EXCEPT !["private"][id] = left]
      /\ told' = IF had = "none" THEN told ELSE [told EXCEPT ![id] = tells]
      /\ Commands(c)!Goto(p, Commands(c)!Idle) /\ proc[p].at = "delete" /\ UNCHANGED <<registry, out, litter, listed>>
  BY <1>1 DEF Commands!Delete, Commands!files, Commands!Step
<1>3. had \in {"none", "live", "archived"}
  BY <1>1 DEF CInv, CTypes
<1>4. left \in {"none", "archived"} /\ (proc[p].hard => left = "none") /\ (had = "none" => left = "none")
  BY DEF Commands!Left
<1>5. tells \in {"deleted", "archived"} /\ (tells = "deleted" => proc[p].hard)
  BY <1>1
<1> HIDE DEF left, tells
<1>6. /\ store' \in [{"private", "global"} -> [c.Ids -> {"none", "live", "archived"}]]
      /\ store'["global"] = store["global"]
      /\ \A i \in c.Ids : store'["private"][i] = IF i = id THEN left ELSE store["private"][i]
  <2> DEFINE mine == [store["private"] EXCEPT ![id] = left]
  <2>1. store' = [store EXCEPT !["private"] = mine]
    BY <1>2
  <2>2. mine \in [c.Ids -> {"none", "live", "archived"}] /\ \A i \in c.Ids : mine[i] = IF i = id THEN left ELSE store["private"][i]
    BY <1>1, <1>4 DEF CInv, CTypes
  <2> HIDE DEF mine
  <2> QED BY <2>1, <2>2 DEF CInv, CTypes
<1>7. /\ told' \in [c.Ids -> {None, "deleted", "archived", "pruned"}]
      /\ \A i \in c.Ids : i # id \/ had = "none" => told'[i] = told[i]
      /\ had # "none" => told'[id] = tells
  BY <1>1, <1>2, <1>5 DEF CInv, CTypes
<1>8. /\ proc' \in [c.Procs -> Process(c)] /\ litter' \in BOOLEAN
      /\ \A q \in c.Procs : Carries(c, proc'[q]) /\ Current(c, proc'[q])
      /\ litter' => (\E q \in c.Procs : proc'[q].at = "replace") \/ "crash" \in c.Faults
  BY <1>2, CEnds
<1>9. CTypes(c)'
  BY <1>2, <1>6, <1>7, <1>8 DEF CInv, CTypes
<1>10. Commands(c)!ForgottenStays'
  BY <1>3, <1>4, <1>5, <1>6, <1>7 DEF CInv, Commands!ForgottenStays
<1>11. \A q \in c.Procs : Current(c, proc[q])'
  BY <1>2, <1>8 DEF Current, Commands!OneAtATime
<1>12. CInv(c)'
  BY <1>2, <1>9, <1>10, <1>11 DEF CInv, Commands!OneAtATime
<1>13. Commands(c)!StepSpoilsNothing
  BY <1>2, <1>6 DEF Commands!StepSpoilsNothing, Commands!GlobalKept, Commands!BudgetsKept, Commands!NeverClobbers
<1> QED BY <1>12, <1>13

\* The registry is saved with what was loaded and the new name.
LEMMA CSaveStep ==
    ASSUME NEW c, Commands(c)!ConstantsFit, CInv(c), NEW p \in c.Procs, Commands(c)!Save(p)
    PROVE  CInv(c)' /\ Commands(c)!StepSpoilsNothing
<1>1. /\ registry' = Commands(c)!Rewritten(proc[p].read, proc[p].name) /\ listed' = listed \cup {proc[p].name}
      /\ Commands(c)!Goto(p, Commands(c)!Idle) /\ proc[p].at = "save" /\ UNCHANGED <<store, told, out, litter>>
  BY DEF Commands!Save, Commands!memory, Commands!Step
<1>2. proc[p].name \in c.Names /\ proc[p].read \in Registry(c)
  BY <1>1 DEF CInv, CTypes, Carries
<1>3. /\ registry' \in Registry(c) /\ registry'.names = proc[p].read.names \cup {proc[p].name}
      /\ registry'.budgets = proc[p].read.budgets
  BY <1>1, <1>2 DEF Commands!Rewritten, Registry
<1>4. /\ proc' \in [c.Procs -> Process(c)] /\ \A q \in c.Procs : Carries(c, proc'[q])
      /\ litter' => (\E q \in c.Procs : proc'[q].at = "replace") \/ "crash" \in c.Faults
      /\ litter' \in BOOLEAN /\ proc'[p].at = "idle"
  BY <1>1, CEnds
<1>5. CTypes(c)'
  BY <1>1, <1>2, <1>3, <1>4 DEF CInv, CTypes
<1>6. Commands(c)!ForgottenStays'
  BY <1>1 DEF CInv, Commands!ForgottenStays
<1>7. Commands(c)!OneAtATime => listed' \subseteq registry'.names
  BY <1>1, <1>3 DEF CInv, Current
<1>8. \A q \in c.Procs : Current(c, proc[q])'
  BY <1>4 DEF Current, Commands!OneAtATime
<1>9. CInv(c)'
  BY <1>5, <1>6, <1>7, <1>8 DEF CInv, Commands!OneAtATime
<1>10. Commands(c)!OneAtATime /\ "meanwhile" \notin c.Others => registry'.budgets = registry.budgets
  BY <1>1, <1>3 DEF CInv, Current
<1> QED BY <1>1, <1>9, <1>10 DEF Commands!StepSpoilsNothing, Commands!GlobalKept, Commands!BudgetsKept, Commands!NeverClobbers

\* The target is replaced by what the command wrote.
LEMMA CReplaceStep ==
    ASSUME NEW c, Commands(c)!ConstantsFit, CInv(c), NEW p \in c.Procs, Commands(c)!Replace(p)
    PROVE  CInv(c)' /\ Commands(c)!StepSpoilsNothing
<1>1. /\ out' = proc[p].ours /\ litter' = FALSE /\ proc[p].at = "replace"
      /\ Commands(c)!Goto(p, Commands(c)!Idle) /\ UNCHANGED <<store, told, registry, listed>>
  BY DEF Commands!Replace, Commands!memory, Commands!Step
<1>2. proc[p].ours \in SUBSET c.Ids
  BY <1>1 DEF CInv, CTypes, Carries
<1>3. /\ proc' \in [c.Procs -> Process(c)] /\ \A q \in c.Procs : Carries(c, proc'[q])
      /\ proc'[p].at = "idle"
  BY <1>1, CEnds
<1>4. CTypes(c)'
  BY <1>1, <1>2, <1>3 DEF CInv, CTypes
<1>5. Commands(c)!ForgottenStays'
  BY <1>1 DEF CInv, Commands!ForgottenStays
<1>6. Commands(c)!OneAtATime => \A q \in c.Procs : proc'[q].at = "idle"
  BY <1>3 DEF Commands!OneAtATime
<1>7. \A q \in c.Procs : Current(c, proc[q])'
  BY <1>6 DEF Current, Commands!OneAtATime
<1>8. CInv(c)'
  BY <1>1, <1>4, <1>5, <1>7 DEF CInv, Commands!OneAtATime
<1>9. proc'[p] # proc[p]
  BY <1>1, <1>3
<1>10. Commands(c)!OneAtATime /\ "meanwhile" \notin c.Others => proc[p].yes \/ out = None
  BY <1>1 DEF CInv, Current
<1> QED BY <1>1, <1>8, <1>9, <1>10 DEF Commands!StepSpoilsNothing, Commands!GlobalKept, Commands!BudgetsKept, Commands!NeverClobbers

\* The others write, prune, set budgets and edit.
LEMMA COthersStep ==
    ASSUME NEW c, Commands(c)!ConstantsFit, CInv(c),
           \/ \E i \in c.Ids : Commands(c)!Remember(i) \/ \E t \in {"private", "global"} : Commands(c)!Prune(t, i)
           \/ Commands(c)!EditBudgets \/ Commands(c)!EditOut
    PROVE  CInv(c)' /\ Commands(c)!StepSpoilsNothing
<1>0. proc' = proc
  BY DEF Commands!Remember, Commands!Prune, Commands!EditBudgets, Commands!EditOut
\* What others do to the memory.
<1>1. ASSUME NEW i \in c.Ids, UNCHANGED <<registry, out, litter, listed>>,
             store' \in [{"private", "global"} -> [c.Ids -> {"none", "live", "archived"}]],
             told' \in [c.Ids -> {None, "deleted", "archived", "pruned"}],
             \A k \in c.Ids : k # i => told'[k] = told[k] /\ \A t \in {"private", "global"} : store'[t][k] = store[t][k],
             told'[i] \in {None, "pruned"}
      PROVE  CInv(c)'
  <2>1. CTypes(c)'
    BY <1>0, <1>1 DEF CInv, CTypes
  <2>2. Commands(c)!ForgottenStays'
    BY <1>1 DEF CInv, Commands!ForgottenStays, Commands!ConstantsFit
  <2>3. \A q \in c.Procs : Current(c, proc[q])'
    BY <1>0, <1>1 DEF CInv, Current, Commands!OneAtATime
  <2> QED BY <1>1, <2>1, <2>2, <2>3 DEF CInv, Commands!OneAtATime
<1>2. ASSUME NEW i \in c.Ids, Commands(c)!Remember(i) PROVE CInv(c)' /\ Commands(c)!StepSpoilsNothing
  <2>1. /\ told[i] = None /\ \A t \in {"private", "global"} : store[t][i] = "none"
        /\ UNCHANGED <<registry, out, litter, listed, proc, told>>
        /\ \/ store' = [store EXCEPT !["private"][i] = "live"]
           \/ store' = [t \in {"private", "global"} |-> [store[t] EXCEPT ![i] = "live"]]
    BY <1>2 DEF Commands!Remember, Commands!files, Commands!Tiers
  <2>2. /\ store' \in [{"private", "global"} -> [c.Ids -> {"none", "live", "archived"}]]
        /\ \A k \in c.Ids : k # i => \A t \in {"private", "global"} : store'[t][k] = store[t][k]
    <3> DEFINE mine(t) == [store[t] EXCEPT ![i] = "live"]
    <3>1. \A t \in {"private", "global"} : mine(t) \in [c.Ids -> {"none", "live", "archived"}] /\ \A k \in c.Ids : k # i => mine(t)[k] = store[t][k]
      BY DEF CInv, CTypes
    <3>2. store' = [store EXCEPT !["private"] = mine("private")] \/ store' = [t \in {"private", "global"} |-> mine(t)]
      BY <2>1
    <3> HIDE DEF mine
    <3> QED BY <3>1, <3>2 DEF CInv, CTypes
  <2>3. CInv(c)'
    BY <1>1, <2>1, <2>2 DEF CInv, CTypes
  <2>4. \A k \in c.Ids : store'["global"][k] # store["global"][k] => store["global"][k] = "none"
    BY <2>1, <2>2
  <2> QED BY <1>0, <2>1, <2>3, <2>4 DEF Commands!StepSpoilsNothing, Commands!GlobalKept, Commands!BudgetsKept, Commands!NeverClobbers
<1>3. ASSUME NEW t \in {"private", "global"}, NEW i \in c.Ids, Commands(c)!Prune(t, i)
      PROVE  CInv(c)' /\ Commands(c)!StepSpoilsNothing
  <2>1. /\ store' = [store EXCEPT ![t][i] = "none"] /\ told' = [told EXCEPT ![i] = "pruned"]
        /\ UNCHANGED <<registry, out, litter, listed, proc>>
    BY <1>3 DEF Commands!Prune, Commands!files
  <2>2. /\ told' \in [c.Ids -> {None, "deleted", "archived", "pruned"}] /\ told'[i] = "pruned"
        /\ \A k \in c.Ids : k # i => told'[k] = told[k]
    BY <2>1 DEF CInv, CTypes
  <2>3. /\ store' \in [{"private", "global"} -> [c.Ids -> {"none", "live", "archived"}]]
        /\ \A k \in c.Ids : k # i => \A u \in {"private", "global"} : store'[u][k] = store[u][k]
    <3> DEFINE mine == [store[t] EXCEPT ![i] = "none"]
    <3>1. mine \in [c.Ids -> {"none", "live", "archived"}] /\ \A k \in c.Ids : k # i => mine[k] = store[t][k]
      BY DEF CInv, CTypes
    <3>2. store' = [store EXCEPT ![t] = mine]
      BY <2>1
    <3> HIDE DEF mine
    <3> QED BY <3>1, <3>2 DEF CInv, CTypes
  <2>4. CInv(c)'
    BY <1>1, <2>1, <2>2, <2>3
  <2>5. \A k \in c.Ids : store'["global"][k] # store["global"][k] => told'[k] = "pruned"
    BY <2>2, <2>3
  <2> QED BY <2>1, <2>4, <2>5 DEF Commands!StepSpoilsNothing, Commands!GlobalKept, Commands!BudgetsKept, Commands!NeverClobbers
\* The user's editor: a budget changes, or nothing is listed any more.
<1>4. CASE Commands(c)!EditBudgets
  <2>1. /\ UNCHANGED <<store, told, out, litter, proc>>
        /\ \/ registry' = [registry EXCEPT !.budgets = "new"] /\ listed' \in {{}, listed}
           \/ registry' = Commands(c)!Corrupt /\ listed' = {}
        /\ "meanwhile" \in c.Others \/ \A p \in c.Procs : proc[p].at = "idle"
    BY <1>4 DEF Commands!EditBudgets, Commands!memory, Commands!MayAct
  <2>2. registry' \in Registry(c) /\ (registry'.names = registry.names \/ listed' = {}) /\ listed' \subseteq listed
    BY <2>1 DEF CInv, CTypes, Registry, Commands!Corrupt
  <2>3. CTypes(c)'
    BY <2>1, <2>2 DEF CInv, CTypes
  <2>4. Commands(c)!ForgottenStays'
    BY <2>1 DEF CInv, Commands!ForgottenStays
  <2>5. \A q \in c.Procs : Current(c, proc[q])'
    BY <2>1, <2>2 DEF CInv, Current, Commands!OneAtATime
  <2>6. CInv(c)'
    BY <2>2, <2>3, <2>4, <2>5 DEF CInv, Commands!OneAtATime
  <2> QED BY <2>1, <2>6 DEF Commands!StepSpoilsNothing, Commands!GlobalKept, Commands!BudgetsKept, Commands!NeverClobbers
<1>5. CASE Commands(c)!EditOut
  <2>1. /\ UNCHANGED <<store, told, registry, litter, proc, listed>> /\ out' = {} /\ out = None
        /\ "meanwhile" \in c.Others \/ \A p \in c.Procs : proc[p].at = "idle"
    BY <1>5 DEF Commands!EditOut, Commands!memory, Commands!MayAct
  <2>2. CTypes(c)'
    BY <2>1 DEF CInv, CTypes
  <2>3. Commands(c)!ForgottenStays'
    BY <2>1 DEF CInv, Commands!ForgottenStays
  <2>4. \A q \in c.Procs : Current(c, proc[q])'
    BY <2>1 DEF CInv, Current, Commands!OneAtATime
  <2>5. CInv(c)'
    BY <2>1, <2>2, <2>3, <2>4 DEF CInv, Commands!OneAtATime
  <2> QED BY <2>1, <2>5 DEF Commands!StepSpoilsNothing, Commands!GlobalKept, Commands!BudgetsKept, Commands!NeverClobbers
<1> QED BY <1>2, <1>3, <1>4, <1>5

\* The invariant is inductive, and no step spoils what one may not.
LEMMA CStep ==
    ASSUME NEW c, Commands(c)!ConstantsFit, CInv(c), [Commands(c)!Next]_(Commands(c)!vars)
    PROVE  CInv(c)' /\ Commands(c)!StepSpoilsNothing
<1>1. ASSUME UNCHANGED <<store, registry, out>> PROVE Commands(c)!StepSpoilsNothing
  BY <1>1 DEF Commands!StepSpoilsNothing, Commands!GlobalKept, Commands!BudgetsKept, Commands!NeverClobbers
<1>2. CASE UNCHANGED Commands(c)!vars
  <2>1. UNCHANGED <<store, registry, out, litter, proc, told, listed>>
    BY <1>2 DEF Commands!vars
  <2>2. CInv(c)'
    BY <2>1 DEF CInv, CTypes, Commands!ForgottenStays, Current, Commands!OneAtATime
  <2> QED BY <1>1, <2>1, <2>2
<1>3. ASSUME NEW p \in c.Procs,
             \/ Commands(c)!Look(p) \/ Commands(c)!Confirm(p) \/ Commands(c)!Find(p) \/ Commands(c)!Load(p)
             \/ Commands(c)!Browse(p) \/ Commands(c)!Check(p) \/ Commands(c)!WriteTemp(p)
             \/ Commands(c)!DiskFails(p) \/ Commands(c)!Crash(p)
      PROVE  CInv(c)' /\ Commands(c)!StepSpoilsNothing
  <2>1. UNCHANGED <<store, registry, out>>
    BY <1>3 DEF Commands!Look, Commands!Confirm, Commands!Find, Commands!Load, Commands!Browse, Commands!Check,
         Commands!WriteTemp, Commands!DiskFails, Commands!Crash, Commands!memory, Commands!files
  <2> QED BY <1>1, <1>3, <2>1, CQuietStep
<1> QED BY <1>2, <1>3, CDeleteStep, CSaveStep, CReplaceStep, COthersStep DEF Commands!Next, Commands!Tiers

\* The invariant implies what the commands promise.
LEMMA CHolds == ASSUME NEW c, Commands(c)!ConstantsFit, CInv(c) PROVE Commands(c)!ReportsHold
<1>1. Commands(c)!TypeOK
  <2>1. registry.names \subseteq c.Names /\ registry.budgets \in {"old", "new", "corrupt"}
    BY DEF CInv, CTypes, Registry
  <2>2. litter => (\E p \in c.Procs : proc[p].at = "replace") \/ "crash" \in c.Faults
    BY DEF CInv, CTypes
  <2>3. out \in (SUBSET c.Ids) \cup {None} /\ listed \subseteq c.Names
    BY DEF CInv, CTypes
  <2>4. store \in [{"private", "global"} -> [c.Ids -> {"none", "live", "archived"}]]
        /\ told \in [c.Ids -> {None, "deleted", "archived", "pruned"}]
    BY DEF CInv, CTypes
  <2> HIDE DEF store, registry, out, litter, proc, told, listed
  <2> QED BY <2>1, <2>2, <2>3, <2>4 DEF Commands!TypeOK, Commands!Tiers, Commands!States, Commands!Budgets, Commands!Step,
        store, registry, out, litter, proc, told, listed
<1> QED BY <1>1 DEF CInv, Commands!ReportsHold, Commands!ConnectedStays

----------------------------------------
(* FederationUpkeep.  A leg that is done has removed what it counts *)
(* (UGone); unless a prune failed, no leg is under way while the walk *)
(* closes, and what it has passed is shut (UWalk). *)

held == v1
leg == v2
removed == v3
prune == v4
counted == v5
closer == v6
USE DEF held, leg, removed, prune, counted, closer

UTypes(c) ==
    /\ held \in [Upkeep(c)!Tiers -> BOOLEAN]
    /\ leg \in [Upkeep(c)!Tiers -> {"none", "opening", "removing", "removed", "done", "failed"}]
    /\ \A t \in Upkeep(c)!Tiers \ c.Prunable : leg[t] = "none"
    /\ removed \subseteq c.Prunable /\ counted \subseteq c.Prunable
    /\ prune \in {"idle", "running", "returned", "raised"}
    /\ closer \in [at : {"idle", "walking", "closing", "closed", "failed"}, place : 1..Len(c.Order)]

\* A leg that has removed its victims is counted on.
UGone(c) ==
    /\ \A t \in c.Prunable : leg[t] \in {"removed", "done"} => t \in removed
    /\ counted \subseteq removed

\* Unless a prune failed, no leg runs while the federation is being closed, and the
\* tiers the walk has passed are shut.
UWalk(c) ==
    /\ prune = "idle" => \A t \in c.Prunable : leg[t] = "none"
    /\ prune = "returned" => \A t \in c.Prunable : leg[t] = "done"
    /\ closer.at # "idle" => prune # "running"
    /\ prune # "raised" =>
         /\ closer.at # "idle" => \A n \in 1..Len(c.Order) : n < closer.place => ~held[c.Order[n]]
         /\ closer.at = "closed" => \A t \in Upkeep(c)!Tiers : ~held[t]

UInv(c) == UTypes(c) /\ UGone(c) /\ UWalk(c)

\* The first state.
LEMMA UInit == ASSUME NEW c, Upkeep(c)!ConstantsFit, Upkeep(c)!Init PROVE UInv(c)
<1>1. closer.at = "idle" /\ closer.place = 1 /\ closer \in [at : {"idle"}, place : 1..Len(c.Order)]
  BY DEF Upkeep!Init, Upkeep!ConstantsFit
<1>2. \A t \in Upkeep(c)!Tiers : leg[t] = "none"
  BY DEF Upkeep!Init
<1>3. c.Prunable \subseteq Upkeep(c)!Tiers
  BY DEF Upkeep!ConstantsFit
<1>4. UTypes(c)
  BY <1>1 DEF Upkeep!Init, UTypes
<1> QED BY <1>1, <1>2, <1>3, <1>4 DEF Upkeep!Init, UInv, UGone, UWalk

\* The steps of a prune and of its legs.
LEMMA UPruneStep ==
    ASSUME NEW c, Upkeep(c)!ConstantsFit, UInv(c),
           \/ Upkeep(c)!Start \/ Upkeep(c)!Return \/ Upkeep(c)!Raise
           \/ \E t \in c.Prunable : \/ Upkeep(c)!Opened(t) \/ Upkeep(c)!Removed(t)
                                    \/ Upkeep(c)!Ends(t) \/ Upkeep(c)!Fails(t)
    PROVE  UInv(c)'
<1>0. c.Prunable \subseteq Upkeep(c)!Tiers
  BY DEF Upkeep!ConstantsFit
<1>1. CASE Upkeep(c)!Start
  <2>1. leg' \in [Upkeep(c)!Tiers -> {"none", "opening", "removing"}] /\ \A t \in Upkeep(c)!Tiers \ c.Prunable : leg'[t] = "none"
    BY <1>1 DEF Upkeep!Start
  <2>2. /\ prune' = "running" /\ closer.at = "idle" /\ UNCHANGED <<held, removed, counted, closer>>
    BY <1>1 DEF Upkeep!Start
  <2>3. UTypes(c)'
    BY <2>1, <2>2 DEF UInv, UTypes
  <2>4. UGone(c)'
    BY <1>0, <2>1, <2>2 DEF UInv, UGone
  <2>5. UWalk(c)'
    BY <2>2 DEF UWalk
  <2> QED BY <2>3, <2>4, <2>5 DEF UInv
<1>2. CASE Upkeep(c)!Return
  <2>1. /\ \A t \in c.Prunable : leg[t] = "done"
        /\ prune = "running" /\ prune' = "returned" /\ counted' = c.Prunable /\ UNCHANGED <<held, leg, removed, closer>>
    BY <1>2 DEF Upkeep!Return, Upkeep!GatheredAll
  <2>2. UTypes(c)'
    BY <2>1 DEF UInv, UTypes
  <2>3. UGone(c)'
    BY <2>1 DEF UInv, UGone
  <2>4. UWalk(c)'
    BY <2>1 DEF UInv, UTypes, UWalk
  <2> QED BY <2>2, <2>3, <2>4 DEF UInv
<1>3. CASE Upkeep(c)!Raise
  <2>1. prune = "running" /\ prune' = "raised" /\ UNCHANGED <<held, leg, removed, counted, closer>>
    BY <1>3 DEF Upkeep!Raise
  <2> QED BY <2>1 DEF UInv, UTypes, UGone, UWalk
\* A leg runs: then the prune does, or has failed.
<1>4. ASSUME NEW t \in c.Prunable, NEW to \in {"removing", "removed", "done", "failed"},
             leg[t] \in {"opening", "removing", "removed"},
             leg' = [leg EXCEPT ![t] = to],
             to \in {"removed", "done"} => t \in removed', removed' = removed \/ removed' = removed \cup {t},
             \/ held' = held \/ \E b \in BOOLEAN : held' = [held EXCEPT ![t] = b],
             UNCHANGED <<prune, counted, closer>>
      PROVE  UInv(c)'
  <2>1. prune \notin {"idle", "returned"}
    BY <1>4 DEF UInv, UWalk
  <2>2. leg'[t] = to /\ \A u \in Upkeep(c)!Tiers : u # t => leg'[u] = leg[u]
    BY <1>0, <1>4 DEF UInv, UTypes
  <2>3. UTypes(c)'
    BY <1>0, <1>4, <2>2 DEF UInv, UTypes
  <2>4. UGone(c)'
    BY <1>0, <1>4, <2>2 DEF UInv, UGone
  <2>5. UWalk(c)'
    BY <1>4, <2>1 DEF UInv, UTypes, UWalk
  <2> QED BY <2>3, <2>4, <2>5 DEF UInv
<1>5. ASSUME NEW t \in c.Prunable, Upkeep(c)!Opened(t) PROVE UInv(c)'
  BY <1>4, <1>5 DEF Upkeep!Opened
<1>6. ASSUME NEW t \in c.Prunable, Upkeep(c)!Removed(t) PROVE UInv(c)'
  BY <1>4, <1>6 DEF Upkeep!Removed
<1>7. ASSUME NEW t \in c.Prunable, Upkeep(c)!Ends(t) PROVE UInv(c)'
  <2>1. t \in removed'
    BY <1>7 DEF Upkeep!Ends, UInv, UGone
  <2> QED BY <1>4, <1>7, <2>1 DEF Upkeep!Ends
<1>8. ASSUME NEW t \in c.Prunable, Upkeep(c)!Fails(t) PROVE UInv(c)'
  BY <1>4, <1>8 DEF Upkeep!Fails
<1> QED BY <1>1, <1>2, <1>3, <1>5, <1>6, <1>7, <1>8

\* The steps of the walk that closes.
LEMMA UCloseStep ==
    ASSUME NEW c, Upkeep(c)!ConstantsFit, UInv(c),
           Upkeep(c)!StartClose \/ Upkeep(c)!Pass \/ Upkeep(c)!CloseTier \/ Upkeep(c)!TierClosed \/ Upkeep(c)!CloseFails
    PROVE  UInv(c)'
<1>0. /\ Len(c.Order) \in Nat /\ closer.place \in 1..Len(c.Order) /\ UNCHANGED <<leg, removed, prune, counted>>
      /\ closer \in [at : {"idle", "walking", "closing", "closed", "failed"}, place : 1..Len(c.Order)]
  BY DEF Upkeep!ConstantsFit, UInv, UTypes, Upkeep!StartClose, Upkeep!Pass, Upkeep!CloseTier, Upkeep!TierClosed, Upkeep!CloseFails
<1>1. c.Order[closer.place] \in Upkeep(c)!Tiers
  BY <1>0 DEF Upkeep!Tiers
<1>2. CASE Upkeep(c)!StartClose
  <2>1. closer'.at = "walking" /\ closer'.place = 1 /\ prune # "running" /\ held' = held
        /\ closer' \in [at : {"walking"}, place : 1..Len(c.Order)]
    BY <1>0, <1>2 DEF Upkeep!StartClose
  <2> QED BY <1>0, <2>1 DEF UInv, UTypes, UGone, UWalk
\* The walk is at a tier that is shut then.
<1>3. ASSUME closer.at \in {"walking", "closing"}, Upkeep(c)!Onward, ~held'[c.Order[closer.place]],
             held' = held \/ held' = [held EXCEPT ![c.Order[closer.place]] = FALSE]
      PROVE  UInv(c)'
  <2>1. held' \in [Upkeep(c)!Tiers -> BOOLEAN] /\ \A t \in Upkeep(c)!Tiers : held'[t] => held[t]
    BY <1>1, <1>3 DEF UInv, UTypes
  <2>2. \A n \in 1..Len(c.Order) : c.Order[n] \in Upkeep(c)!Tiers
    BY DEF Upkeep!Tiers
  <2>3. prune # "raised" => \A n \in 1..Len(c.Order) : n <= closer.place => ~held'[c.Order[n]]
    BY <1>0, <1>3, <2>1, <2>2 DEF UInv, UWalk
  <2>4. CASE closer.place >= Len(c.Order)
    <3>1. closer' = [closer EXCEPT !.at = "closed"]
      BY <1>3, <2>4 DEF Upkeep!Onward, Upkeep!EndsAt
    <3>2. closer'.at = "closed" /\ closer'.place = closer.place
          /\ closer' \in [at : {"closed"}, place : 1..Len(c.Order)]
      BY <1>0, <3>1
    <3>3. prune # "raised" => \A t \in Upkeep(c)!Tiers : ~held'[t]
      BY <1>0, <2>3, <2>4 DEF Upkeep!Tiers
    <3>4. UTypes(c)'
      BY <1>0, <2>1, <3>2 DEF UInv, UTypes
    <3>5. UWalk(c)'
      BY <1>0, <1>3, <2>3, <3>2, <3>3 DEF UInv, UWalk
    <3> QED BY <1>0, <3>4, <3>5 DEF UInv, UGone
  <2>5. CASE ~(closer.place >= Len(c.Order))
    <3>1. closer' = [at |-> "walking", place |-> closer.place + 1]
      BY <1>3, <2>5 DEF Upkeep!Onward, Upkeep!EndsAt
    <3>2. closer'.at = "walking" /\ closer'.place = closer.place + 1
          /\ closer' \in [at : {"walking"}, place : 1..Len(c.Order)]
      BY <1>0, <2>5, <3>1
    <3>4. UTypes(c)'
      BY <1>0, <2>1, <3>2 DEF UInv, UTypes
    <3>5. UWalk(c)'
      BY <1>0, <1>3, <2>3, <3>2 DEF UInv, UWalk
    <3> QED BY <1>0, <3>4, <3>5 DEF UInv, UGone
  <2> QED BY <2>4, <2>5
<1>4. CASE Upkeep(c)!Pass
  BY <1>3, <1>4 DEF Upkeep!Pass
<1>5. CASE Upkeep(c)!TierClosed
  <2>1. held' = [held EXCEPT ![c.Order[closer.place]] = FALSE] /\ closer.at = "closing" /\ Upkeep(c)!Onward
    BY <1>5 DEF Upkeep!TierClosed
  <2>2. ~held'[c.Order[closer.place]]
    BY <1>1, <2>1 DEF UInv, UTypes
  <2> QED BY <1>3, <2>1, <2>2
<1>6. CASE Upkeep(c)!CloseTier \/ Upkeep(c)!CloseFails
  <2>1. closer.at \in {"walking", "closing"} /\ closer'.at \in {"closing", "failed"} /\ closer'.place = closer.place /\ held' = held
        /\ closer' \in [at : {"closing", "failed"}, place : 1..Len(c.Order)]
    BY <1>0, <1>6 DEF Upkeep!CloseTier, Upkeep!CloseFails
  <2> QED BY <1>0, <2>1 DEF UInv, UTypes, UGone, UWalk
<1> QED BY <1>2, <1>4, <1>5, <1>6

\* The invariant is inductive.
LEMMA UStep ==
    ASSUME NEW c, Upkeep(c)!ConstantsFit, UInv(c), [Upkeep(c)!Next]_(Upkeep(c)!vars)
    PROVE  UInv(c)'
<1>1. CASE UNCHANGED Upkeep(c)!vars
  <2>1. UNCHANGED <<held, leg, removed, prune, counted, closer>>
    BY <1>1 DEF Upkeep!vars
  <2> QED BY <2>1 DEF UInv, UTypes, UGone, UWalk
<1>2. CASE Upkeep(c)!Next
  BY <1>1, <1>2, UPruneStep, UCloseStep DEF Upkeep!Next, Upkeep!Over
<1> QED BY <1>1, <1>2

\* The invariant implies what the federation promises.
LEMMA UHolds == ASSUME NEW c, Upkeep(c)!ConstantsFit, UInv(c) PROVE Upkeep(c)!ReportsHold
<1>1. Upkeep(c)!TypeOK
  BY DEF UInv, UTypes, Upkeep!TypeOK
<1>2. Upkeep(c)!ReportIsWhole /\ Upkeep(c)!ClosedIsShut
  BY DEF UInv, UGone, UWalk, Upkeep!ReportIsWhole, Upkeep!ClosedIsShut
<1> QED BY <1>1, <1>2 DEF Upkeep!ReportsHold

----------------------------------------
(* CardBlend.  A record holds one card and at most two others, none of them *)
(* the reserved one; of two positions that hold the same two cards, the *)
(* first is listed (BOnce). *)

card == v1
modifiers == v2
config == v3
USE DEF card, modifiers, config

\* The tensions listed are those of the people, each once.
BOnce(c, all, people, listing) ==
    /\ {{all[p[1]], all[p[2]]} : p \in listing}
         = {{p[1], p[2]} : p \in {p \in people \X people : p[1] # p[2] /\ p[2] \in c.TensionCards[p[1]]}}
    /\ \A p, q \in listing : {all[p[1]], all[p[2]]} = {all[q[1]], all[q[2]]} => p = q

BInv(c) ==
    /\ Blend(c)!BlendHolds
    /\ card = None => modifiers = <<>> /\ config = None

\* all holds the n cards of an agent; the i-th states a tension with the j-th; x comes before the sequence q.
BCast(c, n, all) == n \in 1..3 /\ all \in [1..n -> c.Cards]
BStates(c, n, all, i, j) == i \in 1..n /\ j \in 1..n /\ all[j] \in c.TensionCards[all[i]]
BShown(c, all, x, y) == \E p \in Blend(c)!Tensions(all) : {all[p[1]], all[p[2]]} = {x, y}
BJoined(S, all, x, q) == x \in S /\ q \in Seq(S) /\ all = <<x>> \o q

\* A sequence of elements of S, as a function.
LEMMA BSequence ==
    ASSUME NEW S, NEW q \in Seq(S)
    PROVE  Len(q) \in Nat /\ DOMAIN q = 1..Len(q) /\ q \in [1..Len(q) -> S]
OBVIOUS

\* One card before a sequence of others.
LEMMA BHeaded ==
    ASSUME NEW S, NEW x, NEW q, NEW all, BJoined(S, all, x, q)
    PROVE  /\ all \in [1..(1 + Len(q)) -> S]
           /\ all[1] = x /\ \A i \in 1..Len(q) : all[i + 1] = q[i]
<1>0. x \in S /\ q \in Seq(S) /\ all = <<x>> \o q
  BY DEF BJoined
<1>1. <<x>> \in Seq(S) /\ Len(<<x>>) = 1 /\ <<x>>[1] = x
  BY <1>0
<1>2. PICK h \in Seq(S) : h = <<x>> /\ Len(h) = 1 /\ h[1] = x
  BY <1>1
<1>3. all = h \o q
  BY <1>0, <1>2
<1>4. all \in Seq(S) /\ Len(all) = 1 + Len(q)
  BY <1>0, <1>2, <1>3
<1>5. \A i \in 1..(1 + Len(q)) : all[i] = IF i <= 1 THEN h[i] ELSE q[i - 1]
  BY <1>0, <1>2, <1>3
<1>6. Len(q) \in Nat
  BY <1>0
<1>7. \A i \in 1..Len(q) : i + 1 \in 1..(1 + Len(q)) /\ (i + 1) - 1 = i /\ ~(i + 1 <= 1)
  BY <1>6
<1>8. all[1] = x
  BY <1>2, <1>5, <1>6
<1> QED BY <1>0, <1>4, <1>5, <1>7, <1>8, BSequence

\* The cards of an agent are one, two or three.
LEMMA BPeople ==
    ASSUME NEW c, Blend(c)!ConstantsFit, Blend(c)!TypeOK, card # None
    PROVE  /\ card \in c.Cards /\ modifiers \in Seq(c.Cards) /\ Len(modifiers) \in 0..2
           /\ Blend(c)!Participants = {card} \cup {modifiers[i] : i \in 1..Len(modifiers)}
           /\ DOMAIN modifiers = 1..Len(modifiers)
<1>1. card \in c.Cards /\ modifiers \in Seq(c.Cards) /\ Len(modifiers) <= c.MAX_MODIFIERS /\ c.MAX_MODIFIERS \in 0..2
  BY DEF Blend!ConstantsFit, Blend!TypeOK
<1>2. Len(modifiers) \in Nat /\ DOMAIN modifiers = 1..Len(modifiers)
  BY <1>1, BSequence
<1>3. Len(modifiers) \in 0..2
  BY <1>1, <1>2
<1> QED BY <1>1, <1>2, <1>3 DEF Blend!Participants, Blend!Modifiers

\* Seven parts to three of numbers lie between the least and the greatest of them.
LEMMA BBlended ==
    ASSUME NEW c, Blend(c)!ConstantsFit, Blend(c)!TypeOK, card # None, NEW v, \A x \in c.Cards : v[x] \in Nat
    PROVE  Blend(c)!Between(Blend(c)!Blend(v), v)
<1> DEFINE a == v[card]
           d == v[modifiers[1]]
           e == v[modifiers[2]]
           b == Blend(c)!Blend(v)
<1>1. /\ card \in c.Cards /\ modifiers \in Seq(c.Cards) /\ Len(modifiers) \in 0..2
      /\ Blend(c)!Participants = {card} \cup {modifiers[i] : i \in 1..Len(modifiers)}
      /\ DOMAIN modifiers = 1..Len(modifiers)
  BY BPeople
<1>2. a \in Nat
  BY <1>1
<1>3. CASE Len(modifiers) = 0
  <2>1. modifiers = <<>>
    BY <1>1, <1>3
  <2>2. b = a
    BY <2>1 DEF Blend!Blend
  <2> QED BY <1>1, <1>2, <2>2 DEF Blend!Between
<1>4. CASE Len(modifiers) = 1
  <2>1. modifiers # <<>> /\ 1 \in DOMAIN modifiers /\ 2 \notin DOMAIN modifiers
    <3>1. DOMAIN modifiers = {1}
      BY <1>1, <1>4
    <3> QED BY <3>1
  <2>2. d \in Nat /\ {card, modifiers[1]} \subseteq Blend(c)!Participants
    <3>1. 1 \in 1..Len(modifiers)
      BY <1>4
    <3>2. modifiers[1] \in c.Cards
      BY <1>1, <3>1
    <3> QED BY <1>1, <3>1, <3>2
  <2>3. b = (140 * a + 60 * d + 0 + 100) \div 200
    BY <1>4, <2>1 DEF Blend!Blend, Blend!Share, Blend!ModWeight, Blend!Round
  <2> HIDE DEF a, d, b
  <2>4. a <= d => a <= b /\ b <= d
    BY <1>2, <2>2, <2>3
  <2>5. d <= a => d <= b /\ b <= a
    BY <1>2, <2>2, <2>3
  <2>6. a <= d \/ d <= a
    BY <1>2, <2>2
  <2> QED BY <2>2, <2>4, <2>5, <2>6 DEF Blend!Between, a, b, d
<1>5. CASE Len(modifiers) = 2
  <2>1. modifiers # <<>> /\ 1 \in DOMAIN modifiers /\ 2 \in DOMAIN modifiers
    BY <1>1, <1>5
  <2>2. d \in Nat /\ e \in Nat /\ {card, modifiers[1], modifiers[2]} \subseteq Blend(c)!Participants
    BY <1>1, <1>5
  <2>3. b = (140 * a + 30 * d + 30 * e + 100) \div 200
    BY <1>5, <2>1 DEF Blend!Blend, Blend!Share, Blend!ModWeight, Blend!Round
  <2> HIDE DEF a, d, e, b
  <2>4. \E low, high \in {a, d, e} : low <= a /\ low <= d /\ low <= e /\ a <= high /\ d <= high /\ e <= high
    BY <1>2, <2>2
  <2>5. PICK low \in {a, d, e}, high \in {a, d, e} :
            low <= a /\ low <= d /\ low <= e /\ a <= high /\ d <= high /\ e <= high
    BY <2>4
  <2>6. low \in Nat /\ high \in Nat
    BY <1>2, <2>2
  <2>7. low <= b /\ b <= high
    BY <1>2, <2>2, <2>3, <2>5, <2>6
  <2>8. (\E x \in Blend(c)!Participants : v[x] = low) /\ (\E x \in Blend(c)!Participants : v[x] = high)
    BY <2>2 DEF a, d, e
  <2> QED BY <2>7, <2>8 DEF Blend!Between, b
<1> QED BY <1>1, <1>3, <1>4, <1>5

\* Of the pairs of positions that hold the same two cards, the first is listed, and it only.
LEMMA BTense ==
    ASSUME NEW c, Blend(c)!ConstantsFit, NEW n, NEW all, BCast(c, n, all)
    PROVE  /\ Blend(c)!Tensions(all) \subseteq (1..3) \X (1..3)
           /\ \A p, q \in Blend(c)!Tensions(all) : {all[p[1]], all[p[2]]} = {all[q[1]], all[q[2]]} => p = q
           /\ \A p \in Blend(c)!Tensions(all) :
                all[p[1]] # all[p[2]] /\ (all[p[2]] \in c.TensionCards[all[p[1]]] \/ all[p[1]] \in c.TensionCards[all[p[2]]])
<1> n \in 1..3 /\ all \in [1..n -> c.Cards]
  BY DEF BCast
<1> DEFINE pairs == Blend(c)!Pairs(all)
           listing == Blend(c)!Tensions(all)
           two(p) == {all[p[1]], all[p[2]]}
<1>1. pairs = {p \in (1..n) \X (1..n) : p[1] < p[2]}
  BY DEF Blend!Pairs
<1>2. \A p \in listing : p \in pairs /\ Blend(c)!Clash(all[p[1]], all[p[2]])
                       /\ \A q \in pairs : Blend(c)!Before(q, p) => two(q) # two(p)
  BY DEF Blend!Tensions, Blend!Unseen
<1>3. \A p, q \in pairs : p = q \/ Blend(c)!Before(p, q) \/ Blend(c)!Before(q, p)
  <2> SUFFICES ASSUME NEW p \in pairs, NEW q \in pairs
               PROVE  p = q \/ Blend(c)!Before(p, q) \/ Blend(c)!Before(q, p)
    OBVIOUS
  <2>1. p = <<p[1], p[2]>> /\ q = <<q[1], q[2]>> /\ {p[1], p[2], q[1], q[2]} \subseteq 1..n
    BY <1>1
  <2> QED BY <2>1 DEF Blend!Before
<1>4. \A p \in pairs : all[p[1]] \in c.Cards /\ all[p[2]] \in c.Cards
  BY <1>1
<1>5. \A a, b \in c.Cards : Blend(c)!Clash(a, b) => a # b /\ (b \in c.TensionCards[a] \/ a \in c.TensionCards[b])
  BY DEF Blend!Clash, Blend!ConstantsFit
<1> HIDE DEF listing, pairs
<1>7. \A p \in listing : p \in (1..3) \X (1..3)
  BY <1>1, <1>2
<1>8. \A p, q \in listing : two(p) = two(q) => p = q
  BY <1>2, <1>3
<1>9. \A p \in listing :
        all[p[1]] # all[p[2]] /\ (all[p[2]] \in c.TensionCards[all[p[1]]] \/ all[p[1]] \in c.TensionCards[all[p[2]]])
  BY <1>2, <1>4, <1>5
<1> QED BY <1>7, <1>8, <1>9 DEF listing

\* Of two cards one of which states a tension with the other a pair is listed.
LEMMA BFound ==
    ASSUME NEW c, Blend(c)!ConstantsFit, NEW n, NEW all, BCast(c, n, all),
           NEW i, NEW j, BStates(c, n, all, i, j)
    PROVE  BShown(c, all, all[i], all[j])
<1> n \in 1..3 /\ all \in [1..n -> c.Cards]
  BY DEF BCast
<1> i \in 1..n /\ j \in 1..n /\ all[j] \in c.TensionCards[all[i]]
  BY DEF BStates
<1> DEFINE pairs == Blend(c)!Pairs(all)
           listing == Blend(c)!Tensions(all)
           two(p) == {all[p[1]], all[p[2]]}
<1>0. pairs = {p \in (1..n) \X (1..n) : p[1] < p[2]}
  BY DEF Blend!Pairs
<1> DEFINE same == {p \in pairs : two(p) = {all[i], all[j]}}
<1>1. all[i] # all[j]
  BY DEF Blend!ConstantsFit
<1>2. \E p \in same : TRUE
  <2>1. CASE i < j
    BY <1>0, <2>1, <<i, j>> \in same
  <2>2. CASE j < i
    BY <1>0, <2>2, <<j, i>> \in same
  <2>3. i < j \/ j < i
    BY <1>1
  <2> QED BY <2>1, <2>2, <2>3
<1>3. \A p \in same : p \in {<<1, 2>>, <<1, 3>>, <<2, 3>>}
  <2> SUFFICES ASSUME NEW p \in pairs PROVE p \in {<<1, 2>>, <<1, 3>>, <<2, 3>>}
    OBVIOUS
  <2>1. p = <<p[1], p[2]>> /\ p[1] \in 1..3 /\ p[2] \in 1..3 /\ p[1] < p[2]
    BY <1>0
  <2> QED BY <2>1
<1> HIDE DEF same
<1>4. \E p \in same : \A q \in same : ~Blend(c)!Before(q, p)
  <2>1. CASE <<1, 2>> \in same
    BY <1>3, <2>1 DEF Blend!Before
  <2>2. CASE <<1, 2>> \notin same /\ <<1, 3>> \in same
    BY <1>3, <2>2 DEF Blend!Before
  <2>3. CASE <<1, 2>> \notin same /\ <<1, 3>> \notin same
    BY <1>2, <1>3, <2>3 DEF Blend!Before
  <2> QED BY <2>1, <2>2, <2>3
<1>5. PICK p \in same : \A q \in same : ~Blend(c)!Before(q, p)
  BY <1>4
<1>6. p \in pairs /\ two(p) = {all[i], all[j]} /\ \A q \in pairs : Blend(c)!Before(q, p) => two(q) # two(p)
  BY <1>5 DEF same
<1>7. Blend(c)!Clash(all[p[1]], all[p[2]])
  <2>1. (all[p[1]] = all[i] /\ all[p[2]] = all[j]) \/ (all[p[1]] = all[j] /\ all[p[2]] = all[i])
    BY <1>6
  <2> QED BY <2>1 DEF Blend!Clash
<1> QED BY <1>6, <1>7 DEF BShown, Blend!Tensions, Blend!Unseen

\* The first state: no agent yet.
LEMMA BInit ==
    ASSUME NEW c, Blend(c)!ConstantsFit, Blend(c)!Init
    PROVE  BInv(c)
<1>1. card = None /\ modifiers = <<>> /\ config = None /\ c.MAX_MODIFIERS \in 0..2
  BY DEF Blend!Init, Blend!ConstantsFit
<1>2. modifiers \in Seq(c.Cards) /\ Len(modifiers) = 0
  BY <1>1
<1> QED BY <1>1, <1>2 DEF BInv, Blend!BlendHolds, Blend!TypeOK, Blend!InHull, Blend!TensionsOnce, Blend!WorldApart

\* A command gives an agent cards that the engine takes; what it resolved before is gone.
LEMMA BAssigned ==
    ASSUME NEW c, Blend(c)!ConstantsFit, NEW d \in c.Cards, NEW ms,
           ms \in Seq(c.Cards), Len(ms) <= c.MAX_MODIFIERS, \A i \in 1..Len(ms) : ms[i] # c.WORLD,
           Blend(c)!Assign(d, ms)
    PROVE  BInv(c)'
<1>1. card' = d /\ modifiers' = ms /\ config' = None /\ d # None
  BY DEF Blend!Assign, Blend!ConstantsFit
<1>2. Blend(c)!TypeOK'
  BY <1>1 DEF Blend!TypeOK
<1>3. Blend(c)!WorldApart'
  BY <1>1 DEF Blend!WorldApart, Blend!Modifiers
<1> QED BY <1>1, <1>2, <1>3 DEF BInv, Blend!BlendHolds, Blend!InHull, Blend!TensionsOnce

\* What the picker returns is short enough and leaves the reserved card out.
LEMMA BPicks ==
    ASSUME NEW c, Blend(c)!ConstantsFit, NEW d \in c.Cards, NEW ms \in Blend(c)!Picks(d)
    PROVE  ms \in Seq(c.Cards) /\ Len(ms) <= c.MAX_MODIFIERS /\ \A i \in 1..Len(ms) : ms[i] # c.WORLD
<1>1. c.MAX_MODIFIERS \in 0..2
  BY DEF Blend!ConstantsFit
<1>2. PICK n \in 0..c.MAX_MODIFIERS : ms \in [1..n -> Blend(c)!Offered(d)]
  BY DEF Blend!Picks, Blend!Limit
<1>3. n \in Nat /\ n <= c.MAX_MODIFIERS
  BY <1>1, <1>2
<1>4. Len(ms) = n
  BY <1>2, <1>3
<1> QED BY <1>2, <1>3, <1>4 DEF Blend!Offered

\* The cards of three positions at most, and the tensions between them.
LEMMA BListed ==
    ASSUME NEW c, Blend(c)!ConstantsFit, NEW n, NEW all, BCast(c, n, all), NEW people, people = {all[i] : i \in 1..n}
    PROVE  BOnce(c, all, people, Blend(c)!Tensions(all))
<1> n \in 1..3 /\ all \in [1..n -> c.Cards]
  BY DEF BCast
<1> DEFINE listing == Blend(c)!Tensions(all)
           tense == {p \in people \X people : p[1] # p[2] /\ p[2] \in c.TensionCards[p[1]]}
<1>1. \A p, q \in listing : {all[p[1]], all[p[2]]} = {all[q[1]], all[q[2]]} => p = q
  BY BTense, ZenonT(60)
<1>7. \A p \in listing :
        all[p[1]] # all[p[2]] /\ (all[p[2]] \in c.TensionCards[all[p[1]]] \/ all[p[1]] \in c.TensionCards[all[p[2]]])
  BY BTense, ZenonT(60)
<1>8. \A i, j \in 1..n : all[j] \in c.TensionCards[all[i]] => \E p \in listing : {all[p[1]], all[p[2]]} = {all[i], all[j]}
  <2> SUFFICES ASSUME NEW i \in 1..n, NEW j \in 1..n, all[j] \in c.TensionCards[all[i]]
               PROVE  \E p \in listing : {all[p[1]], all[p[2]]} = {all[i], all[j]}
    OBVIOUS
  <2>1. BStates(c, n, all, i, j)
    BY DEF BStates
  <2>2. BShown(c, all, all[i], all[j])
    BY <2>1, BFound
  <2> QED BY <2>2 DEF BShown
<1>2. \A p \in listing : p[1] \in 1..n /\ p[2] \in 1..n
  <2>1. DOMAIN all = 1..n
    OBVIOUS
  <2> QED BY <2>1 DEF Blend!Tensions, Blend!Pairs
<1> HIDE DEF listing
<1>3. ASSUME NEW p \in listing PROVE \E q \in tense : {all[p[1]], all[p[2]]} = {q[1], q[2]}
  <2>1. all[p[1]] \in people /\ all[p[2]] \in people /\ all[p[1]] # all[p[2]]
    BY <1>2, <1>7
  <2>2. CASE all[p[2]] \in c.TensionCards[all[p[1]]]
    BY <2>1, <2>2, <<all[p[1]], all[p[2]]>> \in tense
  <2>3. CASE all[p[1]] \in c.TensionCards[all[p[2]]]
    BY <2>1, <2>3, <<all[p[2]], all[p[1]]>> \in tense
  <2> QED BY <1>7, <2>2, <2>3
<1>4. ASSUME NEW q \in tense PROVE \E p \in listing : {all[p[1]], all[p[2]]} = {q[1], q[2]}
  <2>1. q[1] \in people /\ q[2] \in people /\ q[2] \in c.TensionCards[q[1]]
    OBVIOUS
  <2>2. PICK i \in 1..n, j \in 1..n : q[1] = all[i] /\ q[2] = all[j]
    BY <2>1
  <2>3. PICK p \in listing : {all[p[1]], all[p[2]]} = {all[i], all[j]}
    BY <1>8, <2>1, <2>2
  <2> QED BY <2>2, <2>3
<1> HIDE DEF tense
<1>5. {{all[p[1]], all[p[2]]} : p \in listing} = {{q[1], q[2]} : q \in tense}
  <2> DEFINE left == {{all[p[1]], all[p[2]]} : p \in listing}
             right == {{q[1], q[2]} : q \in tense}
  <2>1. \A x \in left : x \in right
    <3>1. SUFFICES ASSUME NEW p \in listing PROVE {all[p[1]], all[p[2]]} \in right
      OBVIOUS
    <3>2. PICK q \in tense : {all[p[1]], all[p[2]]} = {q[1], q[2]}
      BY <1>3
    <3> QED BY <3>2
  <2>2. \A x \in right : x \in left
    <3>1. SUFFICES ASSUME NEW q \in tense PROVE {q[1], q[2]} \in left
      OBVIOUS
    <3>2. PICK p \in listing : {all[p[1]], all[p[2]]} = {q[1], q[2]}
      BY <1>4
    <3> QED BY <3>2
  <2> HIDE DEF left, right
  <2>3. left = right
    BY <2>1, <2>2
  <2> QED BY <2>3 DEF left, right
<1> QED BY <1>1, <1>5 DEF BOnce, listing, tense

\* A configuration that the engine resolves lies between its cards and lists each tension once.
LEMMA BResolves ==
    ASSUME NEW c, Blend(c)!ConstantsFit, BInv(c), Blend(c)!Resolve
    PROVE  BInv(c)'
<1>1. Blend(c)!TypeOK /\ Blend(c)!WorldApart /\ card # None /\ UNCHANGED <<card, modifiers>>
  BY DEF BInv, Blend!BlendHolds, Blend!Resolve
<1>2. card \in c.Cards /\ modifiers \in Seq(c.Cards) /\ Len(modifiers) \in 0..2
  BY <1>1, BPeople
<1>3. Blend(c)!Participants = {card} \cup {modifiers[i] : i \in 1..Len(modifiers)}
  BY <1>1, BPeople
<1> DEFINE n == 1 + Len(modifiers)
           all == <<card>> \o modifiers
<1>4. n \in 1..3
  <2>1. PICK k \in 0..2 : k = Len(modifiers)
    BY <1>2
  <2>2. n = 1 + k /\ 1 + k \in 1..3
    BY <2>1
  <2> QED BY <2>2
<1>5. all \in [1..n -> c.Cards] /\ all[1] = card /\ \A i \in 1..Len(modifiers) : all[i + 1] = modifiers[i]
  <2>1. PICK q \in Seq(c.Cards) : q = modifiers
    BY <1>2
  <2>2. PICK x \in c.Cards : x = card
    BY <1>2
  <2>4. PICK a : a = <<x>> \o q
    OBVIOUS
  <2>3. a \in [1..(1 + Len(q)) -> c.Cards] /\ a[1] = card /\ \A i \in 1..Len(q) : a[i + 1] = q[i]
    <3>1. BJoined(c.Cards, a, x, q)
      BY <2>1, <2>2, <2>4 DEF BJoined
    <3> QED BY <2>2, <3>1, BHeaded
  <2> QED BY <2>1, <2>2, <2>3, <2>4 DEF all
<1> HIDE DEF n, all
<1>6. Blend(c)!Participants = {all[i] : i \in 1..n}
  <2>1. \A i \in 1..n : i = 1 \/ (i - 1 \in 1..Len(modifiers) /\ all[i] = modifiers[i - 1])
    <3> SUFFICES ASSUME NEW i \in 1..n, i # 1 PROVE i - 1 \in 1..Len(modifiers) /\ all[i] = modifiers[i - 1]
      OBVIOUS
    <3>1. i - 1 \in 1..Len(modifiers) /\ (i - 1) + 1 = i
      BY <1>2 DEF n
    <3> QED BY <1>5, <3>1
  <2>2. \A i \in 1..Len(modifiers) : i + 1 \in 1..n
    BY <1>2 DEF n
  <2> QED BY <1>3, <1>4, <1>5, <2>1, <2>2
<1>7. BOnce(c, all, Blend(c)!Participants, Blend(c)!Tensions(all)) /\ Blend(c)!Tensions(all) \subseteq (1..3) \X (1..3)
  <2>1. PICK k, a, people : k = n /\ a = all /\ people = Blend(c)!Participants
    OBVIOUS
  <2>2. BCast(c, k, a)
    BY <1>4, <1>5, <2>1 DEF BCast
  <2>3. people = {a[i] : i \in 1..k}
    BY <1>6, <2>1
  <2> QED BY <2>1, <2>2, <2>3, BListed, BTense
<1>8. config' = [temperature |-> Blend(c)!Blend(c.Temperature), days |-> Blend(c)!Blend(Blend(c)!Days),
                 tensions |-> Blend(c)!Tensions(all)]
  BY DEF Blend!Resolve, all
<1>9. Blend(c)!Between(Blend(c)!Blend(c.Temperature), c.Temperature)
  BY <1>1, BBlended DEF Blend!ConstantsFit
<1>10. Blend(c)!Between(Blend(c)!Blend(Blend(c)!Days), Blend(c)!Alone)
  <2>1. Blend(c)!Days = Blend(c)!Alone
    BY DEF Blend!Days, Blend!Alone
  <2>2. \A x \in c.Cards : Blend(c)!Days[x] \in Nat
    BY DEF Blend!Days, Blend!ConstantsFit
  <2> QED BY <1>1, <2>1, <2>2, BBlended
<1>11. Blend(c)!InHull'
  BY <1>1, <1>8, <1>9, <1>10 DEF Blend!InHull, Blend!Between, Blend!Participants, Blend!Modifiers, Blend!Alone
<1>12. Blend(c)!TypeOK'
  BY <1>1, <1>7, <1>8 DEF Blend!TypeOK
<1>13. BOnce(c, all, Blend(c)!Participants, config.tensions)'
  <2>1. all' = all /\ Blend(c)!Participants' = Blend(c)!Participants /\ config'.tensions = Blend(c)!Tensions(all)
    BY <1>1, <1>8 DEF all, Blend!Participants, Blend!Modifiers
  <2> QED BY <1>7, <2>1
<1>14. Blend(c)!TensionsOnce'
  BY <1>13 DEF BOnce, Blend!TensionsOnce, all
<1>15. Blend(c)!WorldApart'
  BY <1>1 DEF Blend!WorldApart, Blend!Modifiers
<1> QED BY <1>1, <1>11, <1>12, <1>14, <1>15 DEF BInv, Blend!BlendHolds

\* The invariant is inductive.
LEMMA BStep ==
    ASSUME NEW c, Blend(c)!ConstantsFit, BInv(c), [Blend(c)!Next]_(Blend(c)!vars)
    PROVE  BInv(c)'
<1>1. CASE Blend(c)!Create
  BY <1>1, BPicks, BAssigned DEF Blend!Create
<1>2. ASSUME card # None
      PROVE  /\ modifiers \in Seq(c.Cards) /\ Len(modifiers) <= c.MAX_MODIFIERS
             /\ \A i \in 1..Len(modifiers) : modifiers[i] # c.WORLD
  BY <1>2 DEF BInv, Blend!BlendHolds, Blend!TypeOK, Blend!WorldApart, Blend!Modifiers
<1>3. CASE Blend(c)!Edit
  BY <1>2, <1>3, BPicks, BAssigned DEF Blend!Edit
<1>4. CASE Blend(c)!EditFlag
  BY <1>2, <1>4, BAssigned DEF Blend!EditFlag
<1>5. CASE Blend(c)!Resolve
  BY <1>5, BResolves
<1>6. CASE UNCHANGED Blend(c)!vars
  <2>1. UNCHANGED <<card, modifiers, config>>
    BY <1>6 DEF Blend!vars
  <2>2. Blend(c)!TypeOK' /\ Blend(c)!WorldApart'
    BY <2>1 DEF BInv, Blend!BlendHolds, Blend!TypeOK, Blend!WorldApart, Blend!Modifiers
  <2>3. Blend(c)!InHull'
    BY <2>1 DEF BInv, Blend!BlendHolds, Blend!InHull, Blend!Between, Blend!Participants, Blend!Modifiers, Blend!Alone
  <2> DEFINE all == <<card>> \o modifiers
             once == BOnce(c, all, Blend(c)!Participants, config.tensions)
  <2>4. (once <=> once') /\ (config # None => once)
    <3>1. config # None => once
      BY DEF BInv, Blend!BlendHolds, Blend!TensionsOnce, BOnce
    <3>2. Blend(c)!Participants' = Blend(c)!Participants
      BY <2>1 DEF Blend!Participants, Blend!Modifiers
    <3> QED BY <2>1, <3>1, <3>2
  <2>5. Blend(c)!TensionsOnce'
    BY <2>1, <2>4 DEF BOnce, Blend!TensionsOnce
  <2> QED BY <2>1, <2>2, <2>3, <2>5 DEF BInv, Blend!BlendHolds
<1> QED BY <1>1, <1>3, <1>4, <1>5, <1>6 DEF Blend!Next

\* The invariant implies what the blend promises.
LEMMA BHolds == ASSUME NEW c, BInv(c) PROVE Blend(c)!BlendHolds
BY DEF BInv

----------------------------------------
(* EvalRun.  A case has a verdict when it is done, the run that is over has *)
(* all of them in its file, and the file of the earlier run is another *)
(* (EFiles). *)

harness == v1
phase == v2
kept == v3
verdict == v4
gateway == v5
id == v6
base == v7
saved == v8
earlier == v9
report == v10
summary == v11
USE DEF harness, phase, kept, verdict, gateway, id, base, saved, earlier, report, summary

Phases == {"new", "running", "answered", "mute", "errored", "done", "raised"}

ETypes(c) ==
    /\ harness \in {"running", "raised", "over"} /\ gateway \in BOOLEAN
    /\ phase \in [c.Cases -> Phases]
    /\ kept \in [c.Cases -> Nat] /\ \A x \in c.Cases : kept[x] <= c.Rules[x]
    /\ verdict \in [c.Cases -> Eval(c)!Verdicts \cup {None}]
    /\ \A x \in c.Cases : verdict[x] # None <=> phase[x] = "done"
    /\ id \in c.Seconds /\ base \in c.Seconds \cup {None}
    /\ DOMAIN saved = c.Seconds

\* Only a judge's reply gives a score beyond the whole.
EScores(c) == \A x \in c.Cases \ c.Judged : verdict[x] # None => verdict[x].score \in 0..1000

\* A run that is over has all its verdicts, which its file holds; until then nothing is
\* reported, and what the earlier run found is in the earlier file.
EFiles(c) ==
    /\ harness = "over" => saved[id] = verdict /\ \A x \in c.Cases : phase[x] = "done"
    /\ harness # "over" => report = None /\ summary = None
    /\ c.MinTick > 0 /\ base # None => id # base /\ saved[base] = earlier

EInv(c) ==
    /\ ETypes(c) /\ EScores(c) /\ EFiles(c) /\ Eval(c)!Bounded /\ Eval(c)!PassIsEarned /\ Eval(c)!EveryCaseCounted
    /\ c.MinTick > 0 => Eval(c)!BaselineStands

EShare(k, r) == (1000 * k) \div r

\* Whatever of the rules a response keeps, its share of them is at most the whole.
LEMMA EQuotient ==
    ASSUME NEW k \in Nat, NEW r \in Nat, k <= r, r # 0
    PROVE  EShare(k, r) \in 0..1000
<1>1. PICK n \in Nat : n = (1000 * k) \div r
  OBVIOUS
<1>2. r * n <= 1000 * k
  BY <1>1
<1>3. r * n <= r * 1000
  BY <1>2
<1>4. n <= 1000
  BY <1>3
<1> QED BY <1>1, <1>4 DEF EShare

\* The score of a case by its rules is a share of the whole.
LEMMA ERuleScore ==
    ASSUME NEW c, Eval(c)!ConstantsFit, ETypes(c), NEW x \in c.Cases
    PROVE  Eval(c)!RuleScore(x) \in 0..1000
<1>1. kept[x] \in Nat /\ c.Rules[x] \in Nat /\ kept[x] <= c.Rules[x]
  BY DEF ETypes, Eval!ConstantsFit
<1>2. c.Rules[x] # 0 => EShare(kept[x], c.Rules[x]) \in 0..1000
  <2>1. PICK k \in Nat, r \in Nat : k = kept[x] /\ r = c.Rules[x]
    BY <1>1
  <2>3. k <= r
    BY <1>1, <2>1
  <2>2. ASSUME r # 0 PROVE EShare(k, r) \in 0..1000
    BY <2>3, <2>2, EQuotient, ZenonT(20)
  <2> QED BY <2>1, <2>2
<1>3. Eval(c)!RuleScore(x) = IF c.Rules[x] = 0 THEN 1000 ELSE EShare(kept[x], c.Rules[x])
  BY DEF Eval!RuleScore, EShare
<1> QED BY <1>2, <1>3

\* A score by the rules alone is a share of the whole.
EWhole(c, x, v) == x \notin c.Judged => v.score \in 0..1000

\* A verdict that passes is earned.
Earned(c, v) == v.passed => v.error # "text" /\ ~v.skipped /\ v.floor /\ v.score >= c.Threshold

EScore(s, f) == s \in Int /\ f \in BOOLEAN

\* A verdict by score is one, and passes only if it is earned.
LEMMA EVerdict ==
    ASSUME NEW c, NEW x, NEW s, NEW f, EScore(s, f), NEW v, v = Eval(c)!Verdict(x, s, f)
    PROVE  v \in Eval(c)!Verdicts /\ Earned(c, v) /\ v.score = s
<1>0. s \in Int /\ f \in BOOLEAN
  BY DEF EScore
<1> DEFINE ok == s >= c.Threshold /\ f /\ Eval(c)!RuleScore(x) >= c.Threshold
           all == kept[x] = c.Rules[x]
           text == IF phase[x] = "mute" THEN "empty" ELSE "none"
<1>1. Eval(c)!Verdict(x, s, f)
        = [score |-> s, floor |-> f, clean |-> all, error |-> text, skipped |-> FALSE, passed |-> ok]
  BY DEF Eval!Verdict
<1>2. ok \in BOOLEAN /\ all \in BOOLEAN /\ (ok => s >= c.Threshold /\ f) /\ text \in {"none", "empty"}
  OBVIOUS
<1> HIDE DEF ok, all, text
<1> QED BY <1>0, <1>1, <1>2 DEF Eval!Verdicts, Earned

\* A verdict without a score does not pass.
LEMMA EFailed ==
    ASSUME NEW c, NEW x, NEW e \in {"none", "text"}, NEW s \in BOOLEAN
    PROVE  /\ Eval(c)!Failed(e, s) \in Eval(c)!Verdicts /\ Earned(c, Eval(c)!Failed(e, s))
           /\ EWhole(c, x, Eval(c)!Failed(e, s))
<1>1. Eval(c)!Failed(e, s).score = 0
  BY DEF Eval!Failed
<1>2. EWhole(c, x, Eval(c)!Failed(e, s))
  BY <1>1 DEF EWhole
<1> QED BY <1>2 DEF Eval!Failed, Eval!Verdicts, Earned

\* The semaphore counts the cases that are with the agent or the judge.
LEMMA ECount ==
    ASSUME NEW c, Eval(c)!ConstantsFit
    PROVE  /\ IsFiniteSet(Eval(c)!InSem) /\ Cardinality(Eval(c)!InSem) \in Nat
           /\ Eval(c)!Cardinality(Eval(c)!InSem) = Cardinality(Eval(c)!InSem)
<1>1. IsFiniteSet(c.Cases)
  BY DEF Eval!ConstantsFit, Eval!IsFiniteSet, IsFiniteSet
<1>2. Eval(c)!InSem \subseteq c.Cases
  BY DEF Eval!InSem
<1>3. Eval(c)!Cardinality(Eval(c)!InSem) = Cardinality(Eval(c)!InSem)
  BY DEF Eval!Cardinality, Cardinality
<1> QED BY <1>1, <1>2, <1>3, FS_Subset, FS_CardinalityType

\* A case moves on, to a verdict it has earned if it is done with.
EMove(c, x, to) ==
    /\ phase[x] # "done" /\ to \in Phases /\ phase' = [phase EXCEPT ![x] = to]
    /\ harness' \in {harness, "raised"} /\ gateway' \in BOOLEAN
    /\ kept' \in [c.Cases -> Nat] /\ \A y \in c.Cases : kept'[y] <= c.Rules[y]
    /\ IF to = "done" THEN \E v \in Eval(c)!Verdicts : Earned(c, v) /\ EWhole(c, x, v) /\ verdict' = [verdict EXCEPT ![x] = v]
       ELSE verdict' = verdict
    /\ UNCHANGED <<id, base, saved, earlier, report, summary>>
    /\ \/ x \in Eval(c)!InSem \/ to \in {"done", "raised"}
       \/ Cardinality(Eval(c)!InSem) < c.Concurrency

\* A case that moves on keeps the invariant: no run that is over has such a case.
LEMMA EMoves ==
    ASSUME NEW c, Eval(c)!ConstantsFit, EInv(c), NEW x \in c.Cases, NEW to, EMove(c, x, to)
    PROVE  EInv(c)'
<1>1. harness # "over" /\ harness' # "over" /\ report' = None /\ summary' = None
  <2>1. harness # "over"
    BY DEF EInv, EFiles, EMove
  <2> QED BY <2>1 DEF EInv, EFiles, EMove, ETypes
<1>2. \A y \in c.Cases : phase'[y] = IF y = x THEN to ELSE phase[y]
  BY DEF EMove, EInv, ETypes
<1>3. ETypes(c)'
  <2>1. /\ harness' \in {"running", "raised", "over"} /\ gateway' \in BOOLEAN
        /\ id' \in c.Seconds /\ base' \in c.Seconds \cup {None} /\ DOMAIN saved' = c.Seconds
    BY DEF EInv, ETypes, EMove
  <2>2. kept' \in [c.Cases -> Nat] /\ (\A y \in c.Cases : kept'[y] <= c.Rules[y]) /\ phase' \in [c.Cases -> Phases]
    BY DEF EInv, ETypes, EMove
  <2>3. /\ verdict' \in [c.Cases -> Eval(c)!Verdicts \cup {None}]
        /\ \A y \in c.Cases : verdict'[y] # None <=> phase'[y] = "done"
    <3>1. CASE to = "done"
      <4>1. PICK v \in Eval(c)!Verdicts : verdict' = [verdict EXCEPT ![x] = v]
        BY <3>1 DEF EMove
      <4>2. v # None
        BY DEF Eval!ConstantsFit
      <4> QED BY <1>2, <3>1, <4>1, <4>2 DEF EInv, ETypes
    <3>2. CASE to # "done"
      <4>1. verdict' = verdict /\ phase[x] # "done"
        BY <3>2 DEF EMove
      <4> QED BY <1>2, <3>2, <4>1 DEF EInv, ETypes
    <3> QED BY <3>1, <3>2
  <2> QED BY <2>1, <2>2, <2>3 DEF ETypes
<1>4. EFiles(c)'
  BY <1>1 DEF EInv, EFiles, EMove
<1>5. Eval(c)!Bounded'
  <2> DEFINE sem == Eval(c)!InSem
  <2>1. IsFiniteSet(sem) /\ Cardinality(sem) \in Nat /\ Cardinality(sem) <= c.Concurrency /\ c.Concurrency \in Nat
    BY ECount DEF EInv, Eval!Bounded, Eval!ConstantsFit
  <2>2. sem = {y \in c.Cases : phase[y] \in {"running", "answered", "mute", "errored"}}
    BY DEF Eval!InSem
  <2>3. sem' = {y \in c.Cases : phase'[y] \in {"running", "answered", "mute", "errored"}}
    BY DEF Eval!InSem
  <2>4. Eval(c)!Bounded' <=> Cardinality(sem') <= c.Concurrency
    BY DEF Eval!Bounded, Eval!Cardinality, Cardinality
  <2>5. CASE x \in sem \/ to \in {"done", "raised"}
    <3>1. sem' \subseteq sem
      BY <1>2, <2>2, <2>3, <2>5
    <3>2. PICK s, t : s = sem /\ t = sem'
      OBVIOUS
    <3>3. Cardinality(t) <= Cardinality(s) /\ Cardinality(t) \in Nat
      BY <2>1, <3>1, <3>2, FS_Subset, FS_CardinalityType
    <3> QED BY <2>1, <2>4, <3>2, <3>3
  <2>6. CASE Cardinality(sem) < c.Concurrency
    <3>1. sem' \subseteq sem \cup {x}
      BY <1>2, <2>2, <2>3
    <3>2. PICK s, t : s = sem /\ t = sem'
      OBVIOUS
    <3>3. IsFiniteSet(s \cup {x}) /\ Cardinality(s \cup {x}) <= Cardinality(s) + 1 /\ Cardinality(s \cup {x}) \in Nat
      <4>1. IsFiniteSet(s) /\ Cardinality(s) \in Nat
        BY <2>1, <3>2
      <4>2. /\ IsFiniteSet(s \cup {x})
            /\ Cardinality(s \cup {x}) = Cardinality(s) \/ Cardinality(s \cup {x}) = Cardinality(s) + 1
        BY <4>1, FS_AddElement
      <4> QED BY <4>1, <4>2
    <3>4. Cardinality(t) <= Cardinality(s \cup {x}) /\ Cardinality(t) \in Nat
      BY <3>1, <3>2, <3>3, FS_Subset, FS_CardinalityType
    <3> QED BY <2>1, <2>4, <2>6, <3>2, <3>3, <3>4
  <2> QED BY <2>5, <2>6 DEF EMove
<1>6. Eval(c)!PassIsEarned'
  <2>1. \A y \in c.Cases : verdict'[y] # None => Earned(c, verdict'[y])
    <3>1. \A y \in c.Cases : verdict[y] # None => Earned(c, verdict[y])
      BY DEF EInv, Eval!PassIsEarned, Eval!Done, Earned
    <3>2. CASE to = "done"
      <4>1. PICK v \in Eval(c)!Verdicts : Earned(c, v) /\ verdict' = [verdict EXCEPT ![x] = v]
        BY <3>2 DEF EMove
      <4> QED BY <3>1, <4>1 DEF EInv, ETypes
    <3>3. CASE to # "done"
      BY <3>1, <3>3 DEF EMove
    <3> QED BY <3>2, <3>3
  <2> QED BY <2>1 DEF Eval!PassIsEarned, Eval!Done, Earned
<1>7. Eval(c)!EveryCaseCounted' /\ Eval(c)!BaselineStands'
  BY <1>1 DEF Eval!EveryCaseCounted, Eval!BaselineStands
<1>8. EScores(c)'
  <2>1. CASE to = "done"
    <3>1. PICK v \in Eval(c)!Verdicts : EWhole(c, x, v) /\ verdict' = [verdict EXCEPT ![x] = v]
      BY <2>1 DEF EMove
    <3> QED BY <3>1 DEF EInv, ETypes, EScores, EWhole
  <2>2. CASE to # "done"
    BY <2>2 DEF EInv, EScores, EMove
  <2> QED BY <2>1, <2>2
<1> QED BY <1>3, <1>4, <1>5, <1>6, <1>7, <1>8 DEF EInv

\* Every step of a case is such a move.
LEMMA ECases ==
    ASSUME NEW c, Eval(c)!ConstantsFit, EInv(c), NEW x \in c.Cases,
           \/ Eval(c)!Skip(x) \/ Eval(c)!Enter(x) \/ Eval(c)!Answer(x) \/ Eval(c)!AgentRaises(x)
           \/ Eval(c)!ScoreError(x) \/ Eval(c)!ScoreRules(x) \/ Eval(c)!ScoreJudge(x) \/ Eval(c)!JudgeRaises(x)
    PROVE  EInv(c)'
<1>1. harness \in {"running", "raised", "over"} /\ gateway \in BOOLEAN /\ x \in DOMAIN verdict
  BY DEF EInv, ETypes
<1>2. kept \in [c.Cases -> Nat] /\ \A y \in c.Cases : kept[y] <= c.Rules[y]
  BY DEF EInv, ETypes
<1>3. phase[x] \in {"running", "answered", "mute", "errored"} => x \in Eval(c)!InSem
  BY DEF Eval!InSem
<1>4. CASE Eval(c)!Skip(x)
  <2>1. Eval(c)!Failed("none", TRUE) \in Eval(c)!Verdicts /\ Earned(c, Eval(c)!Failed("none", TRUE))
    BY EFailed
  <2>3. EWhole(c, x, Eval(c)!Failed("none", TRUE))
    BY EFailed
  <2>2. EMove(c, x, "done")
    BY <1>1, <1>2, <1>4, <2>1, <2>3 DEF Eval!Skip, Eval!Go, Eval!runs, EMove, Phases
  <2> QED BY <2>2, EMoves
<1>5. CASE Eval(c)!Enter(x)
  <2>1. Cardinality(Eval(c)!InSem) < c.Concurrency
    BY <1>5, ECount DEF Eval!Enter
  <2>2. EMove(c, x, "running")
    BY <1>1, <1>2, <1>5, <2>1 DEF Eval!Enter, Eval!Go, Eval!runs, EMove, Phases
  <2> QED BY <2>2, EMoves
<1>6. CASE Eval(c)!Answer(x)
  <2>1. PICK k \in 0..c.Rules[x] : kept' = [kept EXCEPT ![x] = k]
    BY <1>6 DEF Eval!Answer
  <2>2. c.Rules[x] \in Nat /\ k \in Nat /\ k <= c.Rules[x]
    BY <2>1 DEF Eval!ConstantsFit
  <2>3. kept' \in [c.Cases -> Nat] /\ \A y \in c.Cases : kept'[y] <= c.Rules[y]
    BY <1>2, <2>1, <2>2
  <2>4. EMove(c, x, "answered")
    BY <1>1, <1>3, <1>6, <2>3 DEF Eval!Answer, Eval!Go, Eval!runs, EMove, Phases
  <2> QED BY <2>4, EMoves
<1>7. CASE Eval(c)!AgentRaises(x)
  <2>1. CASE Eval(c)!Go(x, "running", "errored") /\ UNCHANGED kept
    <3>1. EMove(c, x, "errored")
      BY <1>1, <1>2, <1>3, <1>7, <2>1 DEF Eval!AgentRaises, Eval!Go, Eval!runs, EMove, Phases
    <3> QED BY <3>1, EMoves
  <2>2. CASE Eval(c)!Go(x, "running", "mute") /\ kept' = [kept EXCEPT ![x] = c.Forbidden[x]]
    <3>1. c.Forbidden[x] \in Nat /\ c.Forbidden[x] <= c.Rules[x]
      BY DEF Eval!ConstantsFit
    <3>2. kept' \in [c.Cases -> Nat] /\ \A y \in c.Cases : kept'[y] <= c.Rules[y]
      BY <1>2, <2>2, <3>1
    <3>3. EMove(c, x, "mute")
      BY <1>1, <1>3, <1>7, <2>2, <3>2 DEF Eval!AgentRaises, Eval!Go, Eval!runs, EMove, Phases
    <3> QED BY <3>3, EMoves
  <2> QED BY <1>7, <2>1, <2>2 DEF Eval!AgentRaises
<1>8. CASE Eval(c)!JudgeRaises(x)
  <2>1. harness' \in {harness, "raised"} /\ gateway' \in BOOLEAN
    BY <1>1, <1>8 DEF Eval!JudgeRaises
  <2>2. EMove(c, x, "raised")
    BY <1>1, <1>2, <1>3, <1>8, <2>1 DEF Eval!JudgeRaises, Eval!GoScored, Eval!Go, Eval!runs, EMove, Phases
  <2> QED BY <2>2, EMoves
<1>9. ASSUME NEW v \in Eval(c)!Verdicts, Earned(c, v), EWhole(c, x, v), Eval(c)!Scored(x, v),
             Eval(c)!Go(x, "errored", "done") \/ Eval(c)!GoScored(x, "done")
      PROVE  EInv(c)'
  <2>1. EMove(c, x, "done")
    BY <1>1, <1>2, <1>9 DEF Eval!Scored, Eval!GoScored, Eval!Go, Eval!runs, EMove, Phases
  <2> QED BY <2>1, EMoves
<1>10. CASE Eval(c)!ScoreError(x)
  <2>1. Eval(c)!ErrorVerdict(x) = Eval(c)!Failed("text", FALSE)
    BY DEF Eval!ErrorVerdict
  <2>2. Eval(c)!Failed("text", FALSE) \in Eval(c)!Verdicts /\ Earned(c, Eval(c)!Failed("text", FALSE))
    BY EFailed
  <2>3. PICK v \in Eval(c)!Verdicts : v = Eval(c)!Failed("text", FALSE)
    BY <2>2
  <2>4. Eval(c)!Scored(x, v) /\ Eval(c)!Go(x, "errored", "done")
    BY <1>10, <2>1, <2>3 DEF Eval!ScoreError
  <2>5. EWhole(c, x, v)
    BY <2>3, EFailed
  <2> QED BY <1>9, <2>2, <2>3, <2>4, <2>5
<1>11. CASE Eval(c)!ScoreRules(x)
  <2>1. PICK s \in 0..1000 : s = Eval(c)!RuleScore(x)
    BY ERuleScore DEF EInv
  <2>2. PICK v : v = Eval(c)!Verdict(x, s, TRUE)
    OBVIOUS
  <2>3. v \in Eval(c)!Verdicts /\ Earned(c, v) /\ v.score = s
    <3>0. PICK f : f = TRUE
      OBVIOUS
    <3>1. EScore(s, f)
      <4>1. s \in Int
        OBVIOUS
      <4> QED BY <3>0, <4>1 DEF EScore
    <3>2. v = Eval(c)!Verdict(x, s, f)
      BY <2>2, <3>0
    <3> QED BY <3>1, <3>2, EVerdict
  <2>4. Eval(c)!Scored(x, v) /\ Eval(c)!GoScored(x, "done")
    BY <1>11, <2>1, <2>2 DEF Eval!ScoreRules
  <2>5. EWhole(c, x, v)
    BY <2>1, <2>3 DEF EWhole
  <2> QED BY <1>9, <2>3, <2>4, <2>5
<1>12. CASE Eval(c)!ScoreJudge(x)
  <2>1. PICK reply \in c.Replies : Eval(c)!Scored(x, Eval(c)!Composite(x, reply))
    BY <1>12 DEF Eval!ScoreJudge
  <2>2. reply.score \in Int /\ reply.floor \in BOOLEAN
    BY DEF Eval!ConstantsFit
  <2>8. PICK r \in 0..1000 : r = Eval(c)!RuleScore(x)
    BY ERuleScore DEF EInv
  <2>9. PICK q, f : q = reply.score /\ f = reply.floor
    OBVIOUS
  <2>3. PICK s \in Int : s = (7 * q + 3 * r) \div 10
    <3> q \in Int
      BY <2>2, <2>9
    <3> QED OBVIOUS
  <2>4. PICK v : v = Eval(c)!Verdict(x, s, f)
    OBVIOUS
  <2>5. v = Eval(c)!Composite(x, reply)
    BY <2>3, <2>4, <2>8, <2>9 DEF Eval!Composite
  <2>6. v \in Eval(c)!Verdicts /\ Earned(c, v)
    <3>1. EScore(s, f)
      BY <2>2, <2>9 DEF EScore
    <3> QED BY <2>4, <3>1, EVerdict
  <2>7. Eval(c)!GoScored(x, "done")
    BY <1>12 DEF Eval!ScoreJudge
  <2>10. EWhole(c, x, v)
    BY <1>12 DEF EWhole, Eval!ScoreJudge
  <2> QED BY <1>9, <2>1, <2>5, <2>6, <2>7, <2>10
<1> QED BY <1>4, <1>5, <1>6, <1>7, <1>8, <1>10, <1>11, <1>12

\* The first state.
LEMMA EInit ==
    ASSUME NEW c, Eval(c)!ConstantsFit, Eval(c)!Init
    PROVE  EInv(c)
<1>1. ETypes(c)
  BY DEF Eval!Init, Eval!ConstantsFit, ETypes, Phases
<1>2. EFiles(c)
  BY DEF Eval!Init, EFiles
<1>3. \A x \in c.Cases : phase[x] = "new" /\ verdict[x] = None
  BY DEF Eval!Init
<1>4. Eval(c)!Bounded /\ Eval(c)!PassIsEarned /\ Eval(c)!EveryCaseCounted /\ Eval(c)!BaselineStands
  <2>1. Eval(c)!InSem = {}
    BY <1>3 DEF Eval!InSem
  <2>2. Eval(c)!Cardinality({}) = 0
    BY FS_EmptySet DEF Eval!Cardinality, Cardinality
  <2> QED BY <1>3, <2>1, <2>2 DEF Eval!Init, Eval!Bounded,
                               Eval!ConstantsFit, Eval!PassIsEarned, Eval!Done, Eval!EveryCaseCounted,
                               Eval!BaselineStands
<1>5. EScores(c)
  BY <1>3 DEF EScores
<1> QED BY <1>1, <1>2, <1>4, <1>5 DEF EInv

\* A run that finishes saves its verdicts in its own file, compares them with the earlier one and counts them.
LEMMA EFinishes ==
    ASSUME NEW c, Eval(c)!ConstantsFit, EInv(c), Eval(c)!Finish
    PROVE  EInv(c)'
<1>1. ETypes(c)'
  BY DEF EInv, ETypes, Eval!Finish
<1>2. saved' = [saved EXCEPT ![id] = verdict] /\ UNCHANGED <<phase, verdict, id, base, earlier>>
  BY DEF Eval!Finish
<1>3. saved'[id] = verdict /\ \A s \in c.Seconds : s # id => saved'[s] = saved[s]
  BY <1>2 DEF EInv, ETypes
<1>4. EFiles(c)'
  <2>1. \A x \in c.Cases : phase'[x] = "done"
    BY <1>2 DEF Eval!Finish
  <2>2. harness' = "over"
    BY DEF Eval!Finish
  <2>3. c.MinTick > 0 /\ base # None => id # base /\ saved'[base] = earlier
    BY <1>3 DEF EInv, EFiles, ETypes
  <2> QED BY <1>2, <1>3, <2>1, <2>2, <2>3 DEF EFiles
<1>5. Eval(c)!Bounded' /\ Eval(c)!PassIsEarned'
  <2>1. Eval(c)!InSem' = Eval(c)!InSem
    BY <1>2 DEF Eval!InSem
  <2>2. Eval(c)!Bounded'
    BY <2>1 DEF EInv, Eval!Bounded
  <2> QED BY <1>2, <2>2 DEF EInv, Eval!PassIsEarned, Eval!Done
<1>6. Eval(c)!EveryCaseCounted'
  <2>1. summary' = Eval(c)!Count(verdict)
    BY DEF Eval!Finish
  <2>2. Eval(c)!ScoredCases(verdict) \cup {x \in c.Cases : verdict[x].error = "text"} = c.Cases
    BY DEF Eval!ScoredCases
  <2>3. Eval(c)!ScoredCases(verdict) \cap {x \in c.Cases : verdict[x].error = "text"} = {}
    BY DEF Eval!ScoredCases
  <2>4. PICK s, p, e : s = Eval(c)!ScoredCases(verdict) /\ p = {x \in s : verdict[x].passed}
                       /\ e = {x \in c.Cases : verdict[x].error = "text"}
    OBVIOUS
  <2>5. summary'.passed = p /\ summary'.failed = s \ p /\ summary'.errored = e
    BY <2>1, <2>4 DEF Eval!Count
  <2>6. p \subseteq s /\ s \cup e = c.Cases /\ s \cap e = {}
    BY <2>2, <2>3, <2>4
  <2> QED BY <2>5, <2>6 DEF Eval!EveryCaseCounted
<1>7. c.MinTick > 0 => Eval(c)!BaselineStands'
  <2>1. CASE base = None
    BY <2>1 DEF Eval!Finish, Eval!BaselineStands
  <2>2. CASE base # None /\ c.MinTick > 0
    <3>1. saved'[base] = earlier
      BY <1>3, <2>2 DEF EInv, EFiles, ETypes
    <3>2. report' = Eval(c)!Compare(earlier, verdict)
      BY <2>2, <3>1 DEF Eval!Finish, Eval!BaseFile
    <3>3. Eval(c)!Compare(earlier, verdict)' = Eval(c)!Compare(earlier, verdict)
      BY <1>2 DEF Eval!Compare
    <3> QED BY <1>2, <3>2, <3>3 DEF Eval!BaselineStands
  <2> QED BY <2>1, <2>2
<1>8. EScores(c)'
  BY <1>2 DEF EInv, EScores
<1> QED BY <1>1, <1>4, <1>5, <1>6, <1>7, <1>8 DEF EInv

\* A second run begins in a later second, so that its file is another.
LEMMA EAgain ==
    ASSUME NEW c, Eval(c)!ConstantsFit, EInv(c), Eval(c)!Again
    PROVE  EInv(c)'
<1>1. PICK s \in c.Seconds : s >= id + c.MinTick /\ id' = s
  BY DEF Eval!Again
<1>2. /\ harness = "over" /\ base' = id /\ earlier' = verdict /\ saved' = saved /\ report' = None /\ summary' = None
      /\ harness' = "running" /\ gateway' = TRUE /\ phase' = [x \in c.Cases |-> "new"]
      /\ kept' = [x \in c.Cases |-> 0] /\ verdict' = [x \in c.Cases |-> None]
  BY DEF Eval!Again
<1>3. ETypes(c)'
  BY <1>1, <1>2 DEF EInv, ETypes, Eval!ConstantsFit, Phases
<1>4. EFiles(c)'
  <2>1. saved[id] = verdict
    BY <1>2 DEF EInv, EFiles
  <2>2. c.MinTick > 0 => s # id
    BY <1>1 DEF EInv, ETypes, Eval!ConstantsFit
  <2> QED BY <1>1, <1>2, <2>1, <2>2 DEF EFiles
<1>5. (\A x \in c.Cases : phase[x] = "new" /\ verdict[x] = None)' /\ (report = None)' /\ (summary = None)'
  BY <1>2
<1>6. (Eval(c)!Bounded /\ Eval(c)!PassIsEarned /\ Eval(c)!EveryCaseCounted /\ Eval(c)!BaselineStands)'
  <2>1. Eval(c)!InSem' = {}
    BY <1>5 DEF Eval!InSem
  <2>2. Eval(c)!Cardinality({}) = 0
    BY FS_EmptySet DEF Eval!Cardinality, Cardinality
  <2> QED BY <1>5, <2>1, <2>2 DEF Eval!Bounded, Eval!ConstantsFit, Eval!PassIsEarned, Eval!Done, Eval!EveryCaseCounted,
                               Eval!BaselineStands
<1>7. EScores(c)'
  BY <1>5 DEF EScores
<1> QED BY <1>3, <1>4, <1>6, <1>7 DEF EInv

\* The invariant is inductive.
LEMMA EStep ==
    ASSUME NEW c, Eval(c)!ConstantsFit, EInv(c), [Eval(c)!Next]_(Eval(c)!vars)
    PROVE  EInv(c)'
<1>1. CASE Eval(c)!Next
  BY <1>1, ECases, EFinishes, EAgain DEF Eval!Next
<1>2. CASE UNCHANGED Eval(c)!vars
  <2>1. UNCHANGED <<harness, phase, kept, verdict, gateway, id, base, saved, earlier, report, summary>>
    BY <1>2 DEF Eval!vars
  <2>2. ETypes(c)' /\ EScores(c)' /\ EFiles(c)'
    BY <2>1 DEF EInv, ETypes, EScores, EFiles
  <2>3. Eval(c)!InSem' = Eval(c)!InSem
    BY <2>1 DEF Eval!InSem
  <2>4. Eval(c)!Bounded' /\ Eval(c)!PassIsEarned' /\ Eval(c)!EveryCaseCounted'
    BY <2>1, <2>3 DEF EInv, Eval!Bounded, Eval!PassIsEarned, Eval!Done, Eval!EveryCaseCounted
  <2>5. c.MinTick > 0 => Eval(c)!BaselineStands'
    BY <2>1 DEF EInv, Eval!BaselineStands, Eval!Compare
  <2> QED BY <2>2, <2>4, <2>5 DEF EInv
<1> QED BY <1>1, <1>2

\* The invariant implies what the harness promises.
LEMMA EHolds ==
    ASSUME NEW c, Eval(c)!ConstantsFit, EInv(c)
    PROVE  Eval(c)!VerdictsHold
<1>1. \A x \in c.Cases : verdict[x] # None => verdict[x].score \in (IF x \in c.Judged THEN Int ELSE 0..1000)
  BY DEF EInv, ETypes, EScores, Eval!Verdicts
<1>2. \A x \in c.Cases : kept[x] \in 0..c.Rules[x]
  BY DEF EInv, ETypes, Eval!ConstantsFit
<1>3. Eval(c)!TypeOK
  BY <1>1, <1>2 DEF EInv, ETypes, Phases, Eval!TypeOK, Eval!Done
<1> QED BY <1>3 DEF EInv, Eval!VerdictsHold

----------------------------------------
(* World.  What a process saves is a record and what it routes was decided *)
(* by the rules and written (WOne); where commands take turns, a file is *)
(* torn only while it is written, and what a process read of the agents *)
(* still stands (WAlone). *)

files == v1
world == v2
newest == v3
deleted == v4
audit == v5
signals == v6
process == v7
begun == v8
USE DEF files, world, newest, deleted, audit, signals, process, begun

WSteps == {"idle", "save", "write", "confirm", "settle", "classify", "load", "run", "asked", "raised", "unloadable"}
WProcess(c) ==
    [at : WSteps, op : {"none", "create", "edit", "delete", "route", "named"}, task : c.Tasks \cup {c.Blank},
     agent : c.Agents \cup {None}, record : Routing(c)!Record \cup {None, c.Torn, c.Missing}, pool : SUBSET c.Agents,
     layer : {"none", "explicit", "rule", "reflex", "default"}, audited : {"no", "yes", "failed"}]

\* The rules of w that fire for the process q, and what the router decided of it.
WFires(w, q) ==
    {i \in DOMAIN w.rules : w.rules[i].enabled /\ w.rules[i].target \in q.pool /\ q.task \in w.rules[i].tasks}
WFirst(w, i, j) ==
    \/ w.rules[j].priority < w.rules[i].priority
    \/ w.rules[j].priority = w.rules[i].priority /\ i <= j
WDecided(w, q) ==
    IF WFires(w, q) = {} THEN q.layer \in {"default", "reflex"}
    ELSE /\ q.layer = "rule"
         /\ \E i \in WFires(w, q) : w.rules[i].target = q.agent /\ \A j \in WFires(w, q) : WFirst(w, i, j)

\* What is so of a process q by itself: what it will write is a record, and what it
\* routes was decided by the rules and written before it went on.
WSaves(c, q) ==
    /\ q.at \in {"save", "write"} =>
         /\ q.op \in {"create", "edit", "delete"} /\ q.agent \in c.Agents /\ q.record \in Routing(c)!Record
         /\ "edit" \notin c.Ops => q.record.card # c.WorldCard
    /\ q.at = "confirm" => q.op = "delete" /\ q.agent \in c.Agents
WRoutes(c, w, aud, q) ==
    /\ q.at \in {"settle", "classify", "load", "run", "asked", "raised", "unloadable"} => q.op \in {"route", "named"}
    /\ q.at \in {"settle", "load", "run"} /\ q.op = "named" => q.agent \in c.Agents /\ q.record \in Routing(c)!Record
    /\ q.at \in {"load", "run"} => q.agent \in c.Agents
    /\ q.at = "classify" => q.op = "route" /\ q.layer = "default"
    /\ q.op = "route" => q.agent \in q.pool \cup {None}
    /\ q.op = "route" /\ q.at \in {"classify", "settle"} => WDecided(w, q)
    /\ q.at = "settle" => q.layer # "none"
    /\ q.at \in {"load", "run", "asked"} =>
         q.audited = "failed" \/ \E d \in aud : d.agent = q.agent /\ d.task = q.task /\ d.layer = q.layer
    /\ q.at = "run" => q.record \in Routing(c)!Record

\* What is so of a process that has the files fs to itself: a file is torn only while
\* the process writes it, and what it read still stands.
WAlone(c, fs, del, q) ==
    /\ \A a \in c.Agents : fs[a] = c.Torn => q.at = "write" /\ q.agent = a
    /\ q.op = "route" => q.at # "raised" /\ \A a \in q.pool : fs[a] \in Routing(c)!Record /\ ~fs[a].archived
    /\ q.op = "route" /\ q.at = "run" => ~q.record.archived
    /\ q.at \in {"save", "write"} => IF q.op = "delete" THEN q.record.archived ELSE q.agent \notin del
WDeleted(c, fs, del) ==
    del \subseteq c.Agents /\ \A a \in del : fs[a] # c.Missing /\ (fs[a] \in Routing(c)!Record => fs[a].archived)

WFiles(c, fs) ==
    /\ fs \in [c.Agents -> Routing(c)!Record \cup {c.Torn, c.Missing}]
    /\ "edit" \notin c.Ops => \A a \in c.Agents : fs[a] \in Routing(c)!Record => fs[a].card # c.WorldCard
WHistory(c, new, aud) ==
    /\ new \in [c.Agents -> c.Tasks \cup {c.Blank, None}]
    /\ \A d \in aud : d.layer \in {"explicit", "rule", "reflex", "default"}
WOne(c, w, aud, q) == q \in WProcess(c) /\ WSaves(c, q) /\ WRoutes(c, w, aud, q)

WInv(c) ==
    /\ world \in c.Worlds /\ WFiles(c, files) /\ WHistory(c, newest, audit)
    /\ DOMAIN process = c.Procs /\ \A p \in c.Procs : WOne(c, world, audit, process[p])
    /\ Routing(c)!TakeTurns =>
         WDeleted(c, files, deleted) /\ \A p \in c.Procs : WAlone(c, files, deleted, process[p])

\* Of two rules one outranks the other.
LEMMA WRanks ==
    ASSUME NEW w, NEW i, NEW j, i \in Int, j \in Int, w.rules[i].priority \in Int, w.rules[j].priority \in Int
    PROVE  /\ WFirst(w, i, i)
           /\ i < j /\ ~WFirst(w, i, j) => WFirst(w, j, i) /\ w.rules[i].priority < w.rules[j].priority
BY DEF WFirst

\* What a rule outranks, one of a higher priority outranks.
LEMMA WHigher ==
    ASSUME NEW w, NEW i, NEW j, NEW k, w.rules[i].priority \in Int, w.rules[j].priority \in Int, w.rules[k].priority \in Int,
           w.rules[i].priority < w.rules[k].priority, WFirst(w, i, j)
    PROVE  WFirst(w, k, j)
BY DEF WFirst

WBestOf(w, F, k) == \E i \in F : i <= k /\ \A j \in F : j <= k => WFirst(w, i, j)
WSomeOf(F, k) == \E i \in F : i <= k

\* A set of numbers that is not empty has a least one.
LEMMA HasLeast ==
    ASSUME NEW S, S \subseteq Nat, S # {}
    PROVE  \E k \in S : \A m \in S : k <= m
<1> DEFINE R == {pair \in Nat \X Nat : pair[1] < pair[2]}
<1>1. IsWellFoundedOn(R, Nat)
  BY NatLessThanWellFounded DEF OpToRel
<1>2. PICK k \in S : \A m \in S : ~(<<m, k>> \in R)
  <2> HIDE DEF R
  <2> QED BY <1>1, WFMin
<1>3. \A m \in S : ~(m < k)
  BY <1>2
<1> QED BY <1>2, <1>3

\* Of rules that fire one outranks the others: the best of the first k, for every k.
LEMMA WBest ==
    ASSUME NEW c, NEW w, w.rules \in Seq(Routing(c)!Rule), NEW F, F \subseteq DOMAIN w.rules, F # {}
    PROVE  \E i \in F : \A j \in F : WFirst(w, i, j)
<1>1. PICK n \in Nat : DOMAIN w.rules = 1..n /\ w.rules \in [1..n -> Routing(c)!Rule]
  BY BSequence
<1>2. \A i \in F : i \in Nat /\ 1 <= i /\ i <= n
  BY <1>1
<1>3. \A i \in F : w.rules[i].priority \in Int
  <2>1. \A i \in F : w.rules[i] \in Routing(c)!Rule
    BY <1>1
  <2> QED BY <2>1 DEF Routing!Rule
<1> DEFINE bad == {k \in Nat : WSomeOf(F, k) /\ ~WBestOf(w, F, k)}
<1>4. ASSUME NEW k \in Nat, \A m \in Nat : m < k => m \notin bad PROVE k \notin bad
  <2>1. SUFFICES ASSUME WSomeOf(F, k) PROVE WBestOf(w, F, k)
    OBVIOUS
  <2>2. k # 0
    BY <1>2, <2>1 DEF WSomeOf
  <2>3. PICK m \in Nat : k = m + 1
    BY <2>2, k - 1 \in Nat, k = (k - 1) + 1
  <2>4. WSomeOf(F, m) => WBestOf(w, F, m)
    BY <1>4, <2>3
  <2>5. \A i \in F : i <= k <=> i = k \/ i <= m
    BY <1>2, <2>3
  <2>6. \A i, j \in F : WFirst(w, i, i)
                       /\ (i < j /\ ~WFirst(w, i, j) => WFirst(w, j, i) /\ w.rules[i].priority < w.rules[j].priority)
    BY <1>2, <1>3, WRanks
  <2>7. CASE ~WSomeOf(F, m)
    <3>1. k \in F /\ \A j \in F : j <= k => j = k
      BY <2>1, <2>5, <2>7 DEF WSomeOf
    <3> QED BY <2>6, <3>1 DEF WBestOf
  <2>8. CASE k \notin F
    BY <2>1, <2>4, <2>5, <2>8 DEF WBestOf, WSomeOf
  <2>9. CASE k \in F /\ WBestOf(w, F, m)
    <3>1. PICK i \in F : i <= m /\ \A j \in F : j <= m => WFirst(w, i, j)
      BY <2>9 DEF WBestOf
    <3>2. CASE WFirst(w, i, k)
      BY <2>5, <3>1, <3>2 DEF WBestOf
    <3>3. CASE ~WFirst(w, i, k)
      <4>1. i < k
        BY <1>2, <2>3, <3>1
      <4>2. WFirst(w, k, k) /\ w.rules[i].priority < w.rules[k].priority
        BY <2>6, <2>9, <3>3, <4>1
      <4>3. \A j \in F : j <= m => WFirst(w, k, j)
        BY <1>3, <2>9, <3>1, <4>2, WHigher
      <4>4. k <= k
        OBVIOUS
      <4> QED BY <2>5, <2>9, <4>2, <4>3, <4>4 DEF WBestOf
    <3> QED BY <3>2, <3>3
  <2> QED BY <2>4, <2>7, <2>8, <2>9
<1> HIDE DEF bad
<1>5. bad \subseteq Nat
  BY DEF bad
<1>6. bad = {}
  <2>1. SUFFICES ASSUME NEW b \in bad PROVE FALSE
    OBVIOUS
  <2>2. PICK k \in bad : \A m \in bad : k <= m
    BY <1>5, <2>1, HasLeast
  <2>3. k \in Nat /\ \A m \in Nat : m < k => m \notin bad
    BY <1>5, <2>2
  <2> QED BY <1>4, <2>2, <2>3
<1>7. WSomeOf(F, n)
  BY <1>1, <1>2 DEF WSomeOf
<1>8. WBestOf(w, F, n)
  BY <1>1, <1>6, <1>7 DEF bad
<1> QED BY <1>2, <1>8 DEF WBestOf

\* What holds of a process by itself goes on to hold while decisions are written.
LEMMA WKept ==
    ASSUME NEW c, NEW w, NEW aud, NEW more, aud \subseteq more, NEW q, WOne(c, w, aud, q)
    PROVE  WOne(c, w, more, q)
BY DEF WOne, WRoutes

\* A step of one process keeps what is so of the others, or there are none.
LEMMA WMoves ==
    ASSUME NEW c, WInv(c), NEW p \in c.Procs, NEW q, process' = [process EXCEPT ![p] = q],
           world' = world, audit \subseteq audit', WFiles(c, files'), WHistory(c, newest', audit'),
           WOne(c, world, audit', q),
           Routing(c)!TakeTurns => WDeleted(c, files', deleted') /\ WAlone(c, files', deleted', q)
    PROVE  WInv(c)'
<1>1. /\ world \in c.Worlds /\ DOMAIN process = c.Procs
      /\ \A r \in c.Procs : WOne(c, world, audit, process[r])
  BY DEF WInv
<1>2. \A r \in c.Procs : process'[r] = IF r = p THEN q ELSE process[r]
  BY <1>1
<1>3. \A r \in c.Procs : WOne(c, world, audit', process'[r])
  <2> SUFFICES ASSUME NEW r \in c.Procs PROVE WOne(c, world, audit', process'[r])
    OBVIOUS
  <2>1. PICK w, aud, more, one : w = world /\ aud = audit /\ more = audit' /\ one = process[r]
    OBVIOUS
  <2>2. WOne(c, w, more, one)
    BY <1>1, <2>1, WKept
  <2> QED BY <1>2, <2>1, <2>2
<1>4. Routing(c)!TakeTurns => \A r \in c.Procs : r = p
  BY DEF Routing!TakeTurns
<1>5. Routing(c)!TakeTurns => \A r \in c.Procs : WAlone(c, files', deleted', process'[r])
  BY <1>2, <1>4
<1>6. DOMAIN process' = c.Procs
  BY <1>1
<1>7. world' \in c.Worlds /\ \A r \in c.Procs : WOne(c, world', audit', process'[r])
  BY <1>1, <1>3
<1>8. Routing(c)!TakeTurns' <=> Routing(c)!TakeTurns
  BY DEF Routing!TakeTurns
<1> QED BY <1>5, <1>6, <1>7, <1>8 DEF WInv

\* What a process holds.
WCarries(q, at, op, task, agent, record, pool, layer, audited) ==
    /\ q.at = at /\ q.op = op /\ q.task = task /\ q.agent = agent /\ q.record = record
    /\ q.pool = pool /\ q.layer = layer /\ q.audited = audited

\* A process at rest, and what the commands make of it.
LEMMA WIdle ==
    ASSUME NEW c
    PROVE  /\ Routing(c)!Idle \in WProcess(c)
           /\ WCarries(Routing(c)!Idle, "idle", "none", c.Blank, None, None, {}, "none", "no")
<1>1. Routing(c)!Idle \in WProcess(c)
  BY DEF Routing!Idle, WProcess, WSteps
<1>2. WCarries(Routing(c)!Idle, "idle", "none", c.Blank, None, None, {}, "none", "no")
  BY DEF Routing!Idle, WCarries
<1> QED BY <1>1, <1>2

\* A command that saves a record.
LEMMA WSaved ==
    ASSUME NEW c, NEW op \in {"create", "edit"}, NEW a \in c.Agents, NEW r \in Routing(c)!Record, NEW q,
           q = [Routing(c)!Idle EXCEPT !.at = "save", !.op = op, !.agent = a, !.record = r]
    PROVE  q \in WProcess(c) /\ WCarries(q, "save", op, c.Blank, a, r, {}, "none", "no")
<1>1. q \in WProcess(c)
  BY DEF Routing!Idle, WProcess, WSteps
<1>2. WCarries(q, "save", op, c.Blank, a, r, {}, "none", "no")
  BY DEF Routing!Idle, WCarries
<1> QED BY <1>1, <1>2

\* A deletion that waits to be confirmed.
LEMMA WAsked ==
    ASSUME NEW c, NEW a \in c.Agents, NEW q,
           q = [Routing(c)!Idle EXCEPT !.at = "confirm", !.op = "delete", !.agent = a]
    PROVE  q \in WProcess(c) /\ WCarries(q, "confirm", "delete", c.Blank, a, None, {}, "none", "no")
<1>1. q \in WProcess(c)
  BY DEF Routing!Idle, WProcess, WSteps
<1>2. WCarries(q, "confirm", "delete", c.Blank, a, None, {}, "none", "no")
  BY DEF Routing!Idle, WCarries
<1> QED BY <1>1, <1>2

\* A run whose agent was named.
LEMMA WNamed ==
    ASSUME NEW c, NEW a \in c.Agents, NEW r \in Routing(c)!Record, NEW t \in c.Tasks, NEW at \in {"raised", "settle"}, NEW q,
           q = [Routing(c)!Idle EXCEPT !.at = at, !.op = "named", !.task = t, !.agent = a, !.record = r,
                                       !.layer = "explicit"]
    PROVE  q \in WProcess(c) /\ WCarries(q, at, "named", t, a, r, {}, "explicit", "no")
<1>1. q \in WProcess(c)
  BY DEF Routing!Idle, WProcess, WSteps
<1>2. WCarries(q, at, "named", t, a, r, {}, "explicit", "no")
  BY DEF Routing!Idle, WCarries
<1> QED BY <1>1, <1>2

\* What a route may have decided.
WChoice(c, at, a, s, t, l) ==
    /\ at \in {"raised", "classify", "settle"} /\ a \in c.Agents \cup {None} /\ s \in SUBSET c.Agents
    /\ t \in c.Tasks \cup {c.Blank} /\ l \in {"rule", "default"}

\* A route.
LEMMA WRouted ==
    ASSUME NEW c, NEW at, NEW a, NEW s, NEW t, NEW l, WChoice(c, at, a, s, t, l), NEW q,
           q = [Routing(c)!Idle EXCEPT !.op = "route", !.task = t, !.agent = a, !.pool = s, !.layer = l, !.at = at]
    PROVE  q \in WProcess(c) /\ WCarries(q, at, "route", t, a, None, s, l, "no")
<1>1. q \in WProcess(c)
  BY DEF WChoice, Routing!Idle, WProcess, WSteps
<1>2. WCarries(q, at, "route", t, a, None, s, l, "no")
  BY DEF Routing!Idle, WCarries
<1> QED BY <1>1, <1>2

\* A process at rest: no condition bears on it.
LEMMA WResting ==
    ASSUME NEW c, NEW w, NEW aud
    PROVE  /\ WOne(c, w, aud, Routing(c)!Idle)
           /\ \A fs, del : (\A a \in c.Agents : fs[a] # c.Torn) => WAlone(c, fs, del, Routing(c)!Idle)
<1> DEFINE q == Routing(c)!Idle
<1>1. /\ q.at = "idle" /\ q.op = "none" /\ q.task = c.Blank /\ q.agent = None /\ q.record = None /\ q.pool = {}
      /\ q.layer = "none" /\ q.audited = "no"
  BY WIdle DEF WCarries
<1>2. q \in WProcess(c)
  BY WIdle
<1> HIDE DEF q
<1>3. WSaves(c, q) /\ WRoutes(c, w, aud, q)
  BY <1>1 DEF WSaves, WRoutes
<1> QED BY <1>1, <1>2, <1>3 DEF WOne, WAlone, q

\* A process p of the invariant.
LEMMA WAt ==
    ASSUME NEW c, Routing(c)!ConstantsFit, WInv(c), NEW p \in c.Procs
    PROVE  /\ process[p] \in WProcess(c) /\ WSaves(c, process[p]) /\ WRoutes(c, world, audit, process[p])
           /\ WFiles(c, files) /\ WHistory(c, newest, audit)
           /\ Routing(c)!TakeTurns => WDeleted(c, files, deleted) /\ WAlone(c, files, deleted, process[p])
BY DEF WInv, WOne

\* The agents whose records can be read.
LEMMA WWhole ==
    ASSUME NEW c, Routing(c)!ConstantsFit, WFiles(c, files), NEW a \in c.Agents
    PROVE  /\ Routing(c)!Whole(a) <=> files[a] \in Routing(c)!Record
           /\ a \in Routing(c)!Listed <=> files[a] \in Routing(c)!Record /\ ~files[a].archived
<1>1. Routing(c)!Whole(a) <=> files[a] \in Routing(c)!Record
  BY DEF WFiles, Routing!ConstantsFit, Routing!Whole
<1> QED BY <1>1 DEF Routing!Listed

\* A process that begins to save: what it saves is new, or of an agent that is not deleted.
LEMMA WSaving ==
    ASSUME NEW c, Routing(c)!ConstantsFit, WInv(c), NEW p \in c.Procs, process[p].at = "idle",
           NEW op \in {"create", "edit"}, NEW a \in c.Agents, NEW r \in Routing(c)!Record,
           "edit" \notin c.Ops => r.card # c.WorldCard, Routing(c)!TakeTurns => a \notin deleted,
           process' = [process EXCEPT ![p] = [Routing(c)!Idle EXCEPT !.at = "save", !.op = op, !.agent = a, !.record = r]],
           UNCHANGED <<files, world, newest, deleted, audit>>
    PROVE  WInv(c)'
<1>1. PICK q : q = [Routing(c)!Idle EXCEPT !.at = "save", !.op = op, !.agent = a, !.record = r]
  OBVIOUS
<1>2. process' = [process EXCEPT ![p] = q]
  BY <1>1
<1>3. q \in WProcess(c) /\ WCarries(q, "save", op, c.Blank, a, r, {}, "none", "no")
  BY <1>1, WSaved
<1>4. WSaves(c, q) /\ WRoutes(c, world, audit, q)
  BY <1>3 DEF WCarries, WSaves, WRoutes
<1>5. Routing(c)!TakeTurns => WAlone(c, files, deleted, q)
  BY <1>3, WAt DEF WAlone, WCarries
<1> QED BY <1>2, <1>3, <1>4, <1>5, WAt, WMoves DEF WOne

\* What a process that goes on holds.
LEMMA WGoesOn ==
    ASSUME NEW c, NEW q \in WProcess(c), NEW at \in WSteps, NEW r, r = [q EXCEPT !.at = at]
    PROVE  r \in WProcess(c) /\ WCarries(r, at, q.op, q.task, q.agent, q.record, q.pool, q.layer, q.audited)
<1>1. r \in WProcess(c)
  BY DEF WProcess
<1>2. WCarries(r, at, q.op, q.task, q.agent, q.record, q.pool, q.layer, q.audited)
  BY DEF WProcess, WCarries
<1> QED BY <1>1, <1>2

\* What a process holds that has read a record.
LEMMA WReads ==
    ASSUME NEW c, NEW q \in WProcess(c), NEW at \in WSteps, NEW x \in Routing(c)!Record \cup {c.Torn, c.Missing}, NEW r,
           r = [q EXCEPT !.at = at, !.record = x]
    PROVE  r \in WProcess(c) /\ WCarries(r, at, q.op, q.task, q.agent, x, q.pool, q.layer, q.audited)
<1>1. r \in WProcess(c)
  BY DEF WProcess
<1>2. WCarries(r, at, q.op, q.task, q.agent, x, q.pool, q.layer, q.audited)
  BY DEF WProcess, WCarries
<1> QED BY <1>1, <1>2

\* What a route holds whose agent the classifier picked.
LEMMA WPicked ==
    ASSUME NEW c, NEW q \in WProcess(c), NEW a \in c.Agents, NEW r,
           r = [q EXCEPT !.at = "settle", !.agent = a, !.layer = "reflex"]
    PROVE  r \in WProcess(c) /\ WCarries(r, "settle", q.op, q.task, a, q.record, q.pool, "reflex", q.audited)
<1>1. r \in WProcess(c)
  BY DEF WProcess, WSteps
<1>2. WCarries(r, "settle", q.op, q.task, a, q.record, q.pool, "reflex", q.audited)
  BY DEF WProcess, WCarries
<1> QED BY <1>1, <1>2

\* What a process holds whose decision was written, or failed to be.
LEMMA WAudited ==
    ASSUME NEW c, NEW q \in WProcess(c), NEW at \in {"asked", "load"}, NEW x \in {"yes", "failed"}, NEW r,
           r = [q EXCEPT !.audited = x, !.at = at]
    PROVE  r \in WProcess(c) /\ WCarries(r, at, q.op, q.task, q.agent, q.record, q.pool, q.layer, x)
<1>1. r \in WProcess(c)
  BY DEF WProcess, WSteps
<1>2. WCarries(r, at, q.op, q.task, q.agent, q.record, q.pool, q.layer, x)
  BY DEF WProcess, WCarries
<1> QED BY <1>1, <1>2

(* The commands. *)

\* A new agent has no file, so none that was deleted is made again.
LEMMA WCreate ==
    ASSUME NEW c, Routing(c)!ConstantsFit, WInv(c), NEW p \in c.Procs, Routing(c)!Create(p)
    PROVE  WInv(c)'
<1>1. PICK a \in c.Agents, d \in c.Cards :
        /\ files[a] = c.Missing
        /\ Routing(c)!Goto(p, [Routing(c)!Idle EXCEPT !.at = "save", !.op = "create", !.agent = a,
                                                   !.record = [card |-> d, model |-> TRUE, archived |-> FALSE]])
  BY DEF Routing!Create, Routing!Creatable
<1>2. PICK r : r = [card |-> d, model |-> TRUE, archived |-> FALSE]
  OBVIOUS
<1>3. r \in Routing(c)!Record /\ r.card # c.WorldCard
  BY <1>2 DEF Routing!Record, Routing!ConstantsFit
<1>4. Routing(c)!TakeTurns => a \notin deleted
  BY <1>1, WAt DEF WDeleted
<1>5. process[p].at = "idle" /\ UNCHANGED <<files, world, newest, deleted, audit>>
  BY DEF Routing!Create, Routing!Begin
<1>6. process' = [process EXCEPT ![p] = [Routing(c)!Idle EXCEPT !.at = "save", !.op = "create", !.agent = a, !.record = r]]
  BY <1>1, <1>2 DEF Routing!Goto
<1> QED BY <1>3, <1>4, <1>5, <1>6, WSaving

\* An agent that is edited can be read and is not archived, so it is not a deleted one.
LEMMA WEdit ==
    ASSUME NEW c, Routing(c)!ConstantsFit, WInv(c), NEW p \in c.Procs, Routing(c)!Edit(p)
    PROVE  WInv(c)'
<1>1. PICK a \in Routing(c)!Listed, d \in c.Cards \cup {c.WorldCard} :
        Routing(c)!Goto(p, [Routing(c)!Idle EXCEPT !.at = "save", !.op = "edit", !.agent = a,
                                                   !.record = [files[a] EXCEPT !.card = d]])
  BY DEF Routing!Edit
<1>2. a \in c.Agents /\ files[a] \in Routing(c)!Record /\ ~files[a].archived
  <2>1. a \in c.Agents
    BY DEF Routing!Listed
  <2> QED BY <2>1, WAt, WWhole
<1>3. PICK r : r = [files[a] EXCEPT !.card = d]
  OBVIOUS
<1>4. r \in Routing(c)!Record
  BY <1>2, <1>3 DEF Routing!Record
<1>5. Routing(c)!TakeTurns => a \notin deleted
  BY <1>2, WAt DEF WDeleted
<1>6. process[p].at = "idle" /\ "edit" \in c.Ops /\ UNCHANGED <<files, world, newest, deleted, audit>>
  BY DEF Routing!Edit, Routing!Begin
<1>7. process' = [process EXCEPT ![p] = [Routing(c)!Idle EXCEPT !.at = "save", !.op = "edit", !.agent = a, !.record = r]]
  BY <1>1, <1>3 DEF Routing!Goto
<1> QED BY <1>2, <1>4, <1>5, <1>6, <1>7, WSaving

\* A deletion is to be confirmed.
LEMMA WDelete ==
    ASSUME NEW c, Routing(c)!ConstantsFit, WInv(c), NEW p \in c.Procs, Routing(c)!Delete(p)
    PROVE  WInv(c)'
<1>1. PICK a \in Routing(c)!Listed :
        Routing(c)!Goto(p, [Routing(c)!Idle EXCEPT !.at = "confirm", !.op = "delete", !.agent = a])
  BY DEF Routing!Delete
<1>2. a \in c.Agents
  BY DEF Routing!Listed
<1>3. PICK q : q = [Routing(c)!Idle EXCEPT !.at = "confirm", !.op = "delete", !.agent = a]
  OBVIOUS
<1>4. q \in WProcess(c) /\ WCarries(q, "confirm", "delete", c.Blank, a, None, {}, "none", "no")
  BY <1>2, <1>3, WAsked
<1>5. process' = [process EXCEPT ![p] = q] /\ process[p].at = "idle" /\ UNCHANGED <<files, world, newest, deleted, audit>>
  BY <1>1, <1>3 DEF Routing!Goto, Routing!Delete, Routing!Begin
<1>6. WSaves(c, q) /\ WRoutes(c, world, audit, q)
  BY <1>2, <1>4 DEF WCarries, WSaves, WRoutes
<1>7. Routing(c)!TakeTurns => WAlone(c, files, deleted, q)
  BY <1>4, <1>5, WAt DEF WAlone, WCarries
<1> QED BY <1>4, <1>5, <1>6, <1>7, WAt, WMoves DEF WOne

\* A command that is done: no file stays torn unless it was cut off.
LEMMA WEnds ==
    ASSUME NEW c, Routing(c)!ConstantsFit, WInv(c), NEW p \in c.Procs, Routing(c)!Done(p),
           UNCHANGED <<files, world, deleted, audit>>, WHistory(c, newest', audit'),
           Routing(c)!TakeTurns => process[p].at # "write"
    PROVE  WInv(c)'
<1>1. PICK q : q = Routing(c)!Idle
  OBVIOUS
<1>2. process' = [process EXCEPT ![p] = q]
  BY <1>1 DEF Routing!Done, Routing!Goto
<1>3. Routing(c)!TakeTurns => \A a \in c.Agents : files[a] # c.Torn
  BY WAt DEF WAlone
<1>4. WOne(c, world, audit', q) /\ (Routing(c)!TakeTurns => WAlone(c, files, deleted, q))
  BY <1>1, <1>3, WResting
<1> QED BY <1>2, <1>4, WAt, WMoves

\* A deletion that is confirmed saves an archived record, with the card it had.
LEMMA WConfirm ==
    ASSUME NEW c, Routing(c)!ConstantsFit, WInv(c), NEW p \in c.Procs, Routing(c)!Confirm(p)
    PROVE  WInv(c)'
<1>1. UNCHANGED <<files, world, newest, deleted, audit>> /\ process[p].at = "confirm"
  BY DEF Routing!Confirm, Routing!Same, Routing!At
<1>2. CASE Routing(c)!Done(p)
  BY <1>1, <1>2, WAt, WEnds
<1>3. CASE Routing(c)!Whole(process[p].agent)
  <2>1. PICK q \in WProcess(c) : q = process[p]
    BY WAt
  <2>2. q.op = "delete" /\ q.agent \in c.Agents /\ q.at = "confirm"
    BY <1>1, <2>1, WAt DEF WSaves
  <2>3. files[q.agent] \in Routing(c)!Record
    BY <1>3, <2>1, <2>2, WAt, WWhole
  <2>4. PICK x : x = [files[q.agent] EXCEPT !.archived = TRUE]
    OBVIOUS
  <2>5. x \in Routing(c)!Record /\ x.archived /\ x.card = files[q.agent].card
    BY <2>3, <2>4 DEF Routing!Record
  <2>6. PICK r : r = [q EXCEPT !.at = "save", !.record = x]
    OBVIOUS
  <2>7. r \in WProcess(c) /\ WCarries(r, "save", q.op, q.task, q.agent, x, q.pool, q.layer, q.audited)
    BY <2>5, <2>6, WReads DEF WSteps
  <2>8. process' = [process EXCEPT ![p] = r]
    BY <1>3, <2>1, <2>4, <2>6 DEF Routing!Confirm, Routing!Goto, Routing!Archived
  <2>9. "edit" \notin c.Ops => x.card # c.WorldCard
    BY <2>2, <2>3, <2>5, WAt DEF WFiles
  <2>10. WSaves(c, r) /\ WRoutes(c, world, audit, r)
    BY <2>2, <2>5, <2>7, <2>9 DEF WCarries, WSaves, WRoutes
  <2>11. Routing(c)!TakeTurns => WAlone(c, files, deleted, r)
    <3>1. Routing(c)!TakeTurns => \A a \in c.Agents : files[a] # c.Torn
      BY <1>1, WAt DEF WAlone
    <3> QED BY <2>2, <2>5, <2>7, <3>1 DEF WAlone, WCarries
  <2> QED BY <1>1, <2>7, <2>8, <2>10, <2>11, WAt, WMoves DEF WOne
<1> QED BY <1>2, <1>3 DEF Routing!Confirm

\* A file is emptied by the process that writes it next.
LEMMA WTruncate ==
    ASSUME NEW c, Routing(c)!ConstantsFit, WInv(c), NEW p \in c.Procs, Routing(c)!Truncate(p)
    PROVE  WInv(c)'
<1>1. PICK q \in WProcess(c) : q = process[p]
  BY WAt
<1>2. /\ q.at = "save" /\ files' = [files EXCEPT ![q.agent] = c.Torn]
      /\ process' = [process EXCEPT ![p] = [q EXCEPT !.at = "write"]]
      /\ UNCHANGED <<world, newest, deleted, audit>>
  BY <1>1 DEF Routing!Truncate, Routing!At, Routing!Step, Routing!Goto, Routing!Same
<1>3. PICK r : r = [q EXCEPT !.at = "write"]
  OBVIOUS
<1>4. r \in WProcess(c) /\ WCarries(r, "write", q.op, q.task, q.agent, q.record, q.pool, q.layer, q.audited)
  BY <1>3, WGoesOn DEF WSteps
<1>5. q.agent \in c.Agents /\ q.op \in {"create", "edit", "delete"} /\ q.record \in Routing(c)!Record
  BY <1>1, <1>2, WAt DEF WSaves
<1>6. WSaves(c, r) /\ WRoutes(c, world, audit, r)
  <2>1. WSaves(c, q)
    BY <1>1, WAt
  <2> QED BY <1>2, <1>4, <1>5, <2>1 DEF WCarries, WSaves, WRoutes
<1>7. \A a \in c.Agents : files'[a] = IF a = q.agent THEN c.Torn ELSE files[a]
  BY <1>2, WAt DEF WFiles
<1>8. WFiles(c, files')
  <2>1. files' \in [c.Agents -> Routing(c)!Record \cup {c.Torn, c.Missing}]
    BY <1>2, WAt DEF WFiles
  <2>2. c.Torn \notin Routing(c)!Record
    BY DEF Routing!ConstantsFit
  <2> QED BY <1>7, <2>1, <2>2, WAt DEF WFiles
<1>9. Routing(c)!TakeTurns => WDeleted(c, files', deleted') /\ WAlone(c, files', deleted', r)
  <2>1. SUFFICES ASSUME Routing(c)!TakeTurns PROVE WDeleted(c, files', deleted') /\ WAlone(c, files', deleted', r)
    OBVIOUS
  <2>2. WDeleted(c, files, deleted) /\ WAlone(c, files, deleted, q)
    BY <1>1, <2>1, WAt
  <2>3. c.Torn \notin Routing(c)!Record /\ c.Torn # c.Missing
    BY DEF Routing!ConstantsFit
  <2>4. WDeleted(c, files', deleted')
    BY <1>2, <1>7, <2>2, <2>3 DEF WDeleted
  <2>5. \A a \in c.Agents : files'[a] = c.Torn => a = q.agent
    BY <1>2, <1>7, <2>2 DEF WAlone
  <2>6. IF q.op = "delete" THEN q.record.archived ELSE q.agent \notin deleted
    BY <1>2, <2>2 DEF WAlone
  <2> QED BY <1>2, <1>4, <1>5, <2>4, <2>5, <2>6 DEF WAlone, WCarries
<1> QED BY <1>2, <1>3, <1>4, <1>6, <1>8, <1>9, WAt, WMoves DEF WOne

\* A record is written; the agent of a deletion is archived, and no other write is of a deleted one.
LEMMA WWrite ==
    ASSUME NEW c, Routing(c)!ConstantsFit, WInv(c), NEW p \in c.Procs, Routing(c)!WriteOut(p)
    PROVE  WInv(c)'
<1>1. PICK q \in WProcess(c) : q = process[p]
  BY WAt
<1>2. /\ q.at = "write" /\ files' = [files EXCEPT ![q.agent] = q.record] /\ UNCHANGED <<world, newest, audit>>
      /\ deleted' = IF q.op = "delete" THEN deleted \cup {q.agent} ELSE deleted
  BY <1>1 DEF Routing!WriteOut, Routing!At
<1>3. PICK r : r = Routing(c)!Idle
  OBVIOUS
<1>4. process' = [process EXCEPT ![p] = r]
  BY <1>3 DEF Routing!WriteOut, Routing!Done, Routing!Goto
<1>5. /\ q.agent \in c.Agents /\ q.record \in Routing(c)!Record
      /\ "edit" \notin c.Ops => q.record.card # c.WorldCard
  BY <1>1, <1>2, WAt DEF WSaves
<1>6. \A a \in c.Agents : files'[a] = IF a = q.agent THEN q.record ELSE files[a]
  BY <1>2, WAt DEF WFiles
<1>7. WFiles(c, files')
  <2>1. files' \in [c.Agents -> Routing(c)!Record \cup {c.Torn, c.Missing}]
    BY <1>2, <1>5, WAt DEF WFiles
  <2> QED BY <1>5, <1>6, <2>1, WAt DEF WFiles
<1>8. WOne(c, world, audit', r)
  BY <1>3, WResting
<1>9. Routing(c)!TakeTurns => WDeleted(c, files', deleted') /\ WAlone(c, files', deleted', r)
  <2>1. SUFFICES ASSUME Routing(c)!TakeTurns PROVE WDeleted(c, files', deleted') /\ WAlone(c, files', deleted', r)
    OBVIOUS
  <2>2. WDeleted(c, files, deleted) /\ WAlone(c, files, deleted, q)
    BY <1>1, <2>1, WAt
  <2>3. c.Torn \notin Routing(c)!Record /\ c.Missing \notin Routing(c)!Record
    BY DEF Routing!ConstantsFit
  <2>4. IF q.op = "delete" THEN q.record.archived ELSE q.agent \notin deleted
    BY <1>2, <2>2 DEF WAlone
  <2>5. WDeleted(c, files', deleted')
    BY <1>2, <1>5, <1>6, <2>2, <2>3, <2>4 DEF WDeleted
  <2>6. \A a \in c.Agents : files'[a] # c.Torn
    BY <1>5, <1>6, <2>2, <2>3 DEF WAlone
  <2> QED BY <1>3, <2>5, <2>6, WResting
<1> QED BY <1>2, <1>4, <1>7, <1>8, <1>9, WAt, WMoves

(* Routes. *)

\* A named agent is run from the record that was found.
LEMMA WNames ==
    ASSUME NEW c, Routing(c)!ConstantsFit, WInv(c), NEW p \in c.Procs, Routing(c)!Named(p)
    PROVE  WInv(c)'
<1>0. PICK at \in {"raised", "settle"} : at = IF Routing(c)!PoolFails THEN "raised" ELSE "settle"
  OBVIOUS
<1>1. PICK a \in Routing(c)!Listed, t \in c.Tasks :
        Routing(c)!Goto(p, [Routing(c)!Idle EXCEPT !.at = at, !.op = "named", !.task = t, !.agent = a,
                                                   !.record = files[a], !.layer = "explicit"])
  BY <1>0 DEF Routing!Named
<1>2. a \in c.Agents /\ files[a] \in Routing(c)!Record
  <2>1. a \in c.Agents
    BY DEF Routing!Listed
  <2> QED BY <2>1, WAt, WWhole
<1>3. PICK x \in Routing(c)!Record : x = files[a]
  BY <1>2
<1>4. PICK q : q = [Routing(c)!Idle EXCEPT !.at = at, !.op = "named", !.task = t, !.agent = a,
                                           !.record = x, !.layer = "explicit"]
  OBVIOUS
<1>5. q \in WProcess(c) /\ WCarries(q, at, "named", t, a, x, {}, "explicit", "no")
  <2>1. CASE at = "raised"
    BY <1>2, <1>4, <2>1, WNamed
  <2>2. CASE at = "settle"
    BY <1>2, <1>4, <2>2, WNamed
  <2> QED BY <1>0, <2>1, <2>2
<1>6. process' = [process EXCEPT ![p] = q] /\ process[p].at = "idle" /\ UNCHANGED <<files, world, newest, deleted, audit>>
  BY <1>1, <1>3, <1>4 DEF Routing!Goto, Routing!Named, Routing!Begin
<1>7. WSaves(c, q) /\ WRoutes(c, world, audit, q)
  BY <1>0, <1>2, <1>5 DEF WCarries, WSaves, WRoutes
<1>8. Routing(c)!TakeTurns => WAlone(c, files, deleted, q)
  BY <1>0, <1>5, <1>6, WAt DEF WAlone, WCarries
<1> QED BY <1>5, <1>6, <1>7, <1>8, WAt, WMoves DEF WOne

\* What the router decides is the target of the first rule that fires or, when none does,
\* a default that is in the pool.
LEMMA WResolves ==
    ASSUME NEW c, Routing(c)!ConstantsFit, world \in c.Worlds, NEW t, NEW s, NEW d, d = Routing(c)!Resolve(t, s)
    PROVE  /\ d.agent \in s \cup {None} /\ d.layer \in {"rule", "default"}
           /\ \A q : q.pool = s /\ q.task = t /\ q.agent = d.agent /\ q.layer = d.layer => WDecided(world, q)
<1>1. PICK F : F = Routing(c)!Firing(t, s)
  OBVIOUS
<1>2. F = {i \in DOMAIN world.rules : world.rules[i].enabled /\ world.rules[i].target \in s /\ t \in world.rules[i].tasks}
  BY <1>1 DEF Routing!Firing
<1>3. \A q : q.pool = s /\ q.task = t => WFires(world, q) = F
  BY <1>2 DEF WFires
<1>4. CASE F = {}
  <2>1. d = [agent |-> Routing(c)!Default(s), layer |-> "default"]
    BY <1>1, <1>4 DEF Routing!Resolve
  <2>2. Routing(c)!Default(s) \in s \cup {None}
    BY DEF Routing!Default
  <2> QED BY <1>3, <1>4, <2>1, <2>2 DEF WDecided
<1>5. CASE F # {}
  <2>1. world.rules \in Seq(Routing(c)!Rule)
    BY DEF Routing!ConstantsFit
  <2>2. PICK w : w = world
    OBVIOUS
  <2>3. \E i \in F : \A j \in F : WFirst(w, i, j)
    BY <1>2, <1>5, <2>1, <2>2, WBest
  <2>4. \A i, j : Routing(c)!Outranks(i, j) <=> WFirst(world, i, j)
    BY DEF Routing!Outranks, WFirst
  <2>5. PICK i : i = Routing(c)!First(F)
    OBVIOUS
  <2>6. i \in F /\ \A j \in F : WFirst(world, i, j)
    BY <2>2, <2>3, <2>4, <2>5 DEF Routing!First
  <2>7. d = [agent |-> world.rules[i].target, layer |-> "rule"]
    BY <1>1, <1>5, <2>5 DEF Routing!Resolve
  <2>8. world.rules[i].target \in s
    BY <1>2, <2>6
  <2> QED BY <1>3, <1>5, <2>6, <2>7, <2>8 DEF WDecided
<1> QED BY <1>4, <1>5

\* A route gathers its pool and tries the rules.
LEMMA WRoute ==
    ASSUME NEW c, Routing(c)!ConstantsFit, WInv(c), NEW p \in c.Procs, Routing(c)!Route(p)
    PROVE  WInv(c)'
<1>1. process[p].at = "idle" /\ UNCHANGED <<files, world, newest, deleted, audit>>
  BY DEF Routing!Route, Routing!Begin
<1>2. PICK t \in c.Tasks \cup {c.Blank} :
        LET d == Routing(c)!Resolve(t, Routing(c)!Pool)
            reflex == d.layer = "default" /\ t # c.Blank /\ world.reflex /\ Routing(c)!Pool # {}
            at == IF Routing(c)!PoolFails THEN "raised" ELSE IF reflex THEN "classify" ELSE "settle"
        IN  Routing(c)!Goto(p, [Routing(c)!Idle EXCEPT !.op = "route", !.task = t, !.agent = d.agent,
                                   !.pool = Routing(c)!Pool, !.layer = d.layer, !.at = at])
  BY DEF Routing!Route
<1>3. PICK s, d : s = Routing(c)!Pool /\ d = Routing(c)!Resolve(t, s)
  OBVIOUS
<1>4. PICK at : at = IF Routing(c)!PoolFails THEN "raised"
                     ELSE IF d.layer = "default" /\ t # c.Blank /\ world.reflex /\ s # {} THEN "classify" ELSE "settle"
  OBVIOUS
<1>5. PICK q : q = [Routing(c)!Idle EXCEPT !.op = "route", !.task = t, !.agent = d.agent, !.pool = s,
                                           !.layer = d.layer, !.at = at]
  OBVIOUS
<1>6. process' = [process EXCEPT ![p] = q]
  BY <1>2, <1>3, <1>4, <1>5 DEF Routing!Goto
<1>7. s \subseteq Routing(c)!Listed /\ s \subseteq c.Agents
  BY <1>3 DEF Routing!Pool, Routing!Listed
<1>8. world \in c.Worlds
  BY DEF WInv
<1>9. /\ d.agent \in s \cup {None} /\ d.layer \in {"rule", "default"}
      /\ \A x : x.pool = s /\ x.task = t /\ x.agent = d.agent /\ x.layer = d.layer => WDecided(world, x)
  BY <1>3, <1>8, WResolves
<1>10. at \in {"raised", "classify", "settle"} /\ (at = "classify" => d.layer = "default")
  BY <1>4
<1>11. q \in WProcess(c) /\ WCarries(q, at, "route", t, d.agent, None, s, d.layer, "no")
  <2>1. PICK a, l : a = d.agent /\ l = d.layer
    OBVIOUS
  <2>2. WChoice(c, at, a, s, t, l)
    BY <1>2, <1>7, <1>9, <1>10, <2>1 DEF WChoice
  <2>3. q = [Routing(c)!Idle EXCEPT !.op = "route", !.task = t, !.agent = a, !.pool = s, !.layer = l, !.at = at]
    BY <1>5, <2>1
  <2> QED BY <2>1, <2>2, <2>3, WRouted
<1>12. WSaves(c, q) /\ WRoutes(c, world, audit, q)
  <2>1. WDecided(world, q)
    BY <1>9, <1>11 DEF WCarries
  <2> QED BY <1>9, <1>10, <1>11, <2>1 DEF WCarries, WSaves, WRoutes
<1>13. Routing(c)!TakeTurns => WAlone(c, files, deleted, q)
  <2>1. SUFFICES ASSUME Routing(c)!TakeTurns PROVE WAlone(c, files, deleted, q)
    OBVIOUS
  <2>2. \A a \in c.Agents : files[a] # c.Torn
    BY <1>1, <2>1, WAt DEF WAlone
  <2>3. at # "raised"
    <3>1. ~Routing(c)!PoolFails
      BY <1>8, <2>2 DEF Routing!PoolFails, Routing!ConstantsFit
    <3> QED BY <1>4, <3>1
  <2>4. \A a \in s : files[a] \in Routing(c)!Record /\ ~files[a].archived
    BY <1>7, WAt, WWhole
  <2> QED BY <1>10, <1>11, <2>2, <2>3, <2>4 DEF WAlone, WCarries
<1> QED BY <1>1, <1>6, <1>11, <1>12, <1>13, WAt, WMoves DEF WOne

\* The classifier picks one of the pool where no rule fired.
LEMMA WClassified ==
    ASSUME NEW c, Routing(c)!ConstantsFit, WInv(c), NEW p \in c.Procs, Routing(c)!Classified(p)
    PROVE  WInv(c)'
<1>1. PICK q \in WProcess(c) : q = process[p]
  BY WAt
<1>2. PICK a \in q.pool : Routing(c)!Goto(p, [process[p] EXCEPT !.at = "settle", !.agent = a, !.layer = "reflex"])
  BY <1>1 DEF Routing!Classified, Routing!Picks
<1>3. q.at = "classify" /\ UNCHANGED <<files, world, newest, deleted, audit>>
  BY <1>1 DEF Routing!Classified, Routing!At, Routing!Same
<1>4. PICK r : r = [q EXCEPT !.at = "settle", !.agent = a, !.layer = "reflex"]
  OBVIOUS
<1>5. process' = [process EXCEPT ![p] = r]
  BY <1>1, <1>2, <1>4 DEF Routing!Goto
<1>6. a \in c.Agents
  BY DEF WProcess
<1>7. r \in WProcess(c) /\ WCarries(r, "settle", q.op, q.task, a, q.record, q.pool, "reflex", q.audited)
  BY <1>4, <1>6, WPicked
<1>8. q.op = "route" /\ q.layer = "default" /\ WDecided(world, q)
  BY <1>1, <1>3, WAt DEF WRoutes
<1>9. WDecided(world, r)
  <2>1. WFires(world, r) = WFires(world, q)
    BY <1>7 DEF WFires, WCarries
  <2>2. WFires(world, q) = {}
    BY <1>8 DEF WDecided
  <2> QED BY <1>7, <2>1, <2>2 DEF WDecided, WCarries
<1>10. WSaves(c, r) /\ WRoutes(c, world, audit, r)
  BY <1>7, <1>8, <1>9 DEF WCarries, WSaves, WRoutes
<1>11. Routing(c)!TakeTurns => WAlone(c, files, deleted, r)
  BY <1>1, <1>3, <1>7, WAt DEF WAlone, WCarries
<1> QED BY <1>3, <1>5, <1>7, <1>10, <1>11, WAt, WMoves DEF WOne

\* Or the default stays.
LEMMA WFallsThrough ==
    ASSUME NEW c, Routing(c)!ConstantsFit, WInv(c), NEW p \in c.Procs, Routing(c)!FallThrough(p)
    PROVE  WInv(c)'
<1>1. PICK q \in WProcess(c) : q = process[p]
  BY WAt
<1>2. q.at = "classify" /\ UNCHANGED <<files, world, newest, deleted, audit>>
  BY <1>1 DEF Routing!FallThrough, Routing!At, Routing!Same
<1>3. PICK r : r = [q EXCEPT !.at = "settle"]
  OBVIOUS
<1>4. process' = [process EXCEPT ![p] = r]
  BY <1>1, <1>3 DEF Routing!FallThrough, Routing!Step, Routing!Goto
<1>5. r \in WProcess(c) /\ WCarries(r, "settle", q.op, q.task, q.agent, q.record, q.pool, q.layer, q.audited)
  BY <1>3, WGoesOn DEF WSteps
<1>6. q.op = "route" /\ q.layer = "default" /\ WDecided(world, q) /\ q.agent \in q.pool \cup {None}
  BY <1>1, <1>2, WAt DEF WRoutes
<1>7. WDecided(world, r)
  <2>1. WFires(world, r) = WFires(world, q)
    BY <1>5 DEF WFires, WCarries
  <2> QED BY <1>5, <1>6, <2>1 DEF WDecided, WCarries
<1>8. WSaves(c, r) /\ WRoutes(c, world, audit, r)
  BY <1>5, <1>6, <1>7 DEF WCarries, WSaves, WRoutes
<1>9. Routing(c)!TakeTurns => WAlone(c, files, deleted, r)
  BY <1>1, <1>2, <1>5, WAt DEF WAlone, WCarries
<1> QED BY <1>2, <1>4, <1>5, <1>8, <1>9, WAt, WMoves DEF WOne

\* The decision is written, or fails to be, before the agent is loaded.
LEMMA WSettle ==
    ASSUME NEW c, Routing(c)!ConstantsFit, WInv(c), NEW p \in c.Procs, Routing(c)!Settle(p)
    PROVE  WInv(c)'
<1>1. PICK q \in WProcess(c) : q = process[p]
  BY WAt
<1>2. q.at = "settle" /\ UNCHANGED <<files, world, newest, deleted>>
  BY <1>1 DEF Routing!Settle, Routing!At
<1>3. PICK d : d = [task |-> q.task, agent |-> q.agent, layer |-> q.layer]
  OBVIOUS
<1>4. PICK at \in {"asked", "load"} : at = IF q.agent = None THEN "asked" ELSE "load"
  OBVIOUS
<1>5. PICK x \in {"yes", "failed"} :
      /\ audit' = IF x = "yes" THEN audit \cup {d} ELSE audit
      /\ Routing(c)!Goto(p, [q EXCEPT !.audited = x, !.at = at])
  BY <1>1, <1>3, <1>4 DEF Routing!Settle
<1>6. PICK r : r = [q EXCEPT !.audited = x, !.at = at]
  OBVIOUS
<1>7. process' = [process EXCEPT ![p] = r]
  BY <1>5, <1>6 DEF Routing!Goto
<1>8. r \in WProcess(c) /\ WCarries(r, at, q.op, q.task, q.agent, q.record, q.pool, q.layer, x)
  BY <1>6, WAudited
<1>9. /\ q.op \in {"route", "named"} /\ q.layer \in {"explicit", "rule", "reflex", "default"}
      /\ (q.op = "named" => q.agent \in c.Agents /\ q.record \in Routing(c)!Record)
      /\ (q.op = "route" => q.agent \in q.pool \cup {None}) /\ q.pool \subseteq c.Agents
  <2>1. WRoutes(c, world, audit, q)
    BY <1>1, WAt
  <2>2. q.op \in {"route", "named"} /\ q.layer # "none" /\ (q.op = "route" => q.agent \in q.pool \cup {None})
    BY <1>2, <2>1 DEF WRoutes
  <2>3. q.op = "named" => q.agent \in c.Agents /\ q.record \in Routing(c)!Record
    BY <1>2, <2>1 DEF WRoutes
  <2> QED BY <2>2, <2>3 DEF WProcess
<1>10. WSaves(c, r)
  BY <1>8 DEF WCarries, WSaves
<1>11. WRoutes(c, world, audit', r)
  <2>1. x = "failed" \/ d \in audit'
    BY <1>5
  <2>2. at = "load" => q.agent \in c.Agents
    BY <1>4, <1>9
  <2>3. x = "failed" \/ \E e \in audit' : e.agent = q.agent /\ e.task = q.task /\ e.layer = q.layer
    BY <1>3, <2>1
  <2> QED BY <1>8, <1>9, <2>2, <2>3 DEF WCarries, WRoutes
<1>12. audit \subseteq audit' /\ WHistory(c, newest', audit')
  BY <1>2, <1>3, <1>5, <1>9, WAt DEF WHistory
<1>13. Routing(c)!TakeTurns => WAlone(c, files, deleted, r)
  BY <1>1, <1>2, <1>8, WAt DEF WAlone, WCarries
<1> QED BY <1>2, <1>7, <1>8, <1>10, <1>11, <1>12, <1>13, WAt, WMoves DEF WOne

\* A routed agent is read again; where commands take turns it is still whole and not archived.
LEMMA WLoad ==
    ASSUME NEW c, Routing(c)!ConstantsFit, WInv(c), NEW p \in c.Procs, Routing(c)!Load(p)
    PROVE  WInv(c)'
<1>1. PICK q \in WProcess(c) : q = process[p]
  BY WAt
<1>2. q.at = "load" /\ UNCHANGED <<files, world, newest, deleted, audit>>
  BY <1>1 DEF Routing!Load, Routing!At, Routing!Same
<1>3. /\ q.op \in {"route", "named"} /\ q.agent \in c.Agents
      /\ q.op = "named" => q.record \in Routing(c)!Record
      /\ q.op = "route" => q.agent \in q.pool
      /\ q.audited = "failed" \/ \E d \in audit : d.agent = q.agent /\ d.task = q.task /\ d.layer = q.layer
  <2>1. WRoutes(c, world, audit, q)
    BY <1>1, WAt
  <2>2. /\ q.op \in {"route", "named"} /\ q.agent \in c.Agents
        /\ q.op = "named" => q.record \in Routing(c)!Record
        /\ q.op = "route" => q.agent \in q.pool \cup {None}
    BY <1>2, <2>1 DEF WRoutes
  <2>3. q.audited = "failed" \/ \E d \in audit : d.agent = q.agent /\ d.task = q.task /\ d.layer = q.layer
    BY <1>2, <2>1 DEF WRoutes
  <2>4. None \notin c.Agents
    BY DEF Routing!ConstantsFit
  <2> QED BY <2>2, <2>3, <2>4
<1>4. PICK x : x = IF q.op = "named" THEN q.record ELSE files[q.agent]
  OBVIOUS
<1>5. x \in Routing(c)!Record \cup {c.Torn, c.Missing}
  BY <1>3, <1>4, WAt DEF WFiles
<1>6. PICK at : at = IF x = c.Torn THEN "raised" ELSE IF x = c.Missing THEN "unloadable" ELSE "run"
  OBVIOUS
<1>7. PICK r : r = [q EXCEPT !.at = at, !.record = x]
  OBVIOUS
<1>8. process' = [process EXCEPT ![p] = r]
  BY <1>1, <1>4, <1>6, <1>7 DEF Routing!Load, Routing!Goto
<1>9. at \in {"raised", "unloadable", "run"} /\ at \in WSteps /\ (at = "run" => x \in Routing(c)!Record)
  BY <1>5, <1>6 DEF WSteps
<1>10. r \in WProcess(c) /\ WCarries(r, at, q.op, q.task, q.agent, x, q.pool, q.layer, q.audited)
  BY <1>5, <1>7, <1>9, WReads
<1>11. WSaves(c, r)
  BY <1>9, <1>10 DEF WCarries, WSaves
<1>12. WRoutes(c, world, audit, r)
  <2>1. r.at = at /\ r.op = q.op /\ r.agent = q.agent /\ r.task = q.task /\ r.layer = q.layer /\ r.audited = q.audited
        /\ r.record = x /\ r.pool = q.pool
    BY <1>10 DEF WCarries
  <2>2. r.at = "run" /\ r.op = "named" => r.record \in Routing(c)!Record
    BY <1>3, <1>4, <2>1
  <2> QED BY <1>3, <1>9, <2>1, <2>2 DEF WRoutes
<1>13. Routing(c)!TakeTurns => WAlone(c, files, deleted, r)
  <2>1. SUFFICES ASSUME Routing(c)!TakeTurns PROVE WAlone(c, files, deleted, r)
    OBVIOUS
  <2>2. WAlone(c, files, deleted, q)
    BY <1>1, <2>1, WAt
  <2>3. \A a \in c.Agents : files[a] # c.Torn
    BY <1>2, <2>2 DEF WAlone
  <2>4. q.op = "route" => \A a \in q.pool : files[a] \in Routing(c)!Record /\ ~files[a].archived
    BY <2>2 DEF WAlone
  <2>5. q.op = "route" => x \in Routing(c)!Record /\ ~x.archived
    BY <1>3, <1>4, <2>4
  <2>6. q.op = "route" => at = "run"
    BY <1>6, <2>5 DEF Routing!ConstantsFit
  <2> QED BY <1>9, <1>10, <2>3, <2>4, <2>5, <2>6 DEF WAlone, WCarries
<1> QED BY <1>2, <1>8, <1>10, <1>11, <1>12, <1>13, WAt, WMoves DEF WOne

\* A process that is done, or cut off, is at rest.
LEMMA WCloses ==
    ASSUME NEW c, Routing(c)!ConstantsFit, WInv(c), NEW p \in c.Procs,
           Routing(c)!Answered(p) \/ Routing(c)!Exits(p) \/ Routing(c)!Crash(p)
    PROVE  WInv(c)'
<1>1. CASE Routing(c)!Answered(p)
  <2>1. PICK q \in WProcess(c) : q = process[p]
    BY WAt
  <2>2. q.at = "run" /\ newest' = [newest EXCEPT ![q.agent] = q.task] /\ Routing(c)!Done(p)
        /\ UNCHANGED <<files, world, deleted, audit>>
    BY <1>1, <2>1 DEF Routing!Answered, Routing!At
  <2>3. q.task \in c.Tasks \cup {c.Blank}
    BY DEF WProcess
  <2>4. WHistory(c, newest', audit')
    BY <2>2, <2>3, WAt DEF WHistory
  <2> QED BY <2>1, <2>2, <2>4, WEnds
<1>2. CASE Routing(c)!Exits(p)
  BY <1>2, WAt, WEnds DEF Routing!Exits, Routing!Same
<1>3. CASE Routing(c)!Crash(p)
  BY <1>3, WAt, WEnds DEF Routing!Crash, Routing!Same, Routing!TakeTurns
<1> QED BY <1>1, <1>2, <1>3

\* A step that touches only the history of prompts.
LEMMA WUntouched ==
    ASSUME NEW c, WInv(c), UNCHANGED <<files, world, deleted, audit, process>>, WHistory(c, newest', audit')
    PROVE  WInv(c)'
<1>1. Routing(c)!TakeTurns' <=> Routing(c)!TakeTurns
  BY DEF Routing!TakeTurns
<1> QED BY <1>1 DEF WInv

\* The invariant is inductive.
LEMMA WStep ==
    ASSUME NEW c, Routing(c)!ConstantsFit, WInv(c), [Routing(c)!Next]_(Routing(c)!vars)
    PROVE  WInv(c)'
<1>1. ASSUME NEW p \in c.Procs,
             \/ Routing(c)!Create(p) \/ Routing(c)!Edit(p) \/ Routing(c)!Delete(p)
             \/ Routing(c)!Confirm(p) \/ Routing(c)!Truncate(p) \/ Routing(c)!WriteOut(p)
      PROVE  WInv(c)'
  BY <1>1, WCreate, WEdit, WDelete, WConfirm, WTruncate, WWrite
<1>2. ASSUME NEW p \in c.Procs,
             Routing(c)!Named(p) \/ Routing(c)!Route(p) \/ Routing(c)!Routing(p) \/ Routing(c)!Crash(p)
      PROVE  WInv(c)'
  BY <1>2, WNames, WRoute, WClassified, WFallsThrough, WSettle, WLoad, WCloses DEF Routing!Routing
<1>3. ASSUME NEW a \in c.Agents, Routing(c)!Forget(a)
      PROVE  WInv(c)'
  <2>1. newest' = [newest EXCEPT ![a] = None] /\ UNCHANGED <<files, world, deleted, audit, process>>
    BY <1>3 DEF Routing!Forget
  <2>2. WHistory(c, newest', audit')
    BY <2>1 DEF WInv, WHistory
  <2> QED BY <2>1, <2>2, WUntouched
<1>4. CASE UNCHANGED Routing(c)!vars
  <2>1. UNCHANGED <<files, world, newest, deleted, audit, process>>
    BY <1>4 DEF Routing!vars
  <2> QED BY <2>1, WUntouched DEF WInv
<1> QED BY <1>1, <1>2, <1>3, <1>4 DEF Routing!Next

\* The first state.
LEMMA WInit ==
    ASSUME NEW c, Routing(c)!ConstantsFit, Routing(c)!Init
    PROVE  WInv(c)
<1>1. \A a \in c.Agents : files[a] = c.Missing \/ (files[a] \in Routing(c)!Record /\ files[a].card \in c.Cards)
  BY DEF Routing!Init, Routing!Record
<1>2. WFiles(c, files)
  <2>1. files \in [c.Agents -> Routing(c)!Record \cup {c.Torn, c.Missing}]
    BY <1>1 DEF Routing!Init
  <2> QED BY <1>1, <2>1 DEF WFiles, Routing!ConstantsFit
<1>3. WHistory(c, newest, audit)
  BY DEF Routing!Init, WHistory
<1>4. \A a \in c.Agents : files[a] # c.Torn
  BY <1>1 DEF Routing!ConstantsFit
<1>5. DOMAIN process = c.Procs /\ \A p \in c.Procs : process[p] = Routing(c)!Idle
  BY DEF Routing!Init
<1>6. \A p \in c.Procs : WOne(c, world, audit, process[p]) /\ WAlone(c, files, deleted, process[p])
  BY <1>4, <1>5, WResting
<1>7. WDeleted(c, files, deleted)
  BY <1>1 DEF Routing!Init, WDeleted
<1> QED BY <1>2, <1>3, <1>5, <1>6, <1>7 DEF WInv, Routing!Init

\* A decision in the words of the module.
LEMMA WDecides ==
    ASSUME NEW c, NEW p \in c.Procs, WDecided(world, process[p])
    PROVE  LET fires(i) == world.rules[i].enabled /\ world.rules[i].target \in process[p].pool
                           /\ process[p].task \in world.rules[i].tasks
               all == {i \in DOMAIN world.rules : fires(i)}
           IN  IF all = {} THEN process[p].layer \in {"default", "reflex"}
               ELSE /\ process[p].layer = "rule"
                    /\ \E i \in all : /\ world.rules[i].target = process[p].agent
                                      /\ \A j \in all : \/ world.rules[j].priority < world.rules[i].priority
                                                        \/ world.rules[j].priority = world.rules[i].priority /\ i <= j
BY DEF WDecided, WFires, WFirst

\* The invariant implies what The World promises.
LEMMA WHolds ==
    ASSUME NEW c, Routing(c)!ConstantsFit, WInv(c)
    PROVE  Routing(c)!RoutingHolds
<1>1. Routing(c)!TypeOK
  BY DEF WInv, WFiles, WHistory, WOne, WProcess, Routing!TypeOK
<1>2. Routing(c)!FirstRuleWins
  <2>1. \A p \in c.Procs : process[p].op = "route" /\ process[p].at \in {"classify", "settle"} => WDecided(world, process[p])
    BY DEF WInv, WOne, WRoutes
  <2> QED BY <2>1, WDecides DEF Routing!FirstRuleWins
<1>3. Routing(c)!RoutedInPool
  BY DEF WInv, WOne, WRoutes, Routing!RoutedInPool
<1>4. Routing(c)!AuditedFirst
  BY DEF WInv, WOne, WRoutes, Routing!AuditedFirst
<1>5. Routing(c)!TakeTurns => Routing(c)!NeverStranded /\ Routing(c)!RunsSelectable
  BY DEF WInv, WAlone, Routing!NeverStranded, Routing!RunsSelectable, Routing!At
<1>6. \A a \in c.Agents : Routing(c)!Whole(a) <=> files[a] \in Routing(c)!Record
  BY WWhole DEF WInv
<1>7. Routing(c)!TakeTurns => Routing(c)!DeletedStays
  BY <1>6 DEF WInv, WDeleted, Routing!DeletedStays
<1>8. "edit" \notin c.Ops => Routing(c)!Reserved
  BY <1>6 DEF WInv, WFiles, Routing!Reserved
<1> QED BY <1>1, <1>2, <1>3, <1>4, <1>5, <1>7, <1>8 DEF Routing!RoutingHolds

----------------------------------------
(* ChatSession.  What the user wants answered is what the conversation asks, *)
(* prompt by prompt (HTalk); the session in memory is on disk unless it was *)
(* cut off, which every submission that asks may be until it is stored; and *)
(* a file that can be read is of its own session (HFiles). *)

program == v1
stored == v2
talk == v3
speaker == v4
muted == v5
runtime == v6
submission == v7
wanted == v8
cutoff == v9
USE DEF program, stored, talk, speaker, muted, runtime, submission, wanted, cutoff

HPlaces == {"idle", "recalling", "answering", "extracting", "summarising", "consolidating",
            "routing", "leaving", "building"}
HOps == {"ask", "retry", "run", "switch"}

\* The conversation msgs is of the prompts q.
HTalk(c, q, msgs) == q \in Seq(c.Prompts) /\ msgs \in Seq(Chat(c)!Messages) /\ Chat(c)!Asks(q, msgs)

HTypes(c) ==
    /\ program \in {"down", "chat", "run"} /\ muted \in BOOLEAN /\ cutoff \in BOOLEAN
    /\ speaker \in c.Agents /\ talk \in Chat(c)!Session /\ talk.owner = speaker
    /\ stored \in [Chat(c)!Ids -> Chat(c)!Session \cup {None, c.Torn}]
    /\ runtime \in [agent : c.Agents, memory : BOOLEAN]
    /\ submission \in [at : HPlaces, op : HOps, to : c.Agents]

\* A file is of its own session and that of the session in memory is of its agent; what
\* was not cut off is on disk, and a submission that asks may be cut off.
HFiles(c) ==
    /\ \A i \in Chat(c)!Ids : stored[i] \in Chat(c)!Session => stored[i].id = i
    /\ talk.id \in Chat(c)!Ids /\ stored[talk.id] \in Chat(c)!Session => stored[talk.id].owner = speaker
    /\ program # "down" => talk.id \in Chat(c)!Ids
    /\ ~cutoff /\ talk.msgs # <<>> => stored[talk.id] = talk
    /\ submission.at \in {"recalling", "answering", "extracting", "summarising"} =>
         cutoff /\ Chat(c)!Turns(talk.msgs) # {}

HInv(c) == HTypes(c) /\ HFiles(c) /\ HTalk(c, wanted, talk.msgs)

\* What is said, the user or the agent says.
LEMMA HSaid ==
    ASSUME NEW c, NEW p \in c.Prompts
    PROVE  /\ Chat(c)!User(p) \in Chat(c)!Messages /\ Chat(c)!User(p).role = "user" /\ Chat(c)!User(p).text = p
           /\ Chat(c)!Assistant(p) \in Chat(c)!Messages /\ Chat(c)!Assistant(p).role = "assistant"
BY DEF Chat!User, Chat!Assistant, Chat!Messages

\* A new conversation.
LEMMA HNew == ASSUME NEW c PROVE HTalk(c, <<>>, <<>>)
<1>1. Chat(c)!Turns(<<>>) = {} /\ DOMAIN <<>> = {}
  BY DEF Chat!Turns
<1>2. [x \in {} |-> x] \in [DOMAIN <<>> -> Chat(c)!Turns(<<>>)]
  BY <1>1
<1>3. Chat(c)!Asks(<<>>, <<>>)
  BY <1>1, <1>2 DEF Chat!Asks
<1> QED BY <1>3 DEF HTalk

\* A prompt joins the conversation.
LEMMA HAsked ==
    ASSUME NEW c, NEW q, NEW msgs, HTalk(c, q, msgs), NEW p \in c.Prompts
    PROVE  /\ HTalk(c, Append(q, p), Append(msgs, Chat(c)!User(p)))
           /\ Chat(c)!Turns(Append(msgs, Chat(c)!User(p))) # {}
<1> DEFINE m == Chat(c)!User(p)
           more == Append(msgs, m)
           k == Len(q) + 1
           n == Len(msgs) + 1
<1>1. q \in Seq(c.Prompts) /\ msgs \in Seq(Chat(c)!Messages)
  BY DEF HTalk
<1>2. PICK place \in [DOMAIN q -> Chat(c)!Turns(msgs)] :
        /\ \A i \in Chat(c)!Turns(msgs) : \E j \in DOMAIN q : place[j] = i
        /\ \A i, j \in DOMAIN q : i < j => place[i] < place[j]
        /\ \A j \in DOMAIN q : msgs[place[j]].text = q[j]
  BY DEF HTalk, Chat!Asks
<1>3. m \in Chat(c)!Messages /\ m.role = "user" /\ m.text = p
  BY HSaid
<1> HIDE DEF m
<1>4. /\ more \in Seq(Chat(c)!Messages) /\ DOMAIN more = 1..n /\ DOMAIN msgs = 1..Len(msgs)
      /\ more[n] = m /\ \A i \in DOMAIN msgs : more[i] = msgs[i]
  BY <1>1, <1>3
<1>5. /\ Append(q, p) \in Seq(c.Prompts) /\ DOMAIN Append(q, p) = 1..k /\ DOMAIN q = 1..Len(q)
      /\ Append(q, p)[k] = p /\ \A j \in DOMAIN q : Append(q, p)[j] = q[j]
  BY <1>1
<1>6. Len(q) \in Nat /\ Len(msgs) \in Nat
  BY <1>1
<1> HIDE DEF more
<1>7. Chat(c)!Turns(more) = Chat(c)!Turns(msgs) \cup {n} /\ Chat(c)!Turns(msgs) \subseteq DOMAIN msgs
  BY <1>3, <1>4, <1>6 DEF Chat!Turns
<1> DEFINE at == [j \in DOMAIN Append(q, p) |-> IF j = k THEN n ELSE place[j]]
<1>8. at \in [DOMAIN Append(q, p) -> Chat(c)!Turns(more)]
  BY <1>2, <1>5, <1>6, <1>7
<1>9. \A i \in Chat(c)!Turns(more) : \E j \in DOMAIN Append(q, p) : at[j] = i
  <2> TAKE i \in Chat(c)!Turns(more)
  <2>1. CASE i = n
    BY <2>1, <1>5, <1>6
  <2>2. CASE i # n
    <3>1. PICK j \in DOMAIN q : place[j] = i
      BY <2>2, <1>7, <1>2
    <3>2. j \in DOMAIN Append(q, p) /\ j # k
      BY <3>1, <1>5, <1>6
    <3> QED BY <3>1, <3>2
  <2> QED BY <2>1, <2>2
<1>10. \A i, j \in DOMAIN Append(q, p) : i < j => at[i] < at[j]
  <2> TAKE i, j \in DOMAIN Append(q, p)
  <2> HAVE i < j
  <2>1. i \in DOMAIN q /\ i # k /\ place[i] \in 1..Len(msgs)
    BY <1>2, <1>4, <1>5, <1>6, <1>7
  <2>2. CASE j = k
    BY <2>1, <2>2, <1>6
  <2>3. CASE j # k
    BY <2>1, <2>3, <1>2, <1>5, <1>6
  <2> QED BY <2>2, <2>3
<1>11. \A j \in DOMAIN Append(q, p) : more[at[j]].text = Append(q, p)[j]
  <2> TAKE j \in DOMAIN Append(q, p)
  <2>1. CASE j = k
    BY <2>1, <1>3, <1>4, <1>5
  <2>2. CASE j # k
    <3>1. j \in DOMAIN q /\ place[j] \in DOMAIN msgs
      BY <2>2, <1>2, <1>5, <1>6, <1>7
    <3> QED BY <3>1, <2>2, <1>2, <1>4, <1>5
  <2> QED BY <2>1, <2>2
<1>12. Chat(c)!Asks(Append(q, p), more)
  BY <1>8, <1>9, <1>10, <1>11 DEF Chat!Asks
<1> QED BY <1>4, <1>5, <1>7, <1>12 DEF HTalk, more, m

\* The agent's answer joins the conversation.
LEMMA HAnswered ==
    ASSUME NEW c, NEW q, NEW msgs, HTalk(c, q, msgs), NEW p \in c.Prompts
    PROVE  /\ HTalk(c, q, Append(msgs, Chat(c)!Assistant(p)))
           /\ Chat(c)!Turns(Append(msgs, Chat(c)!Assistant(p))) = Chat(c)!Turns(msgs)
<1> DEFINE m == Chat(c)!Assistant(p)
           more == Append(msgs, m)
<1>1. q \in Seq(c.Prompts) /\ msgs \in Seq(Chat(c)!Messages)
  BY DEF HTalk
<1>2. PICK place \in [DOMAIN q -> Chat(c)!Turns(msgs)] :
        /\ \A i \in Chat(c)!Turns(msgs) : \E j \in DOMAIN q : place[j] = i
        /\ \A i, j \in DOMAIN q : i < j => place[i] < place[j]
        /\ \A j \in DOMAIN q : msgs[place[j]].text = q[j]
  BY DEF HTalk, Chat!Asks
<1>3. m \in Chat(c)!Messages /\ m.role = "assistant"
  BY HSaid
<1> HIDE DEF m
<1>4. /\ more \in Seq(Chat(c)!Messages) /\ DOMAIN more = 1..Len(msgs) + 1 /\ DOMAIN msgs = 1..Len(msgs)
      /\ more[Len(msgs) + 1] = m /\ \A i \in DOMAIN msgs : more[i] = msgs[i]
  BY <1>1, <1>3
<1>5. Len(msgs) \in Nat
  BY <1>1
<1> HIDE DEF more
<1>6. Chat(c)!Turns(more) = Chat(c)!Turns(msgs) /\ Chat(c)!Turns(msgs) \subseteq DOMAIN msgs
  BY <1>3, <1>4, <1>5 DEF Chat!Turns
<1>7. \A j \in DOMAIN q : more[place[j]].text = q[j]
  BY <1>2, <1>4, <1>6
<1>8. Chat(c)!Asks(q, more)
  BY <1>2, <1>6, <1>7 DEF Chat!Asks
<1> QED BY <1>1, <1>4, <1>6, <1>8 DEF HTalk, more, m

\* What comes before the k-th of a sequence.
LEMMA HCut ==
    ASSUME NEW S, NEW s \in Seq(S), NEW k \in 1..Len(s)
    PROVE  LET less == SubSeq(s, 1, k - 1)
           IN  less \in Seq(S) /\ DOMAIN less = 1..k - 1 /\ \A i \in 1..k - 1 : less[i] = s[i] /\ i \in DOMAIN s
<1>1. k \in Nat /\ k - 1 \in Nat /\ Len(s) \in Nat /\ k <= Len(s) /\ DOMAIN s = 1..Len(s)
  OBVIOUS
<1> QED BY <1>1

\* The last prompt is what the user said last; without it, the conversation is of the others.
LEMMA HLast ==
    ASSUME NEW c, NEW q, NEW msgs, HTalk(c, q, msgs), Chat(c)!Turns(msgs) # {}
    PROVE  /\ Len(q) \in Nat \ {0} /\ Chat(c)!LastPrompt(msgs) = q[Len(q)] /\ q[Len(q)] \in c.Prompts
           /\ HTalk(c, SubSeq(q, 1, Len(q) - 1), Chat(c)!WithoutLast(msgs))
<1> DEFINE n == Len(q)
           last == Chat(c)!LastTurn(msgs)
           fewer == SubSeq(msgs, 1, last - 1)
           less == SubSeq(q, 1, n - 1)
<1>1. q \in Seq(c.Prompts) /\ msgs \in Seq(Chat(c)!Messages)
  BY DEF HTalk
<1>2. PICK place \in [DOMAIN q -> Chat(c)!Turns(msgs)] :
        /\ \A i \in Chat(c)!Turns(msgs) : \E j \in DOMAIN q : place[j] = i
        /\ \A i, j \in DOMAIN q : i < j => place[i] < place[j]
        /\ \A j \in DOMAIN q : msgs[place[j]].text = q[j]
  BY DEF HTalk, Chat!Asks
<1>3. DOMAIN q = 1..n /\ n \in Nat /\ DOMAIN msgs = 1..Len(msgs) /\ Len(msgs) \in Nat
  BY <1>1
<1>4. n # 0
  BY <1>2, <1>3
<1>5. n \in DOMAIN q /\ q[n] \in c.Prompts
  BY <1>1, <1>3, <1>4
<1>6. Chat(c)!Turns(msgs) \subseteq 1..Len(msgs)
  BY <1>3 DEF Chat!Turns
<1>7. place[n] \in Chat(c)!Turns(msgs) /\ \A i \in Chat(c)!Turns(msgs) : i <= place[n]
  <2>1. place[n] \in Chat(c)!Turns(msgs)
    BY <1>2, <1>5
  <2> SUFFICES ASSUME NEW i \in Chat(c)!Turns(msgs) PROVE i <= place[n]
    BY <2>1
  <2>2. PICK j \in DOMAIN q : place[j] = i
    BY <1>2
  <2>3. CASE j = n
    BY <2>2, <2>3, <1>6, <2>1
  <2>4. CASE j # n
    <3>1. j < n
      BY <2>4, <1>3
    <3>2. place[j] < place[n]
      BY <3>1, <1>2, <1>5
    <3> QED BY <3>2, <2>1, <2>2, <1>3, <1>6
  <2> QED BY <2>3, <2>4
<1>8. last = place[n]
  <2> DEFINE Latest(k) == \A i \in Chat(c)!Turns(msgs) : i <= k
  <2>0. \E k \in Chat(c)!Turns(msgs) : Latest(k)
    BY <1>7
  <2>1. last \in Chat(c)!Turns(msgs) /\ Latest(last)
    <3>1. last = CHOOSE k \in Chat(c)!Turns(msgs) : Latest(k)
      BY DEF Chat!LastTurn
    <3> HIDE DEF last, Latest
    <3> QED BY <2>0, <3>1
  <2> QED BY <2>1, <1>6, <1>7
<1> HIDE DEF last
<1>9. Chat(c)!LastPrompt(msgs) = q[n]
  BY <1>2, <1>5, <1>8 DEF Chat!LastPrompt, last
<1>10. last \in 1..Len(msgs) /\ last \in Nat
  BY <1>6, <1>7, <1>8, <1>3
<1>11. /\ fewer \in Seq(Chat(c)!Messages) /\ DOMAIN fewer = 1..last - 1
       /\ \A i \in 1..last - 1 : fewer[i] = msgs[i] /\ i \in DOMAIN msgs
  BY <1>1, <1>3, <1>10
<1>12. less \in Seq(c.Prompts) /\ DOMAIN less = 1..n - 1 /\ \A j \in 1..n - 1 : less[j] = q[j] /\ j \in DOMAIN q
  BY <1>1, <1>3, <1>4, <1>5, HCut
<1> HIDE DEF fewer, less
<1>13. Chat(c)!Turns(fewer) = Chat(c)!Turns(msgs) \ {last}
  BY <1>3, <1>6, <1>7, <1>8, <1>10, <1>11 DEF Chat!Turns
<1> DEFINE at == [j \in DOMAIN less |-> place[j]]
<1>14. \A j \in DOMAIN less : j \in DOMAIN q /\ j # n /\ place[j] \in Chat(c)!Turns(msgs) /\ place[j] < last
  BY <1>2, <1>3, <1>4, <1>5, <1>8, <1>12
<1>15. at \in [DOMAIN less -> Chat(c)!Turns(fewer)]
  <2>1. \A j \in DOMAIN less : place[j] # last
    BY <1>14, <1>6, <1>10
  <2> QED BY <2>1, <1>13, <1>14
<1>16. \A i \in Chat(c)!Turns(fewer) : \E j \in DOMAIN less : at[j] = i
  <2> TAKE i \in Chat(c)!Turns(fewer)
  <2>1. PICK j \in DOMAIN q : place[j] = i
    BY <1>2, <1>13
  <2>2. j \in DOMAIN less
    BY <2>1, <1>3, <1>8, <1>12, <1>13
  <2> QED BY <2>1, <2>2
<1>17. \A i, j \in DOMAIN less : i < j => at[i] < at[j]
  BY <1>2, <1>14
<1>18. \A j \in DOMAIN less : fewer[at[j]].text = less[j]
  <2> TAKE j \in DOMAIN less
  <2>1. place[j] \in 1..last - 1
    BY <1>6, <1>10, <1>14
  <2> QED BY <2>1, <1>2, <1>11, <1>12, <1>14
<1>19. Chat(c)!Asks(less, fewer)
  BY <1>15, <1>16, <1>17, <1>18 DEF Chat!Asks
<1>20. HTalk(c, less, fewer)
  BY <1>11, <1>12, <1>19 DEF HTalk
<1> QED BY <1>3, <1>4, <1>5, <1>9, <1>20 DEF less, fewer, last, Chat!WithoutLast

\* A retry asks the last prompt once more, in the place of the last exchange.
LEMMA HRetried ==
    ASSUME NEW c, NEW q, NEW msgs, HTalk(c, q, msgs), Chat(c)!Turns(msgs) # {}
    PROVE  LET more == Append(Chat(c)!WithoutLast(msgs), Chat(c)!User(Chat(c)!LastPrompt(msgs)))
           IN  HTalk(c, q, more) /\ Chat(c)!Turns(more) # {}
<1> DEFINE less == SubSeq(q, 1, Len(q) - 1)
           p == Chat(c)!LastPrompt(msgs)
           fewer == Chat(c)!WithoutLast(msgs)
<1>1. q \in Seq(c.Prompts)
  BY DEF HTalk
<1>2. Len(q) \in Nat \ {0} /\ p = q[Len(q)] /\ p \in c.Prompts /\ HTalk(c, less, fewer)
  BY HLast
<1>3. Append(less, q[Len(q)]) = q
  BY <1>1, <1>2
<1> HIDE DEF less, p, fewer
<1>4. HTalk(c, Append(less, p), Append(fewer, Chat(c)!User(p))) /\ Chat(c)!Turns(Append(fewer, Chat(c)!User(p))) # {}
  BY <1>2, HAsked
<1> QED BY <1>2, <1>3, <1>4 DEF p, fewer

\* A session with other messages, or with another count of tokens.
LEMMA HSession ==
    ASSUME NEW c, NEW s \in Chat(c)!Session, NEW m \in Seq(Chat(c)!Messages), NEW n \in c.Costs
    PROVE  /\ LET t == [s EXCEPT !.msgs = m]
              IN  t \in Chat(c)!Session /\ t.msgs = m /\ t.id = s.id /\ t.owner = s.owner
           /\ LET t == [s EXCEPT !.msgs = m, !.tokens = n]
              IN  t \in Chat(c)!Session /\ t.msgs = m /\ t.id = s.id /\ t.owner = s.owner
BY DEF Chat!Session

\* A session that starts has no messages, and its id no file that can be read.
LEMMA HStarted ==
    ASSUME NEW c, Chat(c)!ConstantsFit, HInv(c), NEW i \in Chat(c)!NewIds, NEW a \in c.Agents
    PROVE  LET s == Chat(c)!NewSession(i, a)
           IN  /\ s \in Chat(c)!Session /\ s.id = i /\ s.owner = a /\ s.msgs = <<>>
               /\ i \in Chat(c)!Ids /\ stored[i] \notin Chat(c)!Session
               /\ program # "down" => i # talk.id
<1>1. i \in Chat(c)!Ids /\ i \in Nat /\ \A j \in Chat(c)!InUse : j < i
  BY DEF Chat!NewIds, Chat!Ids, Chat!ConstantsFit
<1>2. i \notin Chat(c)!InUse
  BY <1>1
<1>3. stored[i] \notin Chat(c)!Session
  BY <1>1, <1>2 DEF Chat!InUse, Chat!Readable, Chat!ConstantsFit
<1>4. program # "down" => i # talk.id
  BY <1>2 DEF Chat!InUse, Chat!Up
<1>5. /\ Chat(c)!NewSession(i, a) \in Chat(c)!Session /\ Chat(c)!NewSession(i, a).id = i
      /\ Chat(c)!NewSession(i, a).owner = a /\ Chat(c)!NewSession(i, a).msgs = <<>>
  BY <1>1 DEF Chat!NewSession, Chat!Session
<1> QED BY <1>1, <1>3, <1>4, <1>5

\* A session that a command begins with is new, or is what its file holds.
LEMMA HBegun ==
    ASSUME NEW c, Chat(c)!ConstantsFit, HInv(c), NEW a \in c.Agents, NEW s \in Chat(c)!Begins(a)
    PROVE  /\ s \in Chat(c)!Session /\ s.owner = a /\ s.id \in Chat(c)!Ids
           /\ stored[s.id] \in Chat(c)!Session => stored[s.id].owner = a
           /\ s.msgs # <<>> => stored[s.id] = s
<1>1. CASE s \in Chat(c)!Resumes(a)
  <2>1. PICK i \in Chat(c)!Ids : Chat(c)!Readable(i) /\ stored[i].owner = a /\ s = [stored[i] EXCEPT !.owner = a]
    BY <1>1 DEF Chat!Resumes
  <2>2. stored[i] \in Chat(c)!Session /\ stored[i].id = i
    BY <2>1 DEF HInv, HTypes, HFiles, Chat!Readable
  <2>3. s = stored[i]
    BY <2>1, <2>2 DEF Chat!Session
  <2> QED BY <2>1, <2>2, <2>3
<1>2. CASE s \notin Chat(c)!Resumes(a)
  <2>1. PICK i \in Chat(c)!NewIds : s = Chat(c)!NewSession(i, a)
    BY <1>2 DEF Chat!Begins
  <2> QED BY <2>1, HStarted
<1> QED BY <1>1, <1>2

\* The prompts that a conversation begins with are its own.
LEMMA HPrompts ==
    ASSUME NEW c, NEW s \in Chat(c)!Session, NEW q \in Chat(c)!PromptsOf(s.msgs)
    PROVE  HTalk(c, q, s.msgs)
<1>1. PICK n \in 0..Len(s.msgs) : q \in [1..n -> c.Prompts]
  BY DEF Chat!PromptsOf
<1>2. s.msgs \in Seq(Chat(c)!Messages) /\ Len(s.msgs) \in Nat
  BY DEF Chat!Session
<1>3. n \in Nat
  BY <1>1, <1>2
<1>4. q \in Seq(c.Prompts)
  BY <1>1, <1>3
<1> QED BY <1>2, <1>4 DEF HTalk, Chat!PromptsOf

\* The first state.
LEMMA HInit == ASSUME NEW c, Chat(c)!ConstantsFit, Chat(c)!Init PROVE HInv(c)
<1>1. PICK a \in c.Agents :
      /\ speaker = a /\ runtime = [agent |-> a, memory |-> FALSE]
      /\ talk = Chat(c)!NewSession(0, a) /\ submission = Chat(c)!Idle(a)
  BY DEF Chat!Init
<1>2. talk \in Chat(c)!Session /\ talk.owner = a /\ talk.msgs = <<>> /\ talk.id = 0
  BY <1>1 DEF Chat!NewSession, Chat!Session
<1>3. submission \in [at : HPlaces, op : HOps, to : c.Agents] /\ submission.at = "idle"
  BY <1>1 DEF Chat!Idle, HPlaces, HOps
<1>4. /\ program = "down" /\ stored = [i \in Chat(c)!Ids |-> None] /\ muted = FALSE
      /\ wanted = <<>> /\ cutoff = FALSE
  BY DEF Chat!Init
<1>5. HTypes(c)
  BY <1>1, <1>2, <1>3, <1>4 DEF HTypes
<1>6. 0 \notin Chat(c)!Ids
  BY DEF Chat!Ids, Chat!ConstantsFit
<1>7. HFiles(c)
  BY <1>2, <1>3, <1>4, <1>6 DEF HFiles, Chat!ConstantsFit
<1> QED BY <1>2, <1>4, <1>5, <1>7, HNew DEF HInv

\* A submission that moves on, or is cut off, leaves the conversation as it is.
LEMMA HMoves ==
    ASSUME NEW c, HInv(c), stored' = stored, talk' = talk, speaker' = speaker, wanted' = wanted,
           program' \in {program, "down"}, cutoff' \in {cutoff, TRUE}, muted' \in BOOLEAN,
           runtime' \in [agent : c.Agents, memory : BOOLEAN],
           submission' \in [at : HPlaces, op : HOps, to : c.Agents],
           submission'.at \in {"recalling", "answering", "extracting", "summarising"} =>
             submission.at \in {"recalling", "answering", "extracting", "summarising"}
    PROVE  HInv(c)'
<1>1. HTypes(c)'
  BY DEF HInv, HTypes
<1>2. HFiles(c)'
  BY DEF HInv, HTypes, HFiles
<1> QED BY <1>1, <1>2 DEF HInv

\* The session is stored, and no question is under way.
LEMMA HSaves ==
    ASSUME NEW c, HInv(c), program # "down", Chat(c)!Stores, talk' = talk, speaker' = speaker, wanted' = wanted,
           program' \in {program, "down"}, cutoff' \in BOOLEAN, muted' \in BOOLEAN,
           runtime' \in [agent : c.Agents, memory : BOOLEAN],
           submission' \in [at : HPlaces, op : HOps, to : c.Agents],
           submission'.at \notin {"recalling", "answering", "extracting", "summarising"}
    PROVE  HInv(c)'
<1>1. talk.id \in Chat(c)!Ids /\ talk \in Chat(c)!Session
  BY DEF HInv, HFiles, HTypes
<1>2. /\ stored' \in [Chat(c)!Ids -> Chat(c)!Session \cup {None, c.Torn}] /\ stored'[talk.id] = talk
      /\ \A i \in Chat(c)!Ids \ {talk.id} : stored'[i] = stored[i]
  BY <1>1 DEF HInv, HTypes, Chat!Stores
<1>3. HTypes(c)'
  BY <1>2 DEF HInv, HTypes
<1>4. HFiles(c)'
  BY <1>1, <1>2 DEF HInv, HTypes, HFiles
<1> QED BY <1>3, <1>4 DEF HInv

\* The session in memory becomes another, or goes on: it is of the agent shown, holds what was
\* asked, and is on disk if it is not said to be cut off.
LEMMA HTurns ==
    ASSUME NEW c, HInv(c), stored' = stored, talk' \in Chat(c)!Session, speaker' \in c.Agents,
           talk'.owner = speaker', talk'.id \in Chat(c)!Ids,
           stored[talk'.id] \in Chat(c)!Session => stored[talk'.id].owner = speaker',
           HTalk(c, wanted', talk'.msgs),
           program' \in {"down", "chat", "run"}, cutoff' \in BOOLEAN, muted' \in BOOLEAN,
           runtime' \in [agent : c.Agents, memory : BOOLEAN],
           submission' \in [at : HPlaces, op : HOps, to : c.Agents],
           ~cutoff' /\ talk'.msgs # <<>> => stored[talk'.id] = talk',
           submission'.at \in {"recalling", "answering", "extracting", "summarising"} =>
             cutoff' /\ Chat(c)!Turns(talk'.msgs) # {}
    PROVE  HInv(c)'
<1>1. HTypes(c)'
  BY DEF HInv, HTypes
<1>2. HFiles(c)'
  BY DEF HInv, HTypes, HFiles
<1> QED BY <1>1, <1>2 DEF HInv

\* The places of a turn.
LEMMA HPlaced ==
    ASSUME NEW c, NEW t \in [at : HPlaces, op : HOps, to : c.Agents], NEW at \in HPlaces, NEW a \in c.Agents, NEW op \in HOps
    PROVE  /\ [t EXCEPT !.at = at] \in [at : HPlaces, op : HOps, to : c.Agents] /\ [t EXCEPT !.at = at].at = at
           /\ [t EXCEPT !.at = at, !.to = a] \in [at : HPlaces, op : HOps, to : c.Agents]
           /\ [t EXCEPT !.at = at, !.to = a].at = at
           /\ [at |-> at, op |-> op, to |-> a] \in [at : HPlaces, op : HOps, to : c.Agents]
           /\ Chat(c)!Idle(a) \in [at : HPlaces, op : HOps, to : c.Agents] /\ Chat(c)!Idle(a).at = "idle"
BY DEF HPlaces, HOps, Chat!Idle

\* A chat begins with a session that is on disk or empty.
LEMMA HLaunch ==
    ASSUME NEW c, Chat(c)!ConstantsFit, HInv(c), NEW a \in c.Agents, NEW memory \in BOOLEAN, Chat(c)!Launch(a, memory)
    PROVE  HInv(c)'
<1>1. PICK s \in Chat(c)!Begins(a) : talk' = s /\ wanted' \in Chat(c)!PromptsOf(s.msgs)
  BY DEF Chat!Launch
<1>2. /\ speaker' = a /\ muted' = ~memory /\ runtime' = [agent |-> a, memory |-> memory] /\ stored' = stored
      /\ submission' = Chat(c)!Idle(a) /\ program' = "chat" /\ cutoff' = FALSE
  BY DEF Chat!Launch
<1>3. HTalk(c, wanted', talk'.msgs)
  BY <1>1, HBegun, HPrompts
<1>4. submission' \in [at : HPlaces, op : HOps, to : c.Agents] /\ submission'.at = "idle"
  <2>1. Chat(c)!Idle(a) \in [at : HPlaces, op : HOps, to : c.Agents] /\ Chat(c)!Idle(a).at = "idle"
    BY DEF Chat!Idle, HPlaces, HOps
  <2> QED BY <2>1, <1>2
<1>5. /\ talk' \in Chat(c)!Session /\ talk'.owner = a /\ talk'.id \in Chat(c)!Ids
      /\ stored[talk'.id] \in Chat(c)!Session => stored[talk'.id].owner = a
      /\ talk'.msgs # <<>> => stored[talk'.id] = talk'
  BY <1>1, HBegun
<1>6. runtime' \in [agent : c.Agents, memory : BOOLEAN] /\ muted' \in BOOLEAN
  BY <1>2
<1> QED BY <1>2, <1>3, <1>4, <1>5, <1>6, HTurns

\* A one-off run begins with one and asks at once.
LEMMA HRunOnce ==
    ASSUME NEW c, Chat(c)!ConstantsFit, HInv(c), NEW a \in c.Agents, NEW memory \in BOOLEAN, NEW p \in c.Prompts,
           Chat(c)!RunOnce(a, memory, p)
    PROVE  HInv(c)'
<1>1. PICK s \in Chat(c)!Begins(a) :
      /\ talk' = [s EXCEPT !.msgs = Append(@, Chat(c)!User(p))]
      /\ \E q \in Chat(c)!PromptsOf(s.msgs) : wanted' = Append(q, p)
  BY DEF Chat!RunOnce
<1>2. /\ speaker' = a /\ muted' = ~memory /\ runtime' = [agent |-> a, memory |-> memory] /\ stored' = stored
      /\ program' = "run" /\ cutoff' = TRUE
  BY DEF Chat!RunOnce
<1>3. PICK q \in Chat(c)!PromptsOf(s.msgs) : wanted' = Append(q, p)
  BY <1>1
<1>4. s \in Chat(c)!Session
  BY HBegun
<1> DEFINE m == Append(s.msgs, Chat(c)!User(p))
<1>5. HTalk(c, wanted', m) /\ Chat(c)!Turns(m) # {}
  BY <1>3, <1>4, HPrompts, HAsked
<1>6. m \in Seq(Chat(c)!Messages)
  BY <1>5 DEF HTalk
<1>7. talk' \in Chat(c)!Session /\ talk'.msgs = m /\ talk'.id = s.id /\ talk'.owner = s.owner
  <2>1. talk' = [s EXCEPT !.msgs = m]
    BY <1>1
  <2> HIDE DEF m
  <2> QED BY <2>1, <1>4, <1>6 DEF Chat!Session
<1>8. submission' \in [at : HPlaces, op : HOps, to : c.Agents]
  BY DEF Chat!RunOnce, Chat!First, HPlaces, HOps
<1> HIDE DEF m
<1> QED BY <1>2, <1>5, <1>7, <1>8, HBegun, HTurns

\* A prompt that is submitted joins the session and may be cut off.
LEMMA HSubmit ==
    ASSUME NEW c, HInv(c), NEW p \in c.Prompts, Chat(c)!Submit(p)
    PROVE  HInv(c)'
<1> DEFINE m == Append(talk.msgs, Chat(c)!User(p))
<1>1. /\ talk' = [talk EXCEPT !.msgs = m] /\ wanted' = Append(wanted, p) /\ cutoff' = TRUE /\ program = "chat"
      /\ program' = program /\ stored' = stored /\ speaker' = speaker /\ muted' = muted /\ runtime' = runtime
      /\ submission' = [at |-> Chat(c)!First, op |-> "ask", to |-> speaker']
  BY DEF Chat!Submit, Chat!Prompt, Chat!Ready
<1>2. HTalk(c, wanted', m) /\ Chat(c)!Turns(m) # {}
  BY <1>1, HAsked DEF HInv
<1>3. m \in Seq(Chat(c)!Messages)
  BY <1>2 DEF HTalk
<1> HIDE DEF m
<1>4. talk' \in Chat(c)!Session /\ talk'.msgs = m /\ talk'.id = talk.id /\ talk'.owner = talk.owner
  BY <1>1, <1>3 DEF HInv, HTypes, Chat!Session
<1>5. submission' \in [at : HPlaces, op : HOps, to : c.Agents]
  BY <1>1 DEF HInv, HTypes, Chat!First, HPlaces, HOps
<1>6. HTypes(c) /\ HFiles(c)
  BY DEF HInv
<1>7. /\ talk.id \in Chat(c)!Ids /\ talk.owner = speaker /\ speaker \in c.Agents /\ muted \in BOOLEAN
      /\ runtime \in [agent : c.Agents, memory : BOOLEAN]
      /\ stored[talk.id] \in Chat(c)!Session => stored[talk.id].owner = speaker
  BY <1>1, <1>6 DEF HTypes, HFiles
<1> QED BY <1>1, <1>2, <1>4, <1>5, <1>7, HTurns

\* A retry asks the last prompt again and leaves what the user wants as it is.
LEMMA HRetry ==
    ASSUME NEW c, HInv(c), Chat(c)!Retry
    PROVE  HInv(c)'
<1> DEFINE m == Append(Chat(c)!WithoutLast(talk.msgs), Chat(c)!User(Chat(c)!LastPrompt(talk.msgs)))
<1>1. /\ talk' = [talk EXCEPT !.msgs = m] /\ wanted' = wanted /\ cutoff' = TRUE /\ program = "chat"
      /\ program' = program /\ stored' = stored /\ speaker' = speaker /\ muted' = muted /\ runtime' = runtime
      /\ submission' = [at |-> Chat(c)!First, op |-> "retry", to |-> speaker']
      /\ Chat(c)!Turns(talk.msgs) # {}
  BY DEF Chat!Retry, Chat!Prompt, Chat!Ready
<1>2. HTalk(c, wanted, m) /\ Chat(c)!Turns(m) # {}
  BY <1>1, HRetried DEF HInv
<1>3. m \in Seq(Chat(c)!Messages)
  BY <1>2 DEF HTalk
<1> HIDE DEF m
<1>4. talk' \in Chat(c)!Session /\ talk'.msgs = m /\ talk'.id = talk.id /\ talk'.owner = talk.owner
  BY <1>1, <1>3 DEF HInv, HTypes, Chat!Session
<1>5. submission' \in [at : HPlaces, op : HOps, to : c.Agents]
  BY <1>1 DEF HInv, HTypes, Chat!First, HPlaces, HOps
<1>6. HTypes(c) /\ HFiles(c)
  BY DEF HInv
<1>7. /\ talk.id \in Chat(c)!Ids /\ talk.owner = speaker /\ speaker \in c.Agents /\ muted \in BOOLEAN
      /\ runtime \in [agent : c.Agents, memory : BOOLEAN]
      /\ stored[talk.id] \in Chat(c)!Session => stored[talk.id].owner = speaker
  BY <1>1, <1>6 DEF HTypes, HFiles
<1> QED BY <1>1, <1>2, <1>4, <1>5, <1>7, HTurns

\* The answer joins the session of a submission that may be cut off.
LEMMA HAnswers ==
    ASSUME NEW c, HInv(c), Chat(c)!AtWork("answering"), Chat(c)!Answered,
           UNCHANGED <<stored, speaker, muted, runtime, wanted>>
    PROVE  HInv(c)'
<1> DEFINE p == Chat(c)!LastPrompt(talk.msgs)
           m == Append(talk.msgs, Chat(c)!Assistant(p))
<1>1. HTypes(c) /\ HFiles(c) /\ HTalk(c, wanted, talk.msgs)
  BY DEF HInv
<1>2. cutoff /\ Chat(c)!Turns(talk.msgs) # {} /\ program # "down" /\ submission.at = "answering"
  BY <1>1 DEF HTypes, HFiles, Chat!AtWork, Chat!Up
<1>3. p \in c.Prompts
  BY <1>1, <1>2, HLast
<1>4. PICK n \in c.Costs : talk' = [talk EXCEPT !.msgs = Append(@, Chat(c)!Assistant(Chat(c)!LastPrompt(@))), !.tokens = n]
  BY DEF Chat!Answered
<1>5. talk' = [talk EXCEPT !.msgs = m, !.tokens = n]
  BY <1>4
<1> HIDE DEF p
<1>6. HTalk(c, wanted, m) /\ Chat(c)!Turns(m) # {}
  BY <1>1, <1>2, <1>3, HAnswered
<1>7. m \in Seq(Chat(c)!Messages)
  BY <1>6 DEF HTalk
<1> HIDE DEF m
<1>8. talk' \in Chat(c)!Session /\ talk'.msgs = m /\ talk'.id = talk.id /\ talk'.owner = talk.owner
  BY <1>1, <1>5, <1>7 DEF HTypes, Chat!Session
<1>9. /\ submission' \in [at : HPlaces, op : HOps, to : c.Agents] /\ program' = program /\ cutoff' = cutoff
  BY <1>1 DEF HTypes, Chat!Answered, Chat!Goes, HPlaces, HOps
<1>10. /\ talk.id \in Chat(c)!Ids /\ talk.owner = speaker /\ speaker \in c.Agents /\ muted \in BOOLEAN
       /\ program \in {"down", "chat", "run"} /\ runtime \in [agent : c.Agents, memory : BOOLEAN]
       /\ stored[talk.id] \in Chat(c)!Session => stored[talk.id].owner = speaker
  BY <1>1, <1>2 DEF HTypes, HFiles
<1> QED BY <1>2, <1>6, <1>8, <1>9, <1>10, HTurns

\* The session is stored on request, and when the chat is left.
LEMMA HSave == ASSUME NEW c, HInv(c), Chat(c)!Save PROVE HInv(c)'
<1>1. program # "down" /\ submission.at = "idle" /\ Chat(c)!Stores /\ cutoff' = FALSE
  BY DEF Chat!Save, Chat!Ready
<1>2. UNCHANGED <<program, talk, speaker, muted, runtime, submission, wanted>>
  BY DEF Chat!Save
<1> QED BY <1>1, <1>2, HSaves DEF HInv, HTypes

LEMMA HExit == ASSUME NEW c, HInv(c), Chat(c)!Exit PROVE HInv(c)'
<1>1. program # "down" /\ submission.at = "idle" /\ Chat(c)!Stores /\ cutoff' = FALSE /\ program' = "down"
  BY DEF Chat!Exit, Chat!Ready
<1>2. UNCHANGED <<talk, speaker, muted, runtime, submission, wanted>>
  BY DEF Chat!Exit
<1> QED BY <1>1, <1>2, HSaves DEF HInv, HTypes

\* A crash may tear the file of the session.
LEMMA HCrash == ASSUME NEW c, Chat(c)!ConstantsFit, HInv(c), Chat(c)!Crash PROVE HInv(c)'
<1>1. /\ stored' \in {stored, [stored EXCEPT ![talk.id] = c.Torn]} /\ program' = "down" /\ cutoff' = TRUE
      /\ submission' = Chat(c)!Idle(speaker)
      /\ talk' = talk /\ speaker' = speaker /\ muted' = muted /\ runtime' = runtime /\ wanted' = wanted
  BY DEF Chat!Crash
<1>2. Chat(c)!Idle(speaker) \in [at : HPlaces, op : HOps, to : c.Agents] /\ Chat(c)!Idle(speaker).at = "idle"
  BY DEF HInv, HTypes, Chat!Idle, HPlaces, HOps
<1>3. submission' \in [at : HPlaces, op : HOps, to : c.Agents] /\ submission'.at = "idle"
  BY <1>1, <1>2
<1>4. c.Torn \notin Chat(c)!Session
  BY DEF Chat!ConstantsFit
<1>5. /\ stored' \in [Chat(c)!Ids -> Chat(c)!Session \cup {None, c.Torn}]
      /\ \A i \in Chat(c)!Ids : stored'[i] = stored[i] \/ stored'[i] = c.Torn
  BY <1>1 DEF HInv, HTypes
<1>6. HTypes(c)'
  BY <1>1, <1>3, <1>5 DEF HInv, HTypes
<1>7. HFiles(c)'
  BY <1>1, <1>3, <1>4, <1>5 DEF HInv, HTypes, HFiles
<1> QED BY <1>1, <1>6, <1>7 DEF HInv

\* The submission goes on, or is over.
LEMMA HGoes ==
    ASSUME NEW c, HInv(c), UNCHANGED <<stored, talk, speaker, muted, runtime, wanted>>,
           \/ \E at \in HPlaces : /\ Chat(c)!Goes(at)
                                  /\ at \in {"recalling", "answering", "extracting", "summarising"} =>
                                       submission.at \in {"recalling", "answering", "extracting", "summarising"}
           \/ \E unsaved \in {TRUE, cutoff} : Chat(c)!Over(unsaved)
    PROVE  HInv(c)'
<1>1. /\ submission \in [at : HPlaces, op : HOps, to : c.Agents] /\ muted \in BOOLEAN
      /\ runtime \in [agent : c.Agents, memory : BOOLEAN]
  BY DEF HInv, HTypes
<1>2. CASE \E unsaved \in {TRUE, cutoff} : Chat(c)!Over(unsaved)
  <2>1. program' \in {program, "down"} /\ cutoff' \in {cutoff, TRUE} /\ submission' = [submission EXCEPT !.at = "idle"]
    BY <1>2 DEF Chat!Over
  <2>2. submission' \in [at : HPlaces, op : HOps, to : c.Agents] /\ submission'.at = "idle"
    BY <1>1, <2>1 DEF HPlaces
  <2> QED BY <1>1, <2>1, <2>2, HMoves
<1>3. CASE ~\E unsaved \in {TRUE, cutoff} : Chat(c)!Over(unsaved)
  <2>1. PICK at \in HPlaces :
        /\ Chat(c)!Goes(at)
        /\ at \in {"recalling", "answering", "extracting", "summarising"} =>
             submission.at \in {"recalling", "answering", "extracting", "summarising"}
    BY <1>3
  <2>2. program' = program /\ cutoff' = cutoff /\ submission' = [submission EXCEPT !.at = at]
    BY <2>1 DEF Chat!Goes
  <2>3. submission' \in [at : HPlaces, op : HOps, to : c.Agents] /\ submission'.at = at
    BY <1>1, <2>1, <2>2
  <2> QED BY <1>1, <2>1, <2>2, <2>3, HMoves
<1> QED BY <1>2, <1>3

LEMMA HRecall == ASSUME NEW c, HInv(c), Chat(c)!Recall PROVE HInv(c)'
BY HGoes DEF Chat!Recall, Chat!AtWork, HPlaces

LEMMA HExtract == ASSUME NEW c, HInv(c), Chat(c)!Extract PROVE HInv(c)'
BY HGoes DEF Chat!Extract, Chat!AtWork, HPlaces, Chat!Extracted

LEMMA HAnswer == ASSUME NEW c, HInv(c), Chat(c)!Answer PROVE HInv(c)'
<1>1. CASE Chat(c)!Answered
  BY <1>1, HAnswers DEF Chat!Answer
<1>2. CASE ~Chat(c)!Answered
  BY <1>2, HGoes DEF Chat!Answer
<1> QED BY <1>1, <1>2

LEMMA HCancel == ASSUME NEW c, HInv(c), Chat(c)!Cancel PROVE HInv(c)'
<1>1. Chat(c)!CutOff(submission.at) /\ program # "down" /\ UNCHANGED <<stored, speaker, muted, runtime, wanted>>
  BY DEF Chat!Cancel, Chat!Up
<1>2. CASE submission.at = "answering" /\ submission.op # "run"
  <2>1. Chat(c)!Answered /\ Chat(c)!AtWork("answering")
    BY <1>1, <1>2 DEF Chat!CutOff, Chat!AtWork, Chat!Up
  <2> QED BY <1>1, <2>1, HAnswers
<1>3. CASE ~(submission.at = "answering" /\ submission.op # "run")
  <2>1. Chat(c)!Over(cutoff) /\ talk' = talk
    BY <1>1, <1>3 DEF Chat!CutOff
  <2> QED BY <1>1, <2>1, HGoes
<1> QED BY <1>2, <1>3

\* The last steps of a turn store the session.
LEMMA HSummarise == ASSUME NEW c, HInv(c), Chat(c)!Summarise PROVE HInv(c)'
<1>1. /\ submission \in [at : HPlaces, op : HOps, to : c.Agents] /\ muted \in BOOLEAN
      /\ runtime \in [agent : c.Agents, memory : BOOLEAN]
  BY DEF HInv, HTypes
<1>2. /\ program # "down" /\ Chat(c)!Stores /\ UNCHANGED <<talk, speaker, muted, runtime, wanted>>
      /\ program' \in {program, "down"} /\ cutoff' = FALSE
  BY DEF Chat!Summarise, Chat!AtWork, Chat!Up, Chat!Over
<1>3. \E at \in {"idle", "consolidating"} : submission' = [submission EXCEPT !.at = at]
  BY DEF Chat!Summarise, Chat!Over
<1>4. PICK at \in {"idle", "consolidating"} : submission' = [submission EXCEPT !.at = at]
  BY <1>3
<1>5. submission' \in [at : HPlaces, op : HOps, to : c.Agents] /\ submission'.at = at
  BY <1>1, <1>4 DEF HPlaces
<1> QED BY <1>1, <1>2, <1>4, <1>5, HSaves

LEMMA HConsolidate == ASSUME NEW c, HInv(c), Chat(c)!Consolidate PROVE HInv(c)'
<1>1. /\ submission \in [at : HPlaces, op : HOps, to : c.Agents] /\ muted \in BOOLEAN
      /\ runtime \in [agent : c.Agents, memory : BOOLEAN]
  BY DEF HInv, HTypes
<1>2. /\ program # "down" /\ Chat(c)!Stores /\ UNCHANGED <<talk, speaker, muted, runtime, wanted>>
      /\ program' \in {program, "down"} /\ cutoff' = FALSE /\ submission' = [submission EXCEPT !.at = "idle"]
  BY DEF Chat!Consolidate, Chat!AtWork, Chat!Up, Chat!Over
<1>3. submission' \in [at : HPlaces, op : HOps, to : c.Agents] /\ submission'.at = "idle"
  BY <1>1, <1>2 DEF HPlaces
<1> QED BY <1>1, <1>2, <1>3, HSaves

\* The next session is begun when this one is stored.
LEMMA HOpens ==
    ASSUME NEW c, Chat(c)!ConstantsFit, HInv(c), NEW a \in c.Agents, program # "down", program' = program,
           muted' \in BOOLEAN, submission.at \notin {"recalling", "answering", "extracting", "summarising"},
           Chat(c)!Opens(a), cutoff' = FALSE
    PROVE  HInv(c)'
<1>1. PICK i \in Chat(c)!NewIds : talk' = Chat(c)!NewSession(i, a)
  BY DEF Chat!Opens, Chat!Starts
<1>2. speaker' = a /\ wanted' = <<>> /\ Chat(c)!Stores
  BY DEF Chat!Opens, Chat!Starts
<1>3. /\ talk' \in Chat(c)!Session /\ talk'.id = i /\ talk'.owner = a /\ talk'.msgs = <<>>
      /\ i \in Chat(c)!Ids /\ stored[i] \notin Chat(c)!Session /\ i # talk.id
  BY <1>1, HStarted
<1>4. HTypes(c) /\ HFiles(c)
  BY DEF HInv
<1>5. talk.id \in Chat(c)!Ids /\ talk \in Chat(c)!Session
  BY <1>4 DEF HFiles, HTypes
<1>6. /\ stored' \in [Chat(c)!Ids -> Chat(c)!Session \cup {None, c.Torn}] /\ stored'[talk.id] = talk
      /\ \A j \in Chat(c)!Ids \ {talk.id} : stored'[j] = stored[j]
  BY <1>2, <1>4, <1>5 DEF HTypes, Chat!Stores
<1>7. submission \in [at : HPlaces, op : HOps, to : c.Agents] /\ runtime \in [agent : c.Agents, memory : BOOLEAN]
  BY <1>4 DEF HTypes
<1>8. /\ runtime' \in [agent : c.Agents, memory : BOOLEAN]
      /\ submission' \in [at : HPlaces, op : HOps, to : c.Agents]
      /\ submission'.at \notin {"recalling", "answering", "extracting", "summarising"}
  <2>1. CASE muted'
    <3>1. runtime' = [agent |-> a, memory |-> ~muted'] /\ submission' = Chat(c)!Idle(a)
      BY <2>1, <1>2 DEF Chat!Opens, Chat!Built
    <3>2. Chat(c)!Idle(a) \in [at : HPlaces, op : HOps, to : c.Agents] /\ Chat(c)!Idle(a).at = "idle"
      BY DEF Chat!Idle, HPlaces, HOps
    <3>3. runtime' \in [agent : c.Agents, memory : BOOLEAN]
      BY <3>1
    <3> QED BY <3>1, <3>2, <3>3
  <2>2. CASE ~muted'
    <3>1. runtime' = runtime /\ submission' = [submission EXCEPT !.at = "building", !.to = a]
      BY <2>2 DEF Chat!Opens
    <3>2. submission' \in [at : HPlaces, op : HOps, to : c.Agents] /\ submission'.at = "building"
      BY <3>1, <1>7 DEF HPlaces
    <3> QED BY <3>1, <3>2, <1>7
  <2> QED BY <2>1, <2>2
<1>9. HTypes(c)'
  BY <1>2, <1>3, <1>4, <1>6, <1>8 DEF HTypes
<1>10. HFiles(c)'
  <2>1. \A j \in Chat(c)!Ids : stored'[j] \in Chat(c)!Session => stored'[j].id = j
    BY <1>4, <1>5, <1>6 DEF HFiles
  <2>2. stored'[i] \notin Chat(c)!Session
    BY <1>3, <1>6
  <2> QED BY <2>1, <2>2, <1>3, <1>8 DEF HFiles
<1>11. HTalk(c, <<>>, <<>>)
  BY HNew
<1> QED BY <1>2, <1>3, <1>9, <1>10, <1>11 DEF HInv

\* The federation is closed first, if there is one.
LEMMA HLeaves ==
    ASSUME NEW c, Chat(c)!ConstantsFit, HInv(c), NEW a \in c.Agents, program # "down", program' = program,
           muted' \in BOOLEAN, submission.at \notin {"recalling", "answering", "extracting", "summarising"},
           Chat(c)!Leaves(a)
    PROVE  HInv(c)'
<1>1. CASE runtime.memory
  <2>1. /\ submission' = [submission EXCEPT !.at = "leaving", !.to = a]
        /\ UNCHANGED <<stored, talk, speaker, runtime, wanted, cutoff>>
    BY <1>1 DEF Chat!Leaves
  <2>2. submission \in [at : HPlaces, op : HOps, to : c.Agents] /\ runtime \in [agent : c.Agents, memory : BOOLEAN]
    BY DEF HInv, HTypes
  <2>3. submission' \in [at : HPlaces, op : HOps, to : c.Agents] /\ submission'.at = "leaving"
    BY <2>1, <2>2 DEF HPlaces
  <2> QED BY <2>1, <2>2, <2>3, HMoves
<1>2. CASE ~runtime.memory
  <2>1. Chat(c)!Opens(a) /\ cutoff' = FALSE
    BY <1>2 DEF Chat!Leaves
  <2> QED BY <2>1, HOpens
<1> QED BY <1>1, <1>2

LEMMA HFresh ==
    ASSUME NEW c, Chat(c)!ConstantsFit, HInv(c), NEW memory \in BOOLEAN, Chat(c)!Fresh(memory)
    PROVE  HInv(c)'
<1>1. speaker \in c.Agents
  BY DEF HInv, HTypes
<1>2. /\ program # "down" /\ program' = program /\ muted' \in BOOLEAN /\ submission.at = "idle"
      /\ Chat(c)!Leaves(speaker)
  BY DEF Chat!Fresh, Chat!Ready
<1> QED BY <1>1, <1>2, HLeaves

LEMMA HSwitch ==
    ASSUME NEW c, HInv(c), NEW a \in c.Agents, Chat(c)!Switch(a)
    PROVE  HInv(c)'
<1>1. /\ submission' = [at |-> "routing", op |-> "switch", to |-> a]
      /\ UNCHANGED <<program, stored, talk, speaker, muted, runtime, wanted, cutoff>>
  BY DEF Chat!Switch
<1>2. submission' \in [at : HPlaces, op : HOps, to : c.Agents] /\ submission'.at = "routing"
  BY <1>1 DEF HPlaces, HOps
<1>3. muted \in BOOLEAN /\ runtime \in [agent : c.Agents, memory : BOOLEAN]
  BY DEF HInv, HTypes
<1> QED BY <1>1, <1>2, <1>3, HMoves

LEMMA HRoute == ASSUME NEW c, Chat(c)!ConstantsFit, HInv(c), Chat(c)!Route PROVE HInv(c)'
<1>1. muted \in BOOLEAN /\ submission.to \in c.Agents
  BY DEF HInv, HTypes
<1>2. /\ program # "down" /\ program' = program /\ muted' = muted /\ submission.at = "routing"
      /\ Chat(c)!Leaves(submission.to)
  BY DEF Chat!Route, Chat!AtWork, Chat!Up
<1> QED BY <1>1, <1>2, HLeaves

LEMMA HLeave == ASSUME NEW c, Chat(c)!ConstantsFit, HInv(c), Chat(c)!Leave PROVE HInv(c)'
<1>1. muted \in BOOLEAN /\ submission.to \in c.Agents
  BY DEF HInv, HTypes
<1>2. /\ program # "down" /\ program' = program /\ muted' = muted /\ submission.at = "leaving"
      /\ Chat(c)!Opens(submission.to) /\ cutoff' = FALSE
  BY DEF Chat!Leave, Chat!AtWork, Chat!Up
<1> QED BY <1>1, <1>2, HOpens

LEMMA HBuild == ASSUME NEW c, HInv(c), Chat(c)!Build PROVE HInv(c)'
<1>1. /\ UNCHANGED <<program, stored, talk, speaker, muted, wanted, cutoff>>
      /\ runtime' = [agent |-> speaker', memory |-> ~muted'] /\ submission' = Chat(c)!Idle(speaker')
  BY DEF Chat!Build, Chat!Built
<1>2. muted \in BOOLEAN /\ speaker \in c.Agents
  BY DEF HInv, HTypes
<1>3. Chat(c)!Idle(speaker) \in [at : HPlaces, op : HOps, to : c.Agents] /\ Chat(c)!Idle(speaker).at = "idle"
  BY <1>2 DEF Chat!Idle, HPlaces, HOps
<1>4. submission' \in [at : HPlaces, op : HOps, to : c.Agents] /\ submission'.at = "idle"
  BY <1>1, <1>3
<1>5. runtime' \in [agent : c.Agents, memory : BOOLEAN]
  BY <1>1, <1>2
<1> QED BY <1>1, <1>2, <1>4, <1>5, HMoves

LEMMA HStep ==
    ASSUME NEW c, Chat(c)!ConstantsFit, HInv(c), [Chat(c)!Next]_(Chat(c)!vars)
    PROVE  HInv(c)'
<1>1. CASE UNCHANGED Chat(c)!vars
  BY <1>1 DEF Chat!vars, HInv, HTypes, HFiles
<1>2. CASE Chat(c)!Next
  BY <1>2, HLaunch, HRunOnce, HSubmit, HRetry, HSave, HExit, HCrash, HRecall, HAnswer, HExtract, HSummarise,
     HConsolidate, HCancel, HFresh, HSwitch, HRoute, HLeave, HBuild DEF Chat!Next
<1> QED BY <1>1, <1>2

\* The conversation is the user's, as far as it should be on disk.
LEMMA HHolds == ASSUME NEW c, Chat(c)!ConstantsFit, HInv(c) PROVE Chat(c)!ConversationKept
<1>1. HTypes(c) /\ HFiles(c) /\ HTalk(c, wanted, talk.msgs)
  BY DEF HInv
<1>2. \A i \in Chat(c)!Ids : Chat(c)!Readable(i) => stored[i] \in Chat(c)!Session
  BY <1>1 DEF HTypes, Chat!Readable
<1>3. Chat(c)!TypeOK
  <2>1. \A i \in Chat(c)!Ids : Chat(c)!Readable(i) => stored[i].id = i
    BY <1>1, <1>2 DEF HFiles
  <2>2. \A i \in DOMAIN talk.msgs : talk.msgs[i] \in Chat(c)!Messages
    BY <1>1 DEF HTalk
  <2>3. talk.tokens \in c.Costs \cup {0}
    BY <1>1 DEF HTypes, Chat!Session
  <2> QED BY <1>1, <2>1, <2>2, <2>3 DEF HTypes, HPlaces, HOps, Chat!TypeOK
<1>4. Chat(c)!AskedOnce
  BY <1>1 DEF HTalk, Chat!AskedOnce
<1>5. Chat(c)!Stored
  BY <1>1 DEF HFiles, Chat!Stored
<1>6. Chat(c)!OwnSession
  BY <1>1, <1>2 DEF HTypes, HFiles, Chat!OwnSession
<1> QED BY <1>3, <1>4, <1>5, <1>6 DEF Chat!ConversationKept

----------------------------------------
(* From the components to the parts: a behaviour of the parts is a behaviour of one. *)

\* A part stays what the first state made it.
LEMMA PartStays == ASSUME [Next]_vars PROVE part' = part
BY DEF Next, vars, Same10, Same9, Same8, Same7, Same6, Same5, Same3

\* A part is an instance of one module only.
LEMMA OpeningOnly ==
    ASSUME NEW p \in Openings
    PROVE  p \notin Folders \cup Databases \cup Searches \cup Lives \cup CommandSets \cup Upkeeps
             \cup Blends \cup Evals \cup Worlds \cup Chats
BY DEF Folders, Openings, Databases, Searches, Lives, CommandSets, Upkeeps, Blends, Evals, Worlds, Chats, Of

LEMMA RowsOnly ==
    ASSUME NEW p \in Databases
    PROVE  p \notin Folders \cup Openings \cup Searches \cup Lives \cup CommandSets \cup Upkeeps
             \cup Blends \cup Evals \cup Worlds \cup Chats
BY DEF Folders, Openings, Databases, Searches, Lives, CommandSets, Upkeeps, Blends, Evals, Worlds, Chats, Of

LEMMA SearchOnly ==
    ASSUME NEW p \in Searches
    PROVE  p \notin Folders \cup Openings \cup Databases \cup Lives \cup CommandSets \cup Upkeeps
             \cup Blends \cup Evals \cup Worlds \cup Chats
BY DEF Folders, Openings, Databases, Searches, Lives, CommandSets, Upkeeps, Blends, Evals, Worlds, Chats, Of

LEMMA FolderOnly ==
    ASSUME NEW p \in Folders
    PROVE  p \notin Openings \cup Databases \cup Searches \cup Lives \cup CommandSets \cup Upkeeps
             \cup Blends \cup Evals \cup Worlds \cup Chats
BY DEF Folders, Openings, Databases, Searches, Lives, CommandSets, Upkeeps, Blends, Evals, Worlds, Chats, Of

LEMMA LifeOnly ==
    ASSUME NEW p \in Lives
    PROVE  p \notin Folders \cup Openings \cup Databases \cup Searches \cup CommandSets \cup Upkeeps
             \cup Blends \cup Evals \cup Worlds \cup Chats
BY DEF Folders, Openings, Databases, Searches, Lives, CommandSets, Upkeeps, Blends, Evals, Worlds, Chats, Of

LEMMA CommandsOnly ==
    ASSUME NEW p \in CommandSets
    PROVE  p \notin Folders \cup Openings \cup Databases \cup Searches \cup Lives \cup Upkeeps
             \cup Blends \cup Evals \cup Worlds \cup Chats
BY DEF Folders, Openings, Databases, Searches, Lives, CommandSets, Upkeeps, Blends, Evals, Worlds, Chats, Of

LEMMA UpkeepOnly ==
    ASSUME NEW p \in Upkeeps
    PROVE  p \notin Folders \cup Openings \cup Databases \cup Searches \cup Lives \cup CommandSets
             \cup Blends \cup Evals \cup Worlds \cup Chats
BY DEF Folders, Openings, Databases, Searches, Lives, CommandSets, Upkeeps, Blends, Evals, Worlds, Chats, Of

LEMMA BlendOnly ==
    ASSUME NEW p \in Blends
    PROVE  p \notin Folders \cup Openings \cup Databases \cup Searches \cup Lives \cup CommandSets
             \cup Upkeeps \cup Evals \cup Worlds \cup Chats
BY DEF Folders, Openings, Databases, Searches, Lives, CommandSets, Upkeeps, Blends, Evals, Worlds, Chats, Of

LEMMA EvalOnly ==
    ASSUME NEW p \in Evals
    PROVE  p \notin Folders \cup Openings \cup Databases \cup Searches \cup Lives \cup CommandSets
             \cup Upkeeps \cup Blends \cup Worlds \cup Chats
BY DEF Folders, Openings, Databases, Searches, Lives, CommandSets, Upkeeps, Blends, Evals, Worlds, Chats, Of

LEMMA RoutingOnly ==
    ASSUME NEW p \in Worlds
    PROVE  p \notin Folders \cup Openings \cup Databases \cup Searches \cup Lives \cup CommandSets
             \cup Upkeeps \cup Blends \cup Evals \cup Chats
BY DEF Folders, Openings, Databases, Searches, Lives, CommandSets, Upkeeps, Blends, Evals, Worlds, Chats, Of

LEMMA ConversationOnly ==
    ASSUME NEW p \in Chats
    PROVE  p \notin Folders \cup Openings \cup Databases \cup Searches \cup Lives \cup CommandSets
             \cup Upkeeps \cup Blends \cup Evals \cup Worlds
BY DEF Folders, Openings, Databases, Searches, Lives, CommandSets, Upkeeps, Blends, Evals, Worlds, Chats, Of

\* The part that is one of the Openings starts and steps as its module says.
LEMMA OpeningStarts ==
    ASSUME NEW p \in Openings, part = p, Init
    PROVE  Opening(Parts[p])!Init
BY OpeningOnly DEF Init

LEMMA OpeningSteps ==
    ASSUME NEW p \in Openings, part = p, [Next]_vars
    PROVE  [Opening(Parts[p])!Next]_(Opening(Parts[p])!vars)
<1>1. Opening(Parts[p])!Next \/ UNCHANGED vars
  BY OpeningOnly DEF Next
<1> QED BY <1>1 DEF vars, Opening!vars

\* The part that is one of the Databases starts and steps as its module says.
LEMMA RowsStarts ==
    ASSUME NEW p \in Databases, part = p, Init
    PROVE  Rows(Parts[p])!Init
BY RowsOnly DEF Init

LEMMA RowsSteps ==
    ASSUME NEW p \in Databases, part = p, [Next]_vars
    PROVE  [Rows(Parts[p])!Next]_(Rows(Parts[p])!vars)
<1>1. Rows(Parts[p])!Next \/ UNCHANGED vars
  BY RowsOnly DEF Next
<1> QED BY <1>1 DEF vars, Rows!vars

\* The part that is one of the Searches starts and steps as its module says.
LEMMA SearchStarts ==
    ASSUME NEW p \in Searches, part = p, Init
    PROVE  Search(Parts[p])!Init
BY SearchOnly DEF Init

LEMMA SearchSteps ==
    ASSUME NEW p \in Searches, part = p, [Next]_vars
    PROVE  [Search(Parts[p])!Next]_(Search(Parts[p])!vars)
<1>1. Search(Parts[p])!Next \/ UNCHANGED vars
  BY SearchOnly DEF Next
<1> QED BY <1>1 DEF vars, Search!vars

\* The part that is one of the Folders starts and steps as its module says.
LEMMA FolderStarts ==
    ASSUME NEW p \in Folders, part = p, Init
    PROVE  Notes(Parts[p])!Init
BY FolderOnly DEF Init

LEMMA FolderSteps ==
    ASSUME NEW p \in Folders, part = p, [Next]_vars
    PROVE  [Notes(Parts[p])!Next]_(Notes(Parts[p])!vars)
<1>1. Notes(Parts[p])!Next \/ UNCHANGED vars
  BY FolderOnly DEF Next
<1> QED BY <1>1 DEF vars, Notes!vars

\* The part that is one of the Lives starts and steps as its module says.
LEMMA LifeStarts ==
    ASSUME NEW p \in Lives, part = p, Init
    PROVE  Life(Parts[p])!Init
BY LifeOnly DEF Init

LEMMA LifeSteps ==
    ASSUME NEW p \in Lives, part = p, [Next]_vars
    PROVE  [Life(Parts[p])!Next]_(Life(Parts[p])!vars)
<1>1. Life(Parts[p])!Next \/ UNCHANGED vars
  BY LifeOnly DEF Next
<1> QED BY <1>1 DEF vars, Life!vars

\* The part that is one of the CommandSets starts and steps as its module says.
LEMMA CommandsStarts ==
    ASSUME NEW p \in CommandSets, part = p, Init
    PROVE  Commands(Parts[p])!Init
BY CommandsOnly DEF Init

LEMMA CommandsSteps ==
    ASSUME NEW p \in CommandSets, part = p, [Next]_vars
    PROVE  [Commands(Parts[p])!Next]_(Commands(Parts[p])!vars)
<1>1. Commands(Parts[p])!Next \/ UNCHANGED vars
  BY CommandsOnly DEF Next
<1> QED BY <1>1 DEF vars, Commands!vars

\* The part that is one of the Upkeeps starts and steps as its module says.
LEMMA UpkeepStarts ==
    ASSUME NEW p \in Upkeeps, part = p, Init
    PROVE  Upkeep(Parts[p])!Init
BY UpkeepOnly DEF Init

LEMMA UpkeepSteps ==
    ASSUME NEW p \in Upkeeps, part = p, [Next]_vars
    PROVE  [Upkeep(Parts[p])!Next]_(Upkeep(Parts[p])!vars)
<1>1. Upkeep(Parts[p])!Next \/ UNCHANGED vars
  BY UpkeepOnly DEF Next
<1> QED BY <1>1 DEF vars, Upkeep!vars

\* The part that is one of the Blends starts and steps as its module says.
LEMMA BlendStarts ==
    ASSUME NEW p \in Blends, part = p, Init
    PROVE  Blend(Parts[p])!Init
BY BlendOnly DEF Init

LEMMA BlendSteps ==
    ASSUME NEW p \in Blends, part = p, [Next]_vars
    PROVE  [Blend(Parts[p])!Next]_(Blend(Parts[p])!vars)
<1>1. Blend(Parts[p])!Next \/ UNCHANGED vars
  BY BlendOnly DEF Next
<1> QED BY <1>1 DEF vars, Blend!vars

\* The part that is one of the Evals starts and steps as its module says.
LEMMA EvalStarts ==
    ASSUME NEW p \in Evals, part = p, Init
    PROVE  Eval(Parts[p])!Init
BY EvalOnly DEF Init

LEMMA EvalSteps ==
    ASSUME NEW p \in Evals, part = p, [Next]_vars
    PROVE  [Eval(Parts[p])!Next]_(Eval(Parts[p])!vars)
<1>1. Eval(Parts[p])!Next \/ UNCHANGED vars
  BY EvalOnly DEF Next
<1> QED BY <1>1 DEF vars, Eval!vars

\* The part that is one of the Worlds starts and steps as its module says.
LEMMA RoutingStarts ==
    ASSUME NEW p \in Worlds, part = p, Init
    PROVE  Routing(Parts[p])!Init
BY RoutingOnly DEF Init

LEMMA RoutingSteps ==
    ASSUME NEW p \in Worlds, part = p, [Next]_vars
    PROVE  [Routing(Parts[p])!Next]_(Routing(Parts[p])!vars)
<1>1. Routing(Parts[p])!Next \/ UNCHANGED vars
  BY RoutingOnly DEF Next
<1> QED BY <1>1 DEF vars, Routing!vars

\* The part that is one of the Chats starts and steps as its module says.
LEMMA ConversationStarts ==
    ASSUME NEW p \in Chats, part = p, Init
    PROVE  Chat(Parts[p])!Init
BY ConversationOnly DEF Init

LEMMA ConversationSteps ==
    ASSUME NEW p \in Chats, part = p, [Next]_vars
    PROVE  [Chat(Parts[p])!Next]_(Chat(Parts[p])!vars)
<1>1. Chat(Parts[p])!Next \/ UNCHANGED vars
  BY ConversationOnly DEF Next
<1> QED BY <1>1 DEF vars, Chat!vars

----------------------------------------
(* The theorems: each property has an inductive invariant of its component, which is *)
(* true of the part that runs. *)

\* The steps of a database and of a memory, in one form with those of the other parts.
LEMMA RowsStep ==
    ASSUME NEW c, Rows(c)!ConstantsFit, RInv(c), [Rows(c)!Next]_(Rows(c)!vars)
    PROVE  RInv(c)' /\ Rows(c)!StepSpoilsNothing
<1>1. Rows(c)!Next \/ UNCHANGED <<v1, v2, v3, v4, v5, v6>>
  BY DEF Rows!vars
<1> QED BY <1>1, RNext, RStutter

LEMMA LifeStep ==
    ASSUME NEW c, Life(c)!ConstantsFit, LInv(c), [Life(c)!Next]_(Life(c)!vars)
    PROVE  LInv(c)' /\ Life(c)!StepSpoilsNothing
<1>1. Life(c)!Next \/ UNCHANGED <<v1, v2, v3, v4, v5, v6, v7, v8, v9, v10>>
  BY DEF Life!vars
<1> QED BY <1>1, LNext, LStutter

\* Damage quarantines a store and nothing else does; a sound store opens, and no opening,
\* sharing or closing loses a connection (SQLiteAdapter.connect, aclose; migrations/runner.py).
THEOREM StoresOpenAlways == Spec => []StoresOpen
<1> DEFINE Inv == \A p \in Openings : part = p => OInv(Parts[p])
<1>1. Init => Inv
  BY OpeningStarts, OInit, ONeatInit, PartsFit DEF OInv
<1>2. Inv /\ [Next]_vars => Inv'
  BY PartStays, OpeningSteps, OStep, PartsFit
<1>3. Inv => StoresOpen
  BY OHolds, PartsFit DEF StoresOpen
<1> QED BY <1>1, <1>2, <1>3, PTL DEF Spec

\* Row, vector and pin agree whenever nothing runs, a vector never outlives its row in a process
\* that dies, and an acknowledged write stays (VectorAdapter, SQLiteAdapter: write, delete, prune).
THEOREM RowsAndVectorsAlways == Spec => []RowsAndVectors
<1> DEFINE Inv == \A p \in Databases : part = p => RInv(Parts[p])
<1>1. Init => Inv
  BY RowsStarts, RInit, PartsFit
<1>2. Inv /\ [Next]_vars => Inv'
  BY PartStays, RowsSteps, RowsStep, PartsFit
<1>3. Inv => RowsAndVectors
  BY RHolds, PartsFit DEF RowsAndVectors
<1> QED BY <1>1, <1>2, <1>3, PTL DEF Spec

\* A search returns each row once, only rows that pass its filters, and ranks none behind one
\* it beats, in every mode and for every limit (VectorAdapter.search and its fusion).
THEOREM SearchIsSoundAlways == Spec => []SearchIsSound
<1> DEFINE Inv == \A p \in Searches : part = p => SInv(Parts[p])
<1>1. Init => Inv
  BY SearchStarts, SInit, PartsFit
<1>2. Inv /\ [Next]_vars => Inv'
  BY PartStays, SearchSteps, SStep, PartsFit
<1>3. Inv => SearchIsSound
  BY SHolds, PartsFit DEF SearchIsSound
<1> QED BY <1>1, <1>2, <1>3, PTL DEF Spec

\* A scan returns what the notes were during it, and misses none; after a reindex the edges
\* are the links on disk (MarkdownFolderAdapter, WikilinkEdgeExtractor).
THEOREM NotesAreCurrentAlways == Spec => []NotesAreCurrent
<1> DEFINE Inv == \A p \in Folders : part = p => NInv(Parts[p])
<1>1. Init => Inv
  BY FolderStarts, NInit, NStillInit, PartsFit DEF NInv
<1>2. Inv /\ [Next]_vars => Inv'
  BY PartStays, FolderSteps, NStep, PartsFit
<1>3. Inv => NotesAreCurrent
  BY NHolds, PartsFit DEF NotesAreCurrent
<1> QED BY <1>1, <1>2, <1>3, PTL DEF Spec

\* A turn leaves its memories, a session lists these alone and misses at most one row for each
\* write that failed, and the agent's word has no more confidence than its cap (_extract_memory).
THEOREM TurnsRememberedAlways == Spec => []TurnsRemembered
<1> DEFINE Inv == \A p \in Lives : part = p => LInv(Parts[p])
<1>1. Init => Inv
  BY LifeStarts, LInit, PartsFit
<1>2. Inv /\ [Next]_vars => Inv'
  BY PartStays, LifeSteps, LifeStep, PartsFit
<1>3. Inv => TurnsRemembered
  BY LHolds, PartsFit DEF TurnsRemembered
<1> QED BY <1>1, <1>2, <1>3, PTL DEF Spec

\* What a memory command or a prune of a federation reported is so, and a federation that
\* closed holds nothing open (memory.py, federation.py).
THEOREM ReportsHoldAlways == Spec => []ReportsHold
<1> DEFINE Inv == /\ \A p \in CommandSets : part = p => CInv(Parts[p])
               /\ \A p \in Upkeeps : part = p => UInv(Parts[p])
<1>1. Init => Inv
  BY CommandsStarts, UpkeepStarts, CInit, UInit, PartsFit
<1>2. Inv /\ [Next]_vars => Inv'
  BY PartStays, CommandsSteps, UpkeepSteps, CStep, UStep, PartsFit
<1>3. Inv => ReportsHold
  BY CHolds, UHolds, PartsFit DEF ReportsHold
<1> QED BY <1>1, <1>2, <1>3, PTL DEF Spec

\* A blend lies between the cards it is made of, shows each tension once, and never has the
\* reserved card among its modifiers (CardEngine.resolve, agent create and edit).
THEOREM BlendHoldsAlways == Spec => []BlendHolds
<1> DEFINE Inv == \A p \in Blends : part = p => BInv(Parts[p])
<1>1. Init => Inv
  BY BlendStarts, BInit, PartsFit
<1>2. Inv /\ [Next]_vars => Inv'
  BY PartStays, BlendSteps, BStep, PartsFit
<1>3. Inv => BlendHolds
  BY BHolds, PartsFit DEF BlendHolds
<1> QED BY <1>1, <1>2, <1>3, PTL DEF Spec

\* Cases keep within the semaphore, pass only with the score they need and without an error that
\* has a text (harness.py keeps str(e), judge.py tests whether it is empty), are counted once each,
\* and are compared with what the earlier run found (EvalHarness.run, _run_one, _build_summary).
THEOREM VerdictsHoldAlways == Spec => []VerdictsHold
<1> DEFINE Inv == \A p \in Evals : part = p => EInv(Parts[p])
<1>1. Init => Inv
  BY EvalStarts, EInit, PartsFit
<1>2. Inv /\ [Next]_vars => Inv'
  BY PartStays, EvalSteps, EStep, PartsFit
<1>3. Inv => VerdictsHold
  BY EHolds, PartsFit DEF VerdictsHold
<1> QED BY <1>1, <1>2, <1>3, PTL DEF Spec

\* A task goes to the target of the first rule that fires or to one of the pool, and that agent
\* is run only after the decision was written; between commands that take turns it is not
\* archived, and what was deleted stays so (WorldEngine.route, Router.resolve, AgentRegistry).
THEOREM RoutingHoldsAlways == Spec => []RoutingHolds
<1> DEFINE Inv == \A p \in Worlds : part = p => WInv(Parts[p])
<1>1. Init => Inv
  BY RoutingStarts, WInit, PartsFit
<1>2. Inv /\ [Next]_vars => Inv'
  BY PartStays, RoutingSteps, WStep, PartsFit
<1>3. Inv => RoutingHolds
  BY WHolds, PartsFit DEF RoutingHolds
<1> QED BY <1>1, <1>2, <1>3, PTL DEF Spec

\* A session holds each prompt as often as it was asked, in order; it is on disk when a submission
\* is over, and lies with the agent shown (Agent.stream, _retry, _switch, SessionManager, chat_cmd).
THEOREM ConversationKeptAlways == Spec => []ConversationKept
<1> DEFINE Inv == \A p \in Chats : part = p => HInv(Parts[p])
<1>1. Init => Inv
  BY ConversationStarts, HInit, PartsFit
<1>2. Inv /\ [Next]_vars => Inv'
  BY PartStays, ConversationSteps, HStep, PartsFit
<1>3. Inv => ConversationKept
  BY HHolds, PartsFit DEF ConversationKept
<1> QED BY <1>1, <1>2, <1>3, PTL DEF Spec

\* No step prunes a pinned row, halves the edges of a source, drops a fact as aged out, returns a
\* stale episode, takes a row of The World's, or exchanges a file or a setting nobody named.
THEOREM NothingSpoiledAlways == Spec => NothingSpoiled
<1> DEFINE Inv == /\ \A p \in Databases : part = p => RInv(Parts[p])
                  /\ \A p \in Lives : part = p => LInv(Parts[p])
                  /\ \A p \in CommandSets : part = p => CInv(Parts[p])
           Kept == /\ \A p \in Databases : part = p => Rows(Parts[p])!StepSpoilsNothing
                   /\ \A p \in Lives : part = p => Life(Parts[p])!StepSpoilsNothing
                   /\ \A p \in CommandSets : part = p => Commands(Parts[p])!StepSpoilsNothing
<1>1. Init => Inv
  BY RowsStarts, LifeStarts, CommandsStarts, RInit, LInit, CInit, PartsFit
<1>2. Inv /\ [Next]_vars => Inv' /\ Kept
  BY PartStays, RowsSteps, LifeSteps, CommandsSteps, RowsStep, LifeStep, CStep, PartsFit
<1>3. Inv /\ [Next]_vars => [Kept]_vars
  BY <1>2
<1> QED BY <1>1, <1>2, <1>3, PTL DEF Spec, NothingSpoiled
=============================================================================
