-------------------------- MODULE PublicationProofs --------------------------
(***************************************************************************)
(* Tags settle where they are kept apart, and what is published is         *)
(* complete where published builds are kept: TagInv and PublicationInv are *)
(* invariants of such behaviours.                                          *)
(***************************************************************************)
EXTENDS Publication, ConsistencyProofs

(***************************************************************************)
(* Tags settle                                                             *)
(***************************************************************************)

\* A step of p that changes at most the links of the tag that p is at, and
\* leaves them in the shape of p's next step or, when p is done, all equal.
LEMMA TagsFrame ==
    ASSUME TagInv, TagsApart, TypeOK', NEW p \in Procs,
           \A q \in Procs \ {p} : pc'[q] = pc[q] /\ job'[q] = job[q],
           \A t \in Tags : ~(pc[p] \in TagSteps /\ t = job[p].tag) =>
              links'[t] = links[t],
           pc'[p] \notin LoopSteps \cup {"idle"} => job'[p].item = 1,
           pc'[p] \in TagSteps =>
              LinkShape(pc'[p], job'[p], links'[job'[p].tag]),
           pc[p] \in TagSteps /\ ~(pc'[p] \in TagSteps /\ job'[p].tag = job[p].tag)
              => \A c, d \in Content :
                    links'[job[p].tag][c] = links'[job[p].tag][d]
    PROVE  TagInv'
<1>1. ASSUME NEW q \in Procs
      PROVE  /\ pc'[q] \in TagSteps =>
                   LinkShape(pc'[q], job'[q], links'[job'[q].tag])
             /\ pc'[q] \notin LoopSteps \cup {"idle"} => job'[q].item = 1
  <2>1. CASE q = p
    BY <2>1
  <2>2. CASE q # p
    <3>1. pc'[q] = pc[q] /\ job'[q] = job[q]
      BY <2>2
    <3>2. pc[q] \in TagSteps => links'[job[q].tag] = links[job[q].tag]
      <4>1. SUFFICES ASSUME pc[q] \in TagSteps
                     PROVE  links'[job[q].tag] = links[job[q].tag]
        OBVIOUS
      <4>2. job[q].tag \in Tags
        BY <4>1, JobFields DEF TagInv, TypeOK, JobsTypeOK, TagSteps
      <4>3. ~(pc[p] \in TagSteps /\ job[q].tag = job[p].tag)
        BY <2>2, <4>1 DEF TagsApart
      <4> QED
        BY <4>2, <4>3
    <3> QED
      BY <3>1, <3>2 DEF TagInv
  <2> QED
    BY <2>1, <2>2
<1>2. ASSUME NEW t \in Tags,
             \A q \in Procs : pc'[q] \in TagSteps => job'[q].tag # t,
             NEW c \in Content, NEW d \in Content
      PROVE  links'[t][c] = links'[t][d]
  <2>1. CASE pc[p] \in TagSteps /\ t = job[p].tag
    BY <1>2, <2>1
  <2>2. CASE ~(pc[p] \in TagSteps /\ t = job[p].tag)
    <3>1. \A q \in Procs : pc[q] \in TagSteps => job[q].tag # t
      BY <1>2, <2>2
    <3> QED
      BY <2>2, <3>1 DEF TagInv, TagsSettle
  <2> QED
    BY <2>1, <2>2
<1> QED
  BY <1>1, <1>2 DEF TagInv, TagsSettle

\* A step that touches no link, and neither begins nor ends at the links of a
\* tag.
LEMMA ElsewhereFrame ==
    ASSUME TagInv, TagsApart, TypeOK', NEW p \in Procs, UNCHANGED links,
           \A q \in Procs \ {p} : pc'[q] = pc[q] /\ job'[q] = job[q],
           pc[p] \notin TagSteps, pc'[p] \notin TagSteps,
           pc'[p] \notin LoopSteps \cup {"idle"} => job'[p].item = 1
    PROVE  TagInv'
BY TagsFrame

\* A step that begins at the links of a tag, which have settled.
LEMMA EnterFrame ==
    ASSUME TagInv, TagsApart, TagsApart', TypeOK', NEW p \in Procs,
           UNCHANGED links,
           \A q \in Procs \ {p} : pc'[q] = pc[q] /\ job'[q] = job[q],
           pc[p] \notin TagSteps, pc'[p] \in {"islink", "is_symlink"},
           job'[p].item = 1
    PROVE  TagInv'
<1> DEFINE t == job'[p].tag
<1>1. pc'[p] \in TagSteps /\ pc'[p] \in LoopSteps
  BY DEF TagSteps, LoopSteps
<1>2. t \in Tags
  <2>1. job'[p] \in Job
    BY <1>1 DEF TypeOK, JobsTypeOK, LoopSteps
  <2> QED
    BY <2>1, JobFields
<1>3. \A q \in Procs : pc[q] \in TagSteps => job[q].tag # t
  BY <1>1 DEF TagsApart
<1>4. \A c, d \in Content : links[t][c] = links[t][d]
  BY <1>2, <1>3 DEF TagInv, TagsSettle
<1>5. N \in Nat \ {0} /\ 1 \in Content /\ links[t][1] \in Builds \cup {Nil}
  BY <1>2, ContentBounds DEF TagInv, TypeOK, StorageTypeOK
<1>6. Split(links[t], 1, IF pc'[p] \in SetTagSteps THEN job'[p].build ELSE Nil,
            links[t][1])
  <2>1. \A c \in Content : ~(c < 1)
    BY <1>5 DEF Content
  <2> QED
    BY <1>4, <1>5, <2>1 DEF Split
<1>7. LinkShape(pc'[p], job'[p], links[t])
  BY <1>5, <1>6 DEF LinkShape
<1> QED
  BY <1>1, <1>7, TagsFrame

\* At the last content, or after it, everything is done.
LEMMA SplitEnds ==
    ASSUME NEW item \in Content, ~(item < N)
    PROVE  \A c \in Content : c = item \/ c < item
<1>1. N \in Nat \ {0}
  BY ContentBounds
<1> QED
  BY <1>1 DEF Content

\* The step from one content to the next.
LEMMA SplitSteps ==
    ASSUME NEW item \in Content, item < N
    PROVE  /\ item + 1 \in Content
           /\ \A c \in Content : /\ c < item + 1 => c = item \/ c < item
                                 /\ c > item + 1 => c > item
                                 /\ c = item + 1 => c > item
                                 /\ c # item => c < item \/ c > item
           /\ \A c \in Content : c < item => c # item
           /\ \A c \in Content : c > item => c # item
<1>1. N \in Nat \ {0}
  BY ContentBounds
<1> QED
  BY <1>1 DEF Content

\* The links of a tag between two contents.
LEMMA BetweenContents ==
    ASSUME NEW step, NEW j, NEW target, NEW old \in Builds \cup {Nil}, NEW new,
           new = IF step \in SetTagSteps THEN j.build ELSE Nil,
           step # "symlink" /\ step # "unlink" /\ step # "remove link",
           Split(target, j.item, new, old), target[j.item] = old
    PROVE  LinkShape(step, j, target)
BY DEF LinkShape

\* NextItem() after a link has got its new value: the links of the tag are in
\* shape for the next content, or all have the new value.
LEMMA NextLink ==
    ASSUME TagInv, TagsApart, TypeOK', NEW p \in Procs,
           pc[p] \in TagSteps,
           NEW body \in {"islink", "is_symlink"}, NEW after,
           after \notin LoopSteps,
           NextItem(p, body, after),
           pc[p] \in SetTagSteps <=> body = "islink",
           NEW new, new = IF body = "islink" THEN job[p].build ELSE Nil,
           NEW old \in Builds \cup {Nil},
           Split(links[job[p].tag], job[p].item, new, old),
           links'[job[p].tag][job[p].item] = new,
           \A c \in Content \ {job[p].item} :
              links'[job[p].tag][c] = links[job[p].tag][c],
           \A t \in Tags \ {job[p].tag} : links'[t] = links[t]
    PROVE  TagInv'
<1>1. SUFFICES ASSUME NEW j, j = job[p], NEW t, t = j.tag, NEW c, c = j.item
               PROVE  TagInv'
  OBVIOUS
<1>2. JobsTypeOK /\ pc[p] # "idle" /\ j \in Job /\ t \in Tags /\ c \in Content
  <2>1. JobsTypeOK /\ pc[p] # "idle"
    BY DEF TagInv, TypeOK, TagSteps
  <2> QED
    BY <1>1, <2>1, JobFields DEF JobsTypeOK
<1>3. \A q \in Procs \ {p} : pc'[q] = pc[q] /\ job'[q] = job[q]
  BY <1>2, ControlValue
<1>4. CASE c < N
  <2>1. pc'[p] = body /\ job'[p] = [j EXCEPT !.item = c + 1]
    BY <1>1, <1>2, <1>4, ControlValue
  <2>2. job'[p].item = c + 1 /\ job'[p].tag = t /\ job'[p].build = j.build
    BY <1>1, <1>2, <2>1 DEF Job
  <2>3. /\ c + 1 \in Content
        /\ \A d \in Content : /\ d < c + 1 => d = c \/ d < c
                              /\ d > c + 1 => d > c
                              /\ d = c + 1 => d > c
        /\ \A d \in Content : d < c => d # c
        /\ \A d \in Content : d > c => d # c
    BY <1>2, <1>4, SplitSteps
  <2>4. \A d \in Content : /\ d < c => links[t][d] = new
                           /\ d > c => links[t][d] = old
    BY <1>1 DEF Split
  <2>5. links'[t][c] = new /\ \A d \in Content \ {c} : links'[t][d] = links[t][d]
    BY <1>1
  <2>6. \A d \in Content : /\ d < c + 1 => links'[t][d] = new
                           /\ d > c + 1 => links'[t][d] = old
    BY <2>3, <2>4, <2>5
  <2>7. links'[t][c + 1] = old
    BY <2>3, <2>4, <2>5
  <2>8. new = IF body \in SetTagSteps THEN j.build ELSE Nil
    BY <1>1 DEF SetTagSteps
  <2>9. LinkShape(pc'[p], job'[p], links'[job'[p].tag])
    <3>1. body # "symlink" /\ body # "unlink" /\ body # "remove link"
      OBVIOUS
    <3>2. Split(links'[t], c + 1, new, old)
      BY <2>6 DEF Split
    <3>3. /\ Split(links'[t], job'[p].item, new, old) /\ links'[t][job'[p].item] = old
          /\ new = IF body \in SetTagSteps THEN job'[p].build ELSE Nil
      BY <2>2, <2>7, <2>8, <3>2
    <3>4. LinkShape(body, job'[p], links'[t])
      BY <3>1, <3>3, BetweenContents
    <3> QED
      BY <2>1, <2>2, <3>4
  <2>10. pc'[p] \in TagSteps /\ pc'[p] \in LoopSteps
    BY <2>1 DEF TagSteps, LoopSteps
  <2> QED
    BY <1>1, <1>3, <2>2, <2>9, <2>10, TagsFrame
<1>5. CASE ~(c < N)
  <2>1. pc'[p] = after /\ (after # "idle" => job'[p] = [j EXCEPT !.item = 1])
    <3>1. Continue(p, after, [j EXCEPT !.item = 1])
      BY <1>1, <1>5 DEF NextItem
    <3> QED
      BY <1>2, <3>1, ContinueValue
  <2>2. pc'[p] # "idle" => job'[p].item = 1
    BY <1>2, <2>1 DEF Job
  <2>3. \A d \in Content : d = c \/ d < c
    BY <1>2, <1>5, SplitEnds
  <2>4. \A d \in Content : links'[t][d] = new
    BY <1>1, <2>3 DEF Split
  <2>5. pc'[p] \notin TagSteps
    BY <2>1 DEF TagSteps, LoopSteps
  <2> QED
    BY <1>1, <1>3, <2>2, <2>4, <2>5, TagsFrame
<1> QED
  BY <1>4, <1>5

\* A step at the links of a tag that goes on to the same link's next step.
LEMMA SameLink ==
    ASSUME TagInv, TagsApart, TypeOK', NEW p \in Procs, pc[p] \in TagSteps,
           NEW next \in TagSteps, Goto(p, next),
           LinkShape(next, job[p], links'[job[p].tag]),
           \A t \in Tags \ {job[p].tag} : links'[t] = links[t]
    PROVE  TagInv'
<1>1. JobsTypeOK /\ pc[p] # "idle" /\ next # "idle" /\ next \in LoopSteps
  BY DEF TagInv, TypeOK, TagSteps, LoopSteps
<1>2. /\ pc'[p] = next /\ job'[p] = job[p]
      /\ \A q \in Procs \ {p} : pc'[q] = pc[q] /\ job'[q] = job[q]
  BY <1>1, ControlValue
<1> QED
  BY <1>1, <1>2, TagsFrame

\* The steps at the links of a tag: no other process is there, so that none of
\* them fails half-way.
LEMMA LinkSteps ==
    ASSUME TagInv, TagsApart, TypeOK', NEW p \in Procs, pc[p] \in TagSteps, Step(p)
    PROVE  TagInv'
<1>1. \/ IsLink(p) \/ Unlink(p) \/ Symlink(p) \/ IsSymlink(p) \/ RemoveLink(p)
  BY DEF TagSteps, Step, Pull, Submit, Download, Extract, CopyPath, RemoveTree,
         Copy, CopyTree, NextTag, Metadata, Complete, GbpJson, Publish, Tag,
         CheckTags, Untag, Delete, DeleteTree, DeleteRmtree, Edit, Save
<1>2. SUFFICES ASSUME NEW j, j = job[p], NEW t, t = j.tag, NEW c, c = j.item
               PROVE  TagInv'
  OBVIOUS
<1>3. /\ j \in Job /\ t \in Tags /\ c \in Content /\ j.build \in Builds
      /\ StorageTypeOK
  <2>1. j \in Job
    BY <1>2 DEF TagInv, TypeOK, JobsTypeOK, TagSteps
  <2> QED
    BY <1>2, <2>1, JobFields DEF TagInv, TypeOK
<1>4. PICK old \in Builds \cup {Nil} :
        /\ Split(links[t], c, IF pc[p] \in SetTagSteps THEN j.build ELSE Nil, old)
        /\ pc[p] # "symlink" => links[t][c] = old
        /\ pc[p] = "symlink" => links[t][c] = Nil
        /\ pc[p] \in {"unlink", "remove link"} => old # Nil
  <2>1. LinkShape(pc[p], j, links[t])
    BY <1>2 DEF TagInv
  <2> QED
    BY <1>2, <2>1 DEF LinkShape
<1>5. \A target : SetLink(t, c, target) =>
         \A other \in Tags \ {t} : links'[other] = links[other]
  BY <1>3 DEF SetLink, StorageTypeOK
<1>6. \A target : SetLink(t, c, target) =>
         /\ links'[t][c] = target
         /\ \A d \in Content \ {c} : links'[t][d] = links[t][d]
  BY <1>3 DEF SetLink, StorageTypeOK
<1>7. \A d \in Content : (d < c \/ d > c) => d # c
  <2>1. N \in Nat \ {0}
    BY ContentBounds
  <2> QED
    BY <1>3, <2>1 DEF Content
<1>8. \A new, target : SetLink(t, c, target) /\ Split(links[t], c, new, old) =>
         Split(links'[t], c, new, old)
  BY <1>6, <1>7 DEF Split
<1>9. CASE IsLink(p)
  <2>1. pc[p] = "islink" /\ UNCHANGED links
    BY <1>9 DEF IsLink
  <2>2. Split(links[t], c, j.build, old) /\ links[t][c] = old
    BY <1>4, <2>1 DEF SetTagSteps
  <2>3. CASE old # Nil
    <3>1. Goto(p, "unlink")
      BY <1>2, <1>9, <2>2, <2>3 DEF IsLink
    <3>2. LinkShape("unlink", j, links'[t])
      BY <1>2, <2>1, <2>2, <2>3 DEF LinkShape, SetTagSteps
    <3> QED
      BY <1>2, <2>1, <3>1, <3>2, SameLink DEF TagSteps
  <2>4. CASE old = Nil
    <3>1. Goto(p, "symlink")
      BY <1>2, <1>9, <2>2, <2>4 DEF IsLink
    <3>2. LinkShape("symlink", j, links'[t])
      BY <1>2, <2>1, <2>2, <2>4 DEF LinkShape, SetTagSteps
    <3> QED
      BY <1>2, <2>1, <3>1, <3>2, SameLink DEF TagSteps
  <2> QED
    BY <2>3, <2>4
<1>10. CASE Unlink(p)
  <2>1. pc[p] = "unlink"
    BY <1>10 DEF Unlink
  <2>2. Split(links[t], c, j.build, old) /\ links[t][c] # Nil
    BY <1>4, <2>1 DEF SetTagSteps
  <2>3. SetLink(t, c, Nil) /\ Goto(p, "symlink")
    BY <1>2, <1>10, <2>2 DEF Unlink
  <2>4. LinkShape("symlink", j, links'[t])
    BY <1>2, <1>6, <1>8, <2>2, <2>3 DEF LinkShape, SetTagSteps
  <2> QED
    BY <1>2, <1>5, <2>3, <2>4, SameLink DEF TagSteps
<1>11. CASE Symlink(p)
  <2>1. pc[p] = "symlink"
    BY <1>11 DEF Symlink
  <2>2. Split(links[t], c, j.build, old) /\ links[t][c] = Nil
    BY <1>4, <2>1 DEF SetTagSteps
  <2>3. SetLink(t, c, j.build) /\ NextItem(p, "islink", AfterTag(j))
    BY <1>2, <1>11, <2>2 DEF Symlink
  <2>4. AfterTag(j) \notin LoopSteps
    BY DEF AfterTag, LoopSteps
  <2>5. pc[p] \in SetTagSteps
    BY <2>1 DEF SetTagSteps
  <2> QED
    BY <1>2, <1>5, <1>6, <2>2, <2>3, <2>4, <2>5, NextLink
<1>12. CASE IsSymlink(p)
  <2>1. pc[p] = "is_symlink" /\ UNCHANGED links
    BY <1>12 DEF IsSymlink
  <2>2. Split(links[t], c, Nil, old) /\ links[t][c] = old
    BY <1>4, <2>1 DEF SetTagSteps
  <2>3. CASE old # Nil
    <3>1. Goto(p, "remove link")
      BY <1>2, <1>12, <2>2, <2>3 DEF IsSymlink
    <3>2. LinkShape("remove link", j, links'[t])
      BY <1>2, <2>1, <2>2, <2>3 DEF LinkShape, SetTagSteps
    <3> QED
      BY <1>2, <2>1, <3>1, <3>2, SameLink DEF TagSteps
  <2>4. CASE old = Nil
    <3>1. NextItem(p, "is_symlink", "untag")
      BY <1>2, <1>12, <2>2, <2>4 DEF IsSymlink
    <3>2. "untag" \notin LoopSteps /\ pc[p] \notin SetTagSteps
      BY <2>1 DEF LoopSteps, SetTagSteps
    <3> QED
      BY <1>2, <2>1, <2>2, <2>4, <3>1, <3>2, NextLink
  <2> QED
    BY <2>3, <2>4
<1>13. CASE RemoveLink(p)
  <2>1. pc[p] = "remove link"
    BY <1>13 DEF RemoveLink
  <2>2. Split(links[t], c, Nil, old) /\ links[t][c] # Nil
    BY <1>4, <2>1 DEF SetTagSteps
  <2>3. SetLink(t, c, Nil) /\ NextItem(p, "is_symlink", "untag")
    BY <1>2, <1>13, <2>2 DEF RemoveLink
  <2>4. "untag" \notin LoopSteps /\ pc[p] \notin SetTagSteps
    BY <2>1 DEF LoopSteps, SetTagSteps
  <2> QED
    BY <1>2, <1>5, <1>6, <2>2, <2>3, <2>4, NextLink
<1> QED
  BY <1>1, <1>9, <1>10, <1>11, <1>12, <1>13

\* Every other step leaves the links alone; the loops over the content types
\* are left with item back at 1, and the links of a tag are begun there.
LEMMA OtherSteps ==
    ASSUME TagInv, NEW p \in Procs, pc[p] \notin TagSteps, Step(p)
    PROVE  /\ UNCHANGED links
           /\ pc'[p] \in TagSteps => /\ pc'[p] \in {"islink", "is_symlink"}
                                     /\ job'[p].item = 1
           /\ pc'[p] \notin LoopSteps \cup {"idle"} => job'[p].item = 1
           /\ \A q \in Procs \ {p} : pc'[q] = pc[q] /\ job'[q] = job[q]
<1> DEFINE j == job[p]
           Loops == LoopSteps \cup {"idle"}
           Kept(local) == local.item = j.item
           Begins(next) == next \notin {"unlink", "symlink", "remove link"}
           Goal == /\ pc'[p] \in TagSteps => /\ pc'[p] \in {"islink", "is_symlink"}
                                             /\ job'[p].item = 1
                   /\ pc'[p] \notin Loops => job'[p].item = 1
                   /\ \A q \in Procs \ {p} : pc'[q] = pc[q] /\ job'[q] = job[q]
<1>1. TypeOK /\ JobsTypeOK /\ pc[p] # "idle" /\ j \in Job
  <2>1. TypeOK
    BY DEF TagInv
  <2> QED
    BY <2>1, StepKeepsRequest DEF TypeOK, JobsTypeOK
<1>2. pc[p] \notin LoopSteps => j.item = 1
  BY <1>1 DEF TagInv
<1>3. ASSUME NEW next, NEW local, Continue(p, next, local),
             next \in LoopSteps \ TagSteps \/ local.item = 1,
             Begins(next)
      PROVE  Goal
  <2>1. /\ pc'[p] = next /\ (next # "idle" => job'[p] = local)
        /\ \A q \in Procs \ {p} : pc'[q] = pc[q] /\ job'[q] = job[q]
    <3>1. JobsTypeOK /\ Continue(p, next, local)
      BY <1>1, <1>3
    <3> HIDE DEF Goal, Loops, Kept, Begins
    <3> QED
      BY <3>1, ContinueValue
  <2>2. next \in TagSteps => next \in {"islink", "is_symlink"} /\ next # "idle"
    BY <1>3 DEF TagSteps
  <2> QED
    BY <1>3, <2>1, <2>2
<1> HIDE DEF Goal, Loops
<1>4. ASSUME NEW next, NEW local, Continue(p, next, local), pc[p] \notin LoopSteps,
             Kept(local), Begins(next)
      PROVE  Goal
  BY <1>2, <1>3, <1>4
<1>5. ASSUME NEW next, Goto(p, next), pc[p] \notin LoopSteps,
             Begins(next)
      PROVE  Goal
  BY <1>4, <1>5 DEF Goto
<1>6. ASSUME NEW next \in LoopSteps \ TagSteps, Goto(p, next)
      PROVE  Goal
  BY <1>3, <1>6 DEF Goto, TagSteps
<1>7. [j EXCEPT !.item = 1].item = 1
  BY <1>1 DEF Job
<1>8. ASSUME NEW body \in LoopSteps \ TagSteps, NEW after, after \notin LoopSteps,
             NextItem(p, body, after)
      PROVE  Goal
  <2>1. CASE job[p].item < N
    <3>1. Continue(p, body, [j EXCEPT !.item = j.item + 1])
      BY <1>8, <2>1 DEF NextItem
    <3>2. Begins(body)
      BY <1>8 DEF TagSteps
    <3> QED
      BY <1>3, <1>8, <3>1, <3>2
  <2>2. CASE ~(job[p].item < N)
    <3>1. Continue(p, after, [j EXCEPT !.item = 1])
      BY <1>8, <2>2 DEF NextItem
    <3>2. Begins(after)
      BY <1>8 DEF LoopSteps
    <3> QED
      BY <1>3, <1>7, <3>1, <3>2
  <2> QED
    BY <2>1, <2>2
<1>9. ASSUME Raise(p)
      PROVE  Goal
  <2>1. Continue(p, Handler(j), [j EXCEPT !.item = 1])
    BY <1>9 DEF Raise
  <2>2. Begins(Handler(j))
    BY DEF Handler
  <2> QED
    BY <1>3, <1>7, <2>1, <2>2
<1>10. /\ Kept(j)
       /\ \A r : Kept([j EXCEPT !.record = r])
       /\ \A d : Kept([j EXCEPT !.link_dest = d])
       /\ \A d : Kept([j EXCEPT !.publishing = d])
       /\ \A tags : Kept([j EXCEPT !.tags = tags])
       /\ \A tag, tags : Kept([j EXCEPT !.tag = tag, !.tags = tags])
  BY <1>1 DEF Job
<1>11. Begins(AfterPull(j))
  BY DEF AfterPull
<1>12. /\ Begins("idle") /\ Begins("submit") /\ Begins("download") /\ Begins("extract")
       /\ Begins("pull") /\ Begins("tag") /\ Begins("untag") /\ Begins("save")
       /\ Begins("metadata") /\ Begins("is_symlink") /\ Begins("islink")
       /\ Begins("copy_path") /\ Begins("tags") /\ Begins("complete")
       /\ Begins("gbp.json") /\ Begins("delete tree") /\ Begins("delete")
  OBVIOUS
<1> HIDE DEF Kept, Begins
<1>13. Goal
  <2>1. Pull(p) \/ Submit(p) \/ Download(p) => Goal
    BY <1>4, <1>5, <1>9, <1>10, <1>11, <1>12 DEF Pull, Submit, Download, LoopSteps
  <2>2. Publish(p) \/ CheckTags(p) \/ Edit(p) => Goal
    BY <1>4, <1>5, <1>10, <1>12 DEF Publish, CheckTags, Edit, LoopSteps
  <2>3. ASSUME NextTag(p) PROVE Goal
    BY <1>4, <1>5, <1>10, <1>12, <2>3 DEF NextTag, LoopSteps
  <2>8. ASSUME Untag(p) PROVE Goal
    <3>1. pc[p] \notin LoopSteps
      BY <2>8 DEF Untag, LoopSteps
    <3>2. Begins(IF j.op \in Commands THEN "delete" ELSE "idle")
      BY <1>12
    <3>3. \A tag : Begins(IF Resolves(tag) THEN "is_symlink" ELSE "untag")
      BY <1>12
    <3> QED
      BY <1>4, <1>5, <1>10, <2>8, <3>1, <3>2, <3>3 DEF Untag
  <2>4. CopyPath(p) \/ RemoveTree(p) \/ Copy(p) \/ CopyTree(p) => Goal
    BY <1>6, <1>8, <1>9
       DEF CopyPath, RemoveTree, Copy, CopyTree, LoopSteps, TagSteps
  <2>5. \/ Extract(p) \/ Metadata(p) \/ Complete(p) \/ GbpJson(p) \/ Tag(p)
        \/ Delete(p) \/ Save(p)
        => Goal
    BY <1>5, <1>9, <1>11, <1>12
       DEF Extract, Metadata, Complete, GbpJson, Tag, Delete, Save, LoopSteps
  <2>6. DeleteTree(p) \/ DeleteRmtree(p) => Goal
    BY <1>6, <1>8 DEF DeleteTree, DeleteRmtree, LoopSteps, TagSteps
  <2>7. ~IsLink(p) /\ ~Unlink(p) /\ ~Symlink(p) /\ ~IsSymlink(p) /\ ~RemoveLink(p)
    BY DEF TagSteps, IsLink, Unlink, Symlink, IsSymlink, RemoveLink
  <2> QED
    BY <2>1, <2>2, <2>3, <2>4, <2>5, <2>6, <2>7, <2>8 DEF Step
<1>14. UNCHANGED links
  BY DEF Step, TagSteps, Pull, Submit, Download, Extract, CopyPath, RemoveTree,
         Copy, CopyTree, NextTag, Metadata, Complete, GbpJson, Publish, Tag,
         IsLink, Unlink, Symlink, CheckTags, Untag, IsSymlink, RemoveLink,
         Delete, DeleteTree, DeleteRmtree, Edit, Save
<1> QED
  BY <1>13, <1>14 DEF Goal, Loops

\* An operation begins outside of the loops, at the first content type.
LEMMA StartOutside ==
    ASSUME TypeOK, NEW p \in Procs, Start(p)
    PROVE  /\ UNCHANGED links /\ pc[p] = "idle"
           /\ pc'[p] \in {"pull", "delete", "publish", "tag", "untag", "edit",
                          "check tags"}
           /\ job'[p].item = 1
           /\ \A q \in Procs \ {p} : pc'[q] = pc[q] /\ job'[q] = job[q]
<1> DEFINE Firsts == {"pull", "delete", "publish", "tag", "untag", "edit",
                      "check tags"}
           New(local) == local.item = 1
           Goal == /\ UNCHANGED links /\ pc[p] = "idle"
                   /\ pc'[p] \in Firsts /\ New(job'[p])
                   /\ \A q \in Procs \ {p} : pc'[q] = pc[q] /\ job'[q] = job[q]
<1>1. PICK b \in BuildsUsed[p] :
         \/ PullBuild(p, b) \/ PublishBuild(p, b) \/ DeleteBuild(p, b)
         \/ PublishMutation(p, b) \/ CreateBuildTag(p, b)
         \/ RemoveBuildTag(p, b) \/ KeepBuild(p, b) \/ ReleaseBuild(p, b)
         \/ CreateNote(p, b) \/ DeleteCommand(p, b)
  BY DEF Start
<1>2. ASSUME NEW op, NEW step \in Firsts, NEW local,
             Begin(p, op, b, step, local), New(local)
      PROVE  Goal
  <2>1. /\ UNCHANGED links /\ pc[p] = "idle" /\ JobsTypeOK
        /\ Continue(p, step, local)
    BY <1>2 DEF Begin, TypeOK
  <2>2. step # "idle"
    BY <1>2
  <2>3. /\ pc'[p] = step /\ job'[p] = local
        /\ \A q \in Procs \ {p} : pc'[q] = pc[q] /\ job'[q] = job[q]
    <3> HIDE DEF Firsts, New, Goal
    <3> QED
      BY <2>1, <2>2, ContinueValue
  <2> QED
    BY <1>2, <2>1, <2>3
<1>3. ASSUME NEW op
      PROVE  /\ New(NewJob(op, b))
             /\ \A note : New([NewJob(op, b) EXCEPT !.note = note])
             /\ \A tag : New([NewJob(op, b) EXCEPT !.tag = tag])
             /\ \A tags : New([NewJob(op, b) EXCEPT !.tags = tags])
             /\ \A note, tags :
                   New([NewJob(op, b) EXCEPT !.note = note, !.tags = tags])
  BY DEF NewJob
<1>4. /\ "pull" \in Firsts /\ "delete" \in Firsts /\ "publish" \in Firsts
      /\ "tag" \in Firsts /\ "untag" \in Firsts /\ "edit" \in Firsts
      /\ "check tags" \in Firsts
  OBVIOUS
<1> HIDE DEF Goal, New, Firsts
<1>5. ASSUME PullBuild(p, b) PROVE Goal
  BY <1>2, <1>3, <1>4, <1>5 DEF PullBuild
<1>6. ASSUME CreateBuildTag(p, b) PROVE Goal
  BY <1>2, <1>3, <1>4, <1>6 DEF CreateBuildTag
<1>7. ASSUME RemoveBuildTag(p, b) PROVE Goal
  BY <1>2, <1>3, <1>4, <1>7 DEF RemoveBuildTag
<1>8. ASSUME CreateNote(p, b) PROVE Goal
  BY <1>2, <1>3, <1>4, <1>8 DEF CreateNote
<1>9. ASSUME \/ PublishBuild(p, b) \/ DeleteBuild(p, b) \/ PublishMutation(p, b)
             \/ KeepBuild(p, b) \/ ReleaseBuild(p, b) \/ DeleteCommand(p, b)
      PROVE  Goal
  BY <1>2, <1>3, <1>4, <1>9
     DEF PublishBuild, DeleteBuild, PublishMutation, KeepBuild, ReleaseBuild,
         DeleteCommand
<1>10. Goal
  BY <1>1, <1>5, <1>6, <1>7, <1>8, <1>9
<1> QED
  BY <1>10 DEF Goal, New, Firsts

\* Every step of a behaviour in which tags are kept apart preserves TagInv.
LEMMA TagNextPreserves ==
    ASSUME TagInv, TagsApart, TagsApart', TypeOK', [Next]_vars
    PROVE  TagInv'
<1>1. CASE UNCHANGED vars
  BY <1>1 DEF vars, TagInv, TagsSettle
<1>2. CASE Next
  <2>1. PICK p \in Procs : Start(p) \/ Step(p) \/ Crash(p)
    BY <1>2 DEF Next
  <2>2. CASE Start(p)
    <3>1. TypeOK
      BY DEF TagInv
    <3>2. /\ UNCHANGED links /\ pc[p] = "idle" /\ job'[p].item = 1
          /\ pc'[p] \in {"pull", "delete", "publish", "tag", "untag", "edit",
                         "check tags"}
          /\ \A q \in Procs \ {p} : pc'[q] = pc[q] /\ job'[q] = job[q]
      BY <2>2, <3>1, StartOutside
    <3>3. pc[p] \notin TagSteps /\ pc'[p] \notin TagSteps
      BY <3>2 DEF TagSteps
    <3> QED
      BY <3>2, <3>3, ElsewhereFrame
  <2>3. CASE Step(p) /\ pc[p] \in TagSteps
    BY <2>3, LinkSteps
  <2>4. CASE Step(p) /\ pc[p] \notin TagSteps
    <3>1. /\ UNCHANGED links
          /\ pc'[p] \in TagSteps =>
                pc'[p] \in {"islink", "is_symlink"} /\ job'[p].item = 1
          /\ pc'[p] \notin LoopSteps \cup {"idle"} => job'[p].item = 1
          /\ \A q \in Procs \ {p} : pc'[q] = pc[q] /\ job'[q] = job[q]
      BY <2>4, OtherSteps
    <3> QED
      BY <2>4, <3>1, ElsewhereFrame, EnterFrame
  <2>5. CASE Crash(p)
    BY <2>5 DEF Crash, TagsApart, TagInv, TypeOK
  <2> QED
    BY <2>1, <2>2, <2>3, <2>4, <2>5
<1> QED
  BY <1>1, <1>2

\* At first there are no links and no jobs.
LEMMA InitTagInv ==
    ASSUME Init
    PROVE  TagInv
<1>1. TypeOK
  BY InitType
<1>2. \A t \in Tags, c \in Content : links[t][c] = Nil
  BY DEF Init, StorageInit
<1> QED
  BY <1>1, <1>2 DEF Init, TagInv, TagsSettle, TagSteps

\* Where no two processes are ever at the links of the same tag and nobody
\* dies, the links of a tag are at every moment split between what Storage.tag()
\* or Storage.untag() has done so far and what it found.
THEOREM TagsInvariant == Spec /\ []TagsApart => []TagInv
<1>1. Init => TagInv
  BY InitTagInv
<1>2. TagInv /\ TagsApart /\ TagsApart' /\ TypeOK' /\ [Next]_vars => TagInv'
  BY TagNextPreserves
<1> QED
  BY <1>1, <1>2, TypeCorrect, PTL DEF Spec

\* So the links of a tag agree whenever nobody is at them: fs.symlink() and
\* Storage.untag() take three calls per content type and never stop half-way.
THEOREM TagsKeptApartSettle == Spec /\ []TagsApart => []TagsSettle
<1>1. TagInv => TagsSettle
  BY DEF TagInv
<1> QED
  BY <1>1, TagsInvariant, PTL

\* What the operations are given.
LEMMA TagsGivenValue ==
    ASSUME NEW p \in Procs
    PROVE  /\ TagsGiven("pull_build", p) = TagsUsed[p]
           /\ TagsGiven("createBuildTag", p) = TagsUsed[p]
           /\ TagsGiven("removeBuildTag", p) = TagsUsed[p]
           /\ \A op \in PublishOps : TagsGiven(op, p) = {""}
           /\ \A op \in Commands : TagsGiven(op, p) = Tags
BY DEF TagsGiven, PublishOps, Commands

\* Beginning an operation.
LEMMA StartTagsFit ==
    ASSUME TypeOK, NEW p \in Procs, Start(p)
    PROVE  TagsFit(pc'[p], job'[p], p)
<1>1. PICK b \in BuildsUsed[p] :
         \/ PullBuild(p, b) \/ PublishBuild(p, b) \/ DeleteBuild(p, b)
         \/ PublishMutation(p, b) \/ CreateBuildTag(p, b)
         \/ RemoveBuildTag(p, b) \/ KeepBuild(p, b) \/ ReleaseBuild(p, b)
         \/ CreateNote(p, b) \/ DeleteCommand(p, b)
  BY DEF Start
<1>2. ASSUME NEW op, NEW step, NEW local, Begin(p, op, b, step, local),
             step # "idle"
      PROVE  op \in Ops[p] /\ pc'[p] = step /\ job'[p] = local
  <2>1. op \in Ops[p] /\ JobsTypeOK /\ Continue(p, step, local)
    BY <1>2 DEF Begin, TypeOK
  <2> QED
    BY <1>2, <2>1, ContinueValue
<1>3. CASE PullBuild(p, b)
  <2>1. PICK note \in Notes \cup {Nil}, tags \in SUBSET TagsUsed[p] :
          Begin(p, "pull_build", b, "pull",
                [NewJob("pull_build", b) EXCEPT !.note = note, !.tags = tags])
    BY <1>3 DEF PullBuild
  <2> DEFINE local ==
          [NewJob("pull_build", b) EXCEPT !.note = note, !.tags = tags]
  <2>2. local.op = "pull_build" /\ local.tags = tags /\ ~local.publishing
    BY DEF NewJob
  <2>3. "pull_build" \in Ops[p] /\ pc'[p] = "pull" /\ job'[p] = local
    BY <1>2, <2>1
  <2> HIDE DEF local
  <2> QED
    BY <2>2, <2>3, TagsGivenValue
       DEF TagsFit, PublishOps, PullSteps, SetTagSteps
<1>4. ASSUME NEW op \in PublishOps, NEW step \in {"pull", "publish"},
             Begin(p, op, b, step, NewJob(op, b))
      PROVE  TagsFit(pc'[p], job'[p], p)
  <2> DEFINE local == NewJob(op, b)
  <2>1. local.op = op /\ local.tags = {} /\ local.tag = ""
    BY DEF NewJob
  <2>2. op \in Ops[p] /\ pc'[p] = step /\ job'[p] = local
    BY <1>2, <1>4
  <2> HIDE DEF local
  <2> QED
    BY <1>4, <2>1, <2>2 DEF TagsFit, PullSteps, SetTagSteps
<1>5. CASE PublishBuild(p, b)
  BY <1>4, <1>5 DEF PublishBuild, PublishOps
<1>6. CASE PublishMutation(p, b)
  BY <1>4, <1>6 DEF PublishMutation, PublishOps
<1>7. CASE CreateBuildTag(p, b)
  <2>1. PICK tag \in TagsUsed[p] :
          Begin(p, "createBuildTag", b, "tag",
                [NewJob("createBuildTag", b) EXCEPT !.tag = tag])
    BY <1>7 DEF CreateBuildTag
  <2> DEFINE local == [NewJob("createBuildTag", b) EXCEPT !.tag = tag]
  <2>2. /\ local.op = "createBuildTag" /\ local.tags = {} /\ local.tag = tag
        /\ ~local.publishing
    BY DEF NewJob
  <2>3. "createBuildTag" \in Ops[p] /\ pc'[p] = "tag" /\ job'[p] = local
    BY <1>2, <2>1
  <2> HIDE DEF local
  <2> QED
    BY <2>2, <2>3, TagsGivenValue
       DEF TagsFit, PublishOps, PullSteps, SetTagSteps
<1>8. CASE RemoveBuildTag(p, b)
  <2>1. PICK tag \in TagsUsed[p] :
          Begin(p, "removeBuildTag", b, "untag",
                [NewJob("removeBuildTag", b) EXCEPT !.tags = {tag}])
    BY <1>8 DEF RemoveBuildTag
  <2> DEFINE local == [NewJob("removeBuildTag", b) EXCEPT !.tags = {tag}]
  <2>2. /\ local.op = "removeBuildTag" /\ local.tags = {tag}
        /\ ~local.publishing
    BY DEF NewJob
  <2>3. "removeBuildTag" \in Ops[p] /\ pc'[p] = "untag" /\ job'[p] = local
    BY <1>2, <2>1
  <2> HIDE DEF local
  <2> QED
    BY <2>2, <2>3, TagsGivenValue
       DEF TagsFit, PublishOps, PullSteps, SetTagSteps
<1>9. ASSUME NEW op, op \notin PublishOps,
             NEW step \in {"delete", "edit", "check tags"},
             step = "check tags" => op \in Commands,
             NEW local, local.op = op, local.tags = {}, ~local.publishing,
             Begin(p, op, b, step, local)
      PROVE  TagsFit(pc'[p], job'[p], p)
  <2>1. op \in Ops[p] /\ pc'[p] = step /\ job'[p] = local
    BY <1>2, <1>9
  <2> QED
    BY <1>9, <2>1 DEF TagsFit, PullSteps, SetTagSteps
<1>10. ASSUME NEW op
       PROVE  /\ NewJob(op, b).op = op /\ NewJob(op, b).tags = {}
              /\ ~NewJob(op, b).publishing
  BY DEF NewJob
<1>11. CASE \/ DeleteBuild(p, b) \/ KeepBuild(p, b) \/ ReleaseBuild(p, b)
  BY <1>9, <1>10, <1>11 DEF DeleteBuild, KeepBuild, ReleaseBuild, PublishOps
<1>12. CASE DeleteCommand(p, b)
  BY <1>9, <1>10, <1>12 DEF DeleteCommand, Commands, PublishOps
<1>13. CASE CreateNote(p, b)
  <2>1. PICK note \in Notes \cup {Nil} :
          Begin(p, "createNote", b, "edit",
                [NewJob("createNote", b) EXCEPT !.note = note])
    BY <1>13 DEF CreateNote
  <2> DEFINE local == [NewJob("createNote", b) EXCEPT !.note = note]
  <2>2. local.op = "createNote" /\ local.tags = {} /\ ~local.publishing
    BY DEF NewJob
  <2>3. Begin(p, "createNote", b, "edit", local)
    BY <2>1
  <2> HIDE DEF local
  <2> QED
    BY <1>9, <2>2, <2>3 DEF PublishOps
<1> QED
  BY <1>1, <1>3, <1>5, <1>6, <1>7, <1>8, <1>11, <1>12, <1>13

\* The steps of a job.
LEMMA StepTagsFit ==
    ASSUME TypeOK, NEW p \in Procs, Step(p), TagsFit(pc[p], job[p], p)
    PROVE  pc'[p] # "idle" => TagsFit(pc'[p], job'[p], p)
<1> DEFINE j == job[p]
           Goal == pc'[p] # "idle" => TagsFit(pc'[p], job'[p], p)
           Same(local) == /\ local.op = j.op /\ local.tags = j.tags
                          /\ local.tag = j.tag /\ local.publishing = j.publishing
           Touch == {"is_symlink", "remove link"}
           Goes(next) ==
              \/ next \notin PullSteps \cup SetTagSteps \cup Touch
                               \cup {"publish", "check tags"}
              \/ pc[p] \in PullSteps /\ next \in PullSteps
              \/ pc[p] \in SetTagSteps /\ next \in SetTagSteps
              \/ pc[p] \in Touch /\ next \in Touch
<1>1. JobsTypeOK /\ pc[p] # "idle" /\ j \in Job
  BY StepKeepsRequest DEF TypeOK, JobsTypeOK
<1>2. ASSUME NEW next, NEW local, Continue(p, next, local),
             next # "idle" => TagsFit(next, local, p)
      PROVE  Goal
  BY <1>1, <1>2, ContinueValue
<1>3. \A next, local : Same(local) /\ Goes(next) => TagsFit(next, local, p)
  <2> SUFFICES ASSUME NEW next, NEW local, Same(local), Goes(next)
               PROVE  TagsFit(next, local, p)
    OBVIOUS
  <2>1. TagsFit(pc[p], j, p)
    OBVIOUS
  <2>2. /\ local.op = j.op /\ local.tags = j.tags
        /\ local.tag = j.tag /\ local.publishing = j.publishing
    OBVIOUS
  <2> HIDE DEF j, Same
  <2>3. CASE next \notin PullSteps \cup SetTagSteps \cup Touch
                        \cup {"publish", "check tags"}
    BY <2>1, <2>2, <2>3 DEF TagsFit
  <2>4. CASE pc[p] \in PullSteps /\ next \in PullSteps
    BY <2>1, <2>2, <2>4 DEF TagsFit, PullSteps, SetTagSteps
  <2>5. CASE pc[p] \in SetTagSteps /\ next \in SetTagSteps
    BY <2>1, <2>2, <2>5 DEF TagsFit, PullSteps, SetTagSteps
  <2>6. CASE pc[p] \in Touch /\ next \in Touch
    BY <2>1, <2>2, <2>6 DEF TagsFit, PullSteps, SetTagSteps
  <2> QED
    BY <2>3, <2>4, <2>5, <2>6
<1>4. /\ Same(j)
      /\ \A i : Same([j EXCEPT !.item = i])
      /\ \A r : Same([j EXCEPT !.record = r])
      /\ \A d : Same([j EXCEPT !.link_dest = d])
  BY <1>1 DEF Job
<1>5. /\ Goes("idle") /\ Goes("untag") /\ Goes("delete") /\ Goes("delete tree")
      /\ Goes("delete rmtree") /\ Goes("save")
  BY DEF PullSteps, SetTagSteps
<1>6. pc[p] \in PullSteps =>
        /\ Goes("submit") /\ Goes("download") /\ Goes("extract")
        /\ Goes("copy_path") /\ Goes("rmtree") /\ Goes("copy")
        /\ Goes("copytree") /\ Goes("tags") /\ Goes("metadata")
        /\ Goes("complete") /\ Goes("gbp.json")
  BY DEF PullSteps
<1>7. pc[p] \in SetTagSteps => Goes("islink") /\ Goes("unlink") /\ Goes("symlink")
  BY DEF SetTagSteps
<1>8. pc[p] \in Touch => Goes("is_symlink") /\ Goes("remove link")
  OBVIOUS
<1>9. Goes(Handler(j))
  BY <1>5 DEF Handler
<1>10. TagsFit(AfterPull(j), j, p)
  <2>1. CASE j.publishing
    <3>1. "" \in TagsGiven(j.op, p) /\ j.tag = ""
      <4>1. j.op \in PublishOps /\ j.tag = ""
        BY <2>1 DEF TagsFit
      <4> QED
        BY <4>1, TagsGivenValue
    <3> QED
      BY <2>1, <3>1 DEF TagsFit, AfterPull, PullSteps
  <2>2. CASE ~j.publishing /\ j.op = "publish_build"
    BY <2>2 DEF TagsFit, AfterPull, PublishOps, PullSteps, SetTagSteps
  <2>3. CASE ~j.publishing /\ j.op # "publish_build"
    <3>1. AfterPull(j) = "idle"
      BY <2>3 DEF AfterPull
    <3> QED
      BY <1>3, <1>4, <1>5, <3>1
  <2> QED
    BY <2>1, <2>2, <2>3
<1>11. \A i : TagsFit(AfterTag(j), [j EXCEPT !.item = i], p)
  <2>1. CASE j.op = "pull_build"
    <3>1. SUFFICES ASSUME NEW local, Same(local)
                   PROVE  TagsFit("tags", local, p)
      BY <1>4, <2>1 DEF AfterTag
    <3> QED
      BY <2>1, <3>1 DEF TagsFit, PublishOps, PullSteps, SetTagSteps
  <2>2. CASE j.op # "pull_build"
    <3>1. AfterTag(j) = "idle"
      BY <2>2 DEF AfterTag
    <3> QED
      BY <1>3, <1>4, <1>5, <3>1
  <2> QED
    BY <2>1, <2>2
<1> HIDE DEF Goal, Same, Goes, Touch
<1>12. ASSUME NEW next, Goto(p, next), Goes(next)
       PROVE  Goal
  BY <1>2, <1>3, <1>4, <1>12 DEF Goto
<1>13. ASSUME NEW body, NEW after, NextItem(p, body, after), Goes(body), Goes(after)
       PROVE  Goal
  BY <1>2, <1>3, <1>4, <1>13 DEF NextItem
<1>14. ASSUME Raise(p)
       PROVE  Goal
  BY <1>2, <1>3, <1>4, <1>9, <1>14 DEF Raise
<1>15. ASSUME Pull(p) \/ GbpJson(p) PROVE Goal
  <2>1. Goto(p, AfterPull(j)) => Goal
    BY <1>2, <1>10 DEF Goto
  <2>2. pc[p] \in PullSteps
    BY <1>15 DEF Pull, GbpJson, PullSteps
  <2>3. Continue(p, "submit", [j EXCEPT !.record = RecordOf(j.build)]) => Goal
    BY <1>2, <1>3, <1>4, <1>6, <2>2
  <2> QED
    BY <1>14, <1>15, <2>1, <2>3 DEF Pull, GbpJson
<1>16. ASSUME Submit(p) \/ Download(p) PROVE Goal
  <2>1. pc[p] \in PullSteps
    BY <1>16 DEF Submit, Download, PullSteps
  <2> QED
    BY <1>2, <1>3, <1>4, <1>6, <1>14, <1>16, <2>1 DEF Submit, Download
<1>17. ASSUME \/ Extract(p) \/ CopyPath(p) \/ RemoveTree(p) \/ Copy(p)
              \/ CopyTree(p) \/ Metadata(p) \/ Complete(p)
       PROVE  Goal
  <2>1. pc[p] \in PullSteps
    BY <1>17 DEF Extract, CopyPath, RemoveTree, Copy, CopyTree, Metadata,
                 Complete, PullSteps
  <2> QED
    BY <1>6, <1>12, <1>13, <1>14, <1>17, <2>1
       DEF Extract, CopyPath, RemoveTree, Copy, CopyTree, Metadata, Complete
<1>18. ASSUME \/ Delete(p) \/ DeleteTree(p) \/ DeleteRmtree(p) \/ Save(p)
       PROVE  Goal
  BY <1>5, <1>12, <1>13, <1>18 DEF Delete, DeleteTree, DeleteRmtree, Save
<1>19. ASSUME Edit(p) PROVE Goal
  BY <1>2, <1>3, <1>4, <1>5, <1>12, <1>19 DEF Edit
<1>20. ASSUME NextTag(p) PROVE Goal
  <2>1. pc[p] = "tags" /\ pc[p] \in PullSteps
    BY <1>20 DEF NextTag, PullSteps
  <2>2. ASSUME j.tags = {} PROVE Goal
    BY <1>6, <1>12, <1>20, <2>1, <2>2 DEF NextTag
  <2>3. ASSUME j.tags # {} PROVE Goal
    <3>1. PICK tag \in j.tags :
            Continue(p, "tag", [j EXCEPT !.tag = tag, !.tags = @ \ {tag}])
      BY <1>20, <2>3 DEF NextTag
    <3> DEFINE local == [j EXCEPT !.tag = tag, !.tags = @ \ {tag}]
    <3>2. /\ local.op = j.op /\ local.tags = j.tags \ {tag} /\ local.tag = tag
          /\ local.publishing = j.publishing
      BY <1>1 DEF Job
    <3>3. Continue(p, "tag", local)
      BY <3>1
    <3> HIDE DEF local
    <3>4. j.op = "pull_build"
      BY <2>1, <2>3 DEF TagsFit
    <3>5. TagsFit("tag", local, p)
      BY <3>2, <3>4 DEF TagsFit, PublishOps, PullSteps
    <3> QED
      BY <1>2, <3>3, <3>5
  <2> QED
    BY <2>2, <2>3
<1>21. ASSUME Publish(p) PROVE Goal
  <2> DEFINE local == [j EXCEPT !.publishing = TRUE]
  <2>1. /\ local.op = j.op /\ local.tags = j.tags /\ local.tag = j.tag
        /\ local.publishing
    BY <1>1 DEF Job
  <2>2. PICK next \in {"idle", "tag", "pull"} : Continue(p, next, local)
    BY <1>21 DEF Publish
  <2> HIDE DEF local
  <2>3. j.op \in PublishOps
    BY <1>21 DEF Publish, TagsFit
  <2>4. "" \in TagsGiven(j.op, p)
    BY <2>3, TagsGivenValue
  <2>5. next # "idle" => TagsFit(next, local, p)
    BY <2>1, <2>3, <2>4 DEF TagsFit
  <2> QED
    BY <1>2, <2>2, <2>5
<1>22. ASSUME Tag(p) \/ IsLink(p) \/ Unlink(p) PROVE Goal
  <2>1. pc[p] \in SetTagSteps
    BY <1>22 DEF Tag, IsLink, Unlink, SetTagSteps
  <2> QED
    BY <1>7, <1>12, <1>14, <1>22, <2>1 DEF Tag, IsLink, Unlink
<1>23. ASSUME Symlink(p) PROVE Goal
  <2>1. Goes("islink")
    BY <1>7, <1>23 DEF Symlink, SetTagSteps
  <2>2. ASSUME NextItem(p, "islink", AfterTag(j)) PROVE Goal
    <3>1. \A i : TagsFit("islink", [j EXCEPT !.item = i], p)
      BY <1>3, <1>4, <2>1
    <3> QED
      BY <1>2, <1>11, <2>2, <3>1 DEF NextItem
  <2> QED
    BY <1>14, <1>23, <2>2 DEF Symlink
<1>24. ASSUME IsSymlink(p) \/ RemoveLink(p) PROVE Goal
  <2>1. pc[p] \in Touch
    BY <1>24 DEF IsSymlink, RemoveLink, Touch
  <2> QED
    BY <1>5, <1>8, <1>12, <1>13, <1>14, <1>24, <2>1 DEF IsSymlink, RemoveLink
<1>25. ASSUME CheckTags(p) PROVE Goal
  <2> DEFINE local == [j EXCEPT !.tags = TagsOf(j.build)]
  <2>1. /\ local.op = j.op /\ local.tags = TagsOf(j.build)
        /\ local.publishing = j.publishing
    BY <1>1 DEF Job
  <2>2. Goto(p, "idle") \/ Continue(p, "untag", local)
    BY <1>25 DEF CheckTags
  <2> HIDE DEF local
  <2>3. j.op \in Commands /\ j.op \notin PublishOps
    BY <1>25 DEF CheckTags, TagsFit, Commands, PublishOps
  <2>4. TagsOf(j.build) \subseteq TagsGiven(j.op, p)
    BY <2>3, TagsGivenValue DEF TagsOf
  <2>5. TagsFit("untag", local, p)
    BY <2>1, <2>3, <2>4 DEF TagsFit, PullSteps, SetTagSteps
  <2> QED
    BY <1>2, <1>5, <1>12, <2>2, <2>5
<1>26. ASSUME Untag(p) PROVE Goal
  <2>1. ASSUME j.tags = {} PROVE Goal
    <3>1. Goes(IF j.op \in Commands THEN "delete" ELSE "idle")
      BY <1>5
    <3> QED
      BY <1>12, <1>26, <2>1, <3>1 DEF Untag
  <2>2. ASSUME j.tags # {} PROVE Goal
    <3>1. PICK tag \in j.tags :
            Continue(p, IF Resolves(tag) THEN "is_symlink" ELSE "untag",
                     [j EXCEPT !.tag = tag, !.tags = @ \ {tag}])
      BY <1>26, <2>2 DEF Untag
    <3> DEFINE local == [j EXCEPT !.tag = tag, !.tags = @ \ {tag}]
    <3>2. /\ local.op = j.op /\ local.tags = j.tags \ {tag} /\ local.tag = tag
          /\ local.publishing = j.publishing
      BY <1>1 DEF Job
    <3>3. PICK next \in {"is_symlink", "untag"} : Continue(p, next, local)
      BY <3>1
    <3> HIDE DEF local
    <3>4. TagsFit(next, local, p)
      BY <2>2, <3>2 DEF TagsFit, PullSteps, SetTagSteps
    <3> QED
      BY <1>2, <3>3, <3>4
  <2> QED
    BY <2>1, <2>2
<1> QED
  BY <1>15, <1>16, <1>17, <1>18, <1>19, <1>20, <1>21, <1>22, <1>23, <1>24,
     <1>25, <1>26 DEF Goal, Step

\* A step leads from jobs within what they are given to such jobs.
LEMMA RequestNext ==
    ASSUME RequestInv, TypeOK, [Next]_vars
    PROVE  RequestInv'
<1>1. CASE UNCHANGED vars
  BY <1>1 DEF vars, RequestInv
<1>2. CASE Next
  <2>1. PICK p \in Procs : Start(p) \/ Step(p) \/ Crash(p)
    BY <1>2 DEF Next
  <2>2. CASE Start(p)
    BY <2>2, StartTagsFit, StartOutside DEF RequestInv
  <2>3. CASE Step(p)
    <3>1. /\ pc[p] # "idle"
          /\ \A q \in Procs \ {p} : pc'[q] = pc[q] /\ job'[q] = job[q]
      BY <2>3, StepKeepsRequest
    <3> QED
      BY <2>3, <3>1, StepTagsFit DEF RequestInv
  <2>4. CASE Crash(p)
    BY <2>4, ControlValue DEF Crash, TypeOK, RequestInv
  <2> QED
    BY <2>1, <2>2, <2>3, <2>4
<1> QED
  BY <1>1, <1>2

\* In every behaviour, jobs stay within what they are given.
LEMMA RequestInvariant == Spec => []RequestInv
<1>1. Init => RequestInv
  BY DEF Init, RequestInv
<1>2. RequestInv /\ TypeOK /\ [Next]_vars => RequestInv'
  BY RequestNext
<1> QED
  BY <1>1, <1>2, TypeCorrect, PTL DEF Spec

\* A job is at the links of a tag that it has been given.
LEMMA OwnTagsApart ==
    ASSUME OwnTags, RequestInv, TypeOK
    PROVE  TagsApart
<1>1. crashes = 0
  BY DEF OwnTags, TypeOK
<1>2. ASSUME NEW p \in Procs, NEW q \in Procs, pc[p] \in TagSteps,
             pc[q] \in TagSteps, job[p].tag = job[q].tag
      PROVE  p = q
  <2>1. job[p].tag \in MayTag(p) /\ job[q].tag \in MayTag(q)
    BY <1>2 DEF RequestInv, TagsFit, TagSteps, SetTagSteps, MayTag
  <2> QED
    BY <1>2, <2>1 DEF OwnTags
<1> QED
  BY <1>1, <1>2 DEF TagsApart

\* Processes that set or remove different tags keep the tags apart, as long as
\* none of them dies: every tag that a job sets or removes is one that its
\* request, publish() or the delete command gave it.
THEOREM OwnTagsAreApart == OwnTags => (Spec => []TagsApart)
<1> SUFFICES ASSUME OwnTags PROVE Spec => []TagsApart
  OBVIOUS
<1>1. RequestInv /\ TypeOK => TagsApart
  BY OwnTagsApart
<1> QED
  BY <1>1, RequestInvariant, TypeCorrect, PTL

\* So the links of a tag agree, in a deployment of that kind, whenever nobody is
\* at them.
THEOREM OwnTagsSettle == OwnTags => (Spec => []TagsSettle)
<1>1. OwnTags => (Spec => []TagsApart)
  BY OwnTagsAreApart
<1>2. Spec /\ []TagsApart => []TagsSettle
  BY TagsKeptApartSettle
<1> SUFFICES ASSUME OwnTags PROVE Spec => []TagsSettle
  OBVIOUS
<1>3. Spec => []TagsApart
  BY <1>1
<1> QED
  BY <1>2, <1>3, PTL

(***************************************************************************)
(* Published builds are complete                                           *)
(***************************************************************************)

\* In an orderly behaviour only a deletion makes a completed build one that is
\* not completed: stale copies of the record are not written over it.
LEMMA OnlyDeleteUncompletes ==
    ASSUME Inv, NEW p \in Procs, Step(p), NEW b \in Builds,
           Completed(b), ~Completed(b)'
    PROVE  Delete(p) /\ job[p].build = b
<1> DEFINE j == job[p]
<1>1. TypeOK /\ records'[b] # records[b]
  BY DEF Inv, Completed
<1>2. /\ Submit(p) \/ Complete(p) \/ Delete(p) \/ Save(p)
      /\ j \in Job /\ j.build = b
  <2>1. /\ \/ Submit(p) \/ CopyPath(p) \/ RemoveTree(p) \/ Copy(p)
           \/ CopyTree(p) \/ Complete(p) \/ Delete(p) \/ DeleteTree(p)
           \/ DeleteRmtree(p) \/ Save(p)
        /\ j \in Job
        /\ \A other \in Builds \ {j.build} : records'[other] = records[other]
    BY <1>1, ChangesOwnBuild
  <2>2. \/ CopyPath(p) \/ RemoveTree(p) \/ Copy(p) \/ CopyTree(p)
        \/ DeleteTree(p) \/ DeleteRmtree(p)
        => UNCHANGED records
    BY DEF CopyPath, RemoveTree, Copy, CopyTree, DeleteTree, DeleteRmtree
  <2> QED
    BY <1>1, <2>1, <2>2
<1>3. Shape(pc[p], j, p, dirs[b], records[b])
  <2>1. pc[p] \in {"submit", "complete", "delete", "save"}
    BY <1>2 DEF Submit, Complete, Delete, Save
  <2> QED
    BY <1>2, <2>1 DEF Inv, InShape, TagOpSteps, SetTagSteps, UntagSteps
<1>4. RecordsTypeOK /\ records[b] # Nil /\ records[b].completed
  BY <1>1 DEF TypeOK, Completed, IsCompleted
<1>5. ~Submit(p)
  BY <1>3, <1>4 DEF Submit, Shape
<1>6. ~Complete(p)
  <2>1. SUFFICES ASSUME Complete(p) PROVE FALSE
    OBVIOUS
  <2> DEFINE record == [j.record EXCEPT !.completed = TRUE]
  <2>2. record \in Record /\ record.completed
    BY <1>2 DEF Job, Record
  <2>3. records'[b] = record
    BY <1>2, <1>4, <2>1, SaveValue DEF Complete
  <2>4. records'[b] # Nil /\ records'[b].completed
    BY <2>2, <2>3, RecordsAssumption
  <2> QED
    BY <2>4 DEF Completed, IsCompleted
<1>7. ~Save(p)
  <2>1. SUFFICES ASSUME Save(p) PROVE FALSE
    OBVIOUS
  <2>2. j.record.completed = records[b].completed
    BY <1>3, <2>1 DEF Save, Shape
  <2>3. records'[b] = Edited(j)
    BY <1>2, <1>4, <2>1, SaveValue DEF Save
  <2>4. Edited(j) \in Record /\ Edited(j).completed = j.record.completed
    <3>1. Edited(j) \in {[j.record EXCEPT !.keep = TRUE],
                         [j.record EXCEPT !.keep = FALSE],
                         [j.record EXCEPT !.note = j.note]}
      BY DEF Edited
    <3>2. j.record \in Record /\ j.note \in Notes \cup {Nil}
      BY <1>2 DEF Job
    <3> QED
      BY <3>1, <3>2 DEF Record
  <2>5. records'[b] # Nil /\ records'[b].completed
    BY <1>4, <2>2, <2>3, <2>4, RecordsAssumption
  <2> QED
    BY <2>5 DEF Completed, IsCompleted
<1> QED
  BY <1>2, <1>5, <1>6, <1>7

\* A publishing operation comes to Storage.tag() only out of publish(), which
\* has found the build pulled, and then sets the tag "" of that build.
LEMMA PublishingEnters ==
    ASSUME Inv, Orderly, NEW p \in Procs, Step(p), pc'[p] \in SetTagSteps,
           job'[p].op \in PublishOps
    PROVE  \/ /\ pc[p] \in SetTagSteps
              /\ job'[p].tag = job[p].tag /\ job'[p].build = job[p].build
           \/ /\ Publish(p) /\ Completed(job[p].build)
              /\ job'[p].build = job[p].build
<1> DEFINE j == job[p]
<1>1. TypeOK /\ JobsTypeOK /\ pc[p] # "idle" /\ j \in Job /\ pc'[p] # "idle"
  <2>1. TypeOK /\ pc'[p] # "idle"
    BY DEF Inv, SetTagSteps
  <2> QED
    BY <2>1, StepKeepsRequest DEF TypeOK, JobsTypeOK
<1>2. job'[p].op = j.op /\ job'[p].build = j.build /\ j.op \in PublishOps
  BY <1>1, StepKeepsRequest
<1>3. ASSUME NEW next, NEW local, Continue(p, next, local)
      PROVE  next \in SetTagSteps /\ job'[p] = local
  <2>1. pc'[p] = next /\ (next # "idle" => job'[p] = local)
    BY <1>1, <1>3, ContinueValue
  <2> QED
    BY <1>1, <2>1
<1>4. ASSUME NEW next, Goto(p, next)
      PROVE  next \in SetTagSteps /\ job'[p] = j
  BY <1>3, <1>4 DEF Goto
<1>5. ASSUME NEW body, NEW after, NextItem(p, body, after)
      PROVE  \/ body \in SetTagSteps /\ job'[p] = [j EXCEPT !.item = j.item + 1]
             \/ after \in SetTagSteps /\ job'[p] = [j EXCEPT !.item = 1]
  BY <1>3, <1>5 DEF NextItem
<1>6. ~Raise(p)
  BY <1>3 DEF Raise, Handler, SetTagSteps
<1>7. CASE Tag(p) \/ IsLink(p) \/ Unlink(p) \/ Symlink(p)
  <2>1. \A i : [j EXCEPT !.item = i].tag = j.tag
    BY <1>1 DEF Job
  <2>2. job'[p].tag = j.tag
    <3>1. \A next : Goto(p, next) => job'[p].tag = j.tag
      BY <1>4
    <3>2. \A body, after : NextItem(p, body, after) => job'[p].tag = j.tag
      BY <1>5, <2>1
    <3> QED
      BY <1>6, <1>7, <3>1, <3>2 DEF Tag, IsLink, Unlink, Symlink
  <2>3. pc[p] \in SetTagSteps
    BY <1>7 DEF Tag, IsLink, Unlink, Symlink, SetTagSteps
  <2> QED
    BY <1>2, <2>2, <2>3
<1>8. CASE Publish(p)
  <2>1. pc[p] = "publish"
    BY <1>8 DEF Publish
  <2>2. CASE j.op = "publish"
    BY <1>2, <1>8, <2>1, <2>2
       DEF Orderly, Pulled, RecordOf, RecordExists, Completed, IsCompleted,
           EmptyRecord
  <2>3. CASE j.op # "publish"
    <3>1. j.op \notin TagOps
      BY <1>2, <2>3 DEF PublishOps, TagOps
    <3>2. Shape(pc[p], j, p, dirs[j.build], records[j.build])
      BY <1>1, <3>1 DEF Inv, InShape
    <3> QED
      BY <1>2, <1>8, <2>1, <3>2 DEF Shape, Completed
  <2> QED
    BY <2>2, <2>3
<1>9. CASE Pull(p) \/ GbpJson(p) \/ NextTag(p)
  <2>1. pc[p] \in {"pull", "gbp.json", "tags"}
    BY <1>9 DEF Pull, GbpJson, NextTag
  <2>2. j.op \in {"pull_build", "publish_build"} /\ ~j.publishing
        /\ (j.op = "publish_build" => j.tags = {})
    BY <1>1, <2>1
       DEF Inv, InShape, Shape, PullSteps, TagOpSteps, SetTagSteps, UntagSteps
  <2>3. j.op = "publish_build" /\ j.tags = {}
    BY <1>2, <2>2 DEF PublishOps
  <2>4. AfterPull(j) = "publish"
    BY <2>2, <2>3 DEF AfterPull
  <2>5. ~Pull(p)
    BY <1>3, <1>4, <2>4 DEF Pull, SetTagSteps
  <2>6. ~GbpJson(p)
    BY <1>4, <1>6, <2>4 DEF GbpJson, SetTagSteps
  <2>7. ~NextTag(p)
    BY <1>4, <2>3 DEF NextTag, SetTagSteps
  <2> QED
    BY <1>9, <2>5, <2>6, <2>7
<1> DEFINE Elsewhere(next) == next \notin SetTagSteps
<1>10. /\ Elsewhere("idle") /\ Elsewhere("submit") /\ Elsewhere("download")
       /\ Elsewhere("extract") /\ Elsewhere("copy_path") /\ Elsewhere("rmtree")
       /\ Elsewhere("copy") /\ Elsewhere("copytree") /\ Elsewhere("tags")
       /\ Elsewhere("complete") /\ Elsewhere("gbp.json") /\ Elsewhere("untag")
       /\ Elsewhere("is_symlink") /\ Elsewhere("remove link")
       /\ Elsewhere("delete") /\ Elsewhere("delete tree")
       /\ Elsewhere("delete rmtree") /\ Elsewhere("save")
  BY DEF SetTagSteps
<1>11. /\ \A next, local : Elsewhere(next) => ~Continue(p, next, local)
       /\ \A next : Elsewhere(next) => ~Goto(p, next)
       /\ \A body, after :
             Elsewhere(body) /\ Elsewhere(after) => ~NextItem(p, body, after)
  BY <1>3, <1>4, <1>5
<1> HIDE DEF Elsewhere
<1>12. /\ ~Submit(p) /\ ~Download(p) /\ ~Extract(p) /\ ~CopyPath(p)
       /\ ~RemoveTree(p) /\ ~Metadata(p) /\ ~Complete(p) /\ ~CheckTags(p)
       /\ ~Edit(p) /\ ~Delete(p) /\ ~Save(p)
  BY <1>6, <1>10, <1>11
     DEF Submit, Download, Extract, CopyPath, RemoveTree, Metadata, Complete,
         CheckTags, Edit, Delete, Save
<1>13. /\ ~Copy(p) /\ ~CopyTree(p) /\ ~IsSymlink(p) /\ ~RemoveLink(p)
       /\ ~DeleteTree(p) /\ ~DeleteRmtree(p)
  BY <1>6, <1>10, <1>11
     DEF Copy, CopyTree, IsSymlink, RemoveLink, DeleteTree, DeleteRmtree
<1>14. ~Untag(p)
  <2>1. Elsewhere(IF j.op \in Commands THEN "delete" ELSE "idle")
    BY <1>10
  <2>2. \A tag : Elsewhere(IF Resolves(tag) THEN "is_symlink" ELSE "untag")
    BY <1>10
  <2> QED
    BY <1>11, <2>1, <2>2 DEF Untag
<1> QED
  BY <1>7, <1>8, <1>9, <1>12, <1>13, <1>14 DEF Step

\* Only symlink() makes a link name a build: the one that its job is about.
LEMMA LinkChange ==
    ASSUME TypeOK, NEW p \in Procs, Step(p)
    PROVE  \A t \in Tags, c \in Content, b \in Builds :
              links[t][c] # b /\ links'[t][c] = b =>
                 pc[p] = "symlink" /\ job[p].tag = t /\ job[p].build = b
<1> SUFFICES ASSUME NEW t \in Tags, NEW c \in Content, NEW b \in Builds,
                    links[t][c] # b, links'[t][c] = b
             PROVE  pc[p] = "symlink" /\ job[p].tag = t /\ job[p].build = b
  OBVIOUS
<1> DEFINE j == job[p]
<1>1. Symlink(p) \/ Unlink(p) \/ RemoveLink(p)
  BY DEF Step, Pull, Submit, Download, Extract, CopyPath, RemoveTree, Copy,
         CopyTree, NextTag, Metadata, Complete, GbpJson, Publish, Tag, IsLink,
         CheckTags, Untag, IsSymlink, Delete, DeleteTree, DeleteRmtree, Edit, Save
<1>2. StorageTypeOK /\ Nil \notin Builds /\ j.tag \in Tags /\ j.item \in Content
  <2>1. pc[p] # "idle"
    BY StepKeepsRequest
  <2> QED
    BY <2>1, JobFields, TypesAssumption DEF TypeOK, JobsTypeOK
<1>3. \A target : SetLink(j.tag, j.item, target) =>
         (links'[t][c] = target /\ t = j.tag) \/ links'[t][c] = links[t][c]
  BY <1>2 DEF SetLink, StorageTypeOK
<1>4. ~Unlink(p) /\ ~RemoveLink(p)
  BY <1>2, <1>3 DEF Unlink, RemoveLink
<1>5. Symlink(p)
  BY <1>1, <1>4
<1>6. pc[p] = "symlink" /\ SetLink(j.tag, j.item, j.build)
  BY <1>5 DEF Symlink
<1> QED
  BY <1>3, <1>6

\* Of the operations, only createBuildTag begins with Storage.tag(), and only
\* delete_build with BuildPublisher.delete().
LEMMA FirstSteps ==
    ASSUME TypeOK, NEW p \in Procs, Start(p)
    PROVE  /\ pc'[p] = "tag" => job'[p].op = "createBuildTag"
           /\ pc'[p] = "delete" => job'[p].op = "delete_build"
<1>1. PICK b \in BuildsUsed[p] :
         \/ PullBuild(p, b) \/ PublishBuild(p, b) \/ DeleteBuild(p, b)
         \/ PublishMutation(p, b) \/ CreateBuildTag(p, b)
         \/ RemoveBuildTag(p, b) \/ KeepBuild(p, b) \/ ReleaseBuild(p, b)
         \/ CreateNote(p, b) \/ DeleteCommand(p, b)
  BY DEF Start
<1> DEFINE Goal == /\ pc'[p] = "tag" => job'[p].op = "createBuildTag"
                   /\ pc'[p] = "delete" => job'[p].op = "delete_build"
<1>2. ASSUME NEW op, NEW step, NEW local, Begin(p, op, b, step, local),
             step # "idle"
      PROVE  pc'[p] = step /\ job'[p] = local
  <2>1. JobsTypeOK /\ Continue(p, step, local)
    BY <1>2 DEF Begin, TypeOK
  <2> QED
    BY <1>2, <2>1, ContinueValue
<1>3. ASSUME NEW op, NEW step, NEW local, Begin(p, op, b, step, local),
             step \notin {"idle", "tag", "delete"}
      PROVE  Goal
  BY <1>2, <1>3
<1>4. ASSUME CreateBuildTag(p, b) PROVE Goal
  <2>1. PICK tag \in TagsUsed[p] :
          Begin(p, "createBuildTag", b, "tag",
                [NewJob("createBuildTag", b) EXCEPT !.tag = tag])
    BY <1>4 DEF CreateBuildTag
  <2> DEFINE local == [NewJob("createBuildTag", b) EXCEPT !.tag = tag]
  <2>2. local.op = "createBuildTag"
    BY DEF NewJob
  <2>3. pc'[p] = "tag" /\ job'[p] = local
    BY <1>2, <2>1
  <2> HIDE DEF local
  <2> QED
    BY <2>2, <2>3
<1>5. ASSUME DeleteBuild(p, b) PROVE Goal
  <2>1. NewJob("delete_build", b).op = "delete_build"
    BY DEF NewJob
  <2> QED
    BY <1>2, <1>5, <2>1 DEF DeleteBuild
<1> HIDE DEF Goal
<1>6. PullBuild(p, b) => Goal
  BY <1>3 DEF PullBuild
<1>7. RemoveBuildTag(p, b) => Goal
  BY <1>3 DEF RemoveBuildTag
<1>8. CreateNote(p, b) => Goal
  BY <1>3 DEF CreateNote
<1>9. DeleteCommand(p, b) => Goal
  <2>1. SUFFICES ASSUME NEW op \in Commands,
                        Begin(p, op, b, "check tags", NewJob(op, b))
                 PROVE  Goal
    BY DEF DeleteCommand
  <2> DEFINE local == NewJob(op, b)
  <2>2. Begin(p, op, b, "check tags", local)
    BY <2>1
  <2> HIDE DEF local
  <2> QED
    BY <1>3, <2>2
<1>10. PublishBuild(p, b) \/ PublishMutation(p, b) => Goal
  BY <1>3 DEF PublishBuild, PublishMutation
<1>11. KeepBuild(p, b) \/ ReleaseBuild(p, b) => Goal
  BY <1>3 DEF KeepBuild, ReleaseBuild
<1>12. Goal
  BY <1>1, <1>4, <1>5, <1>6, <1>7, <1>8, <1>9, <1>10, <1>11
<1> QED
  BY <1>12 DEF Goal

\* Every step of an orderly behaviour in which published builds are kept
\* preserves PublicationInv.
LEMMA PublicationNextPreserves ==
    ASSUME Inv, Orderly, Orderly', PublicationInv, PublishedIsKept,
           PublishedIsKept', [Next]_vars
    PROVE  PublicationInv'
<1>1. CASE UNCHANGED vars
  BY <1>1 DEF vars, PublicationInv, Completed, Publishing
<1>2. CASE Next
  <2>1. PICK p \in Procs : Start(p) \/ Step(p) \/ Crash(p)
    BY <1>2 DEF Next
  <2>2. TypeOK /\ ~Crash(p)
    BY DEF Crash, Orderly, Inv, TypeOK
  <2>3. SUFFICES ASSUME NEW b \in Builds, ~Completed(b)'
                 PROVE  /\ \A c \in Content : links'[""][c] # b
                        /\ \A q \in Procs : ~Publishing(q, b)'
    BY DEF PublicationInv
  <2>4. CASE Start(p)
    <3>1. UNCHANGED records
      BY <2>4
         DEF Start, PullBuild, PublishBuild, DeleteBuild, PublishMutation,
             CreateBuildTag, RemoveBuildTag, KeepBuild, ReleaseBuild,
             CreateNote, DeleteCommand, Begin
    <3>2. /\ UNCHANGED links
          /\ pc'[p] \in {"pull", "delete", "publish", "tag", "untag", "edit",
                         "check tags"}
          /\ \A q \in Procs \ {p} : pc'[q] = pc[q] /\ job'[q] = job[q]
      BY <2>2, <2>4, StartOutside
    <3>3. /\ \A c \in Content : links[""][c] # b
          /\ \A q \in Procs : ~Publishing(q, b)
      BY <2>3, <3>1 DEF PublicationInv, Completed
    <3>4. ~Publishing(p, b)'
      <4>1. pc'[p] = "tag" => job'[p].op = "createBuildTag"
        BY <2>2, <2>4, FirstSteps
      <4>2. pc'[p] \in SetTagSteps => pc'[p] = "tag"
        BY <3>2 DEF SetTagSteps
      <4> QED
        BY <4>1, <4>2 DEF Publishing, PublishedIsKept, PublishOps
    <3> QED
      BY <3>2, <3>3, <3>4 DEF Publishing
  <2>5. CASE Step(p)
    <3>1. \A q \in Procs \ {p} : pc'[q] = pc[q] /\ job'[q] = job[q]
      BY <2>2, <2>5, StepKeepsRequest
    <3>2. CASE Completed(b)
      <4>1. Delete(p) /\ job[p].build = b
        BY <2>3, <2>5, <3>2, OnlyDeleteUncompletes
      <4>2. /\ \A c \in Content : links[""][c] # b
            /\ \A q \in Procs : ~Publishing(q, b)
        BY <3>2, <4>1 DEF Delete, PublishedIsKept
      <4>3. UNCHANGED links /\ Goto(p, "delete tree")
        BY <4>1 DEF Delete
      <4>4. pc'[p] = "delete tree"
        BY <2>2, <4>3, ContinueValue DEF Goto, TypeOK
      <4> QED
        BY <3>1, <4>2, <4>3, <4>4 DEF Publishing, SetTagSteps
    <3>3. CASE ~Completed(b)
      <4>1. /\ \A c \in Content : links[""][c] # b
            /\ \A q \in Procs : ~Publishing(q, b)
        BY <3>3 DEF PublicationInv
      <4>2. \A c \in Content : links'[""][c] # b
        <5>1. SUFFICES ASSUME NEW c \in Content, links'[""][c] = b PROVE FALSE
          OBVIOUS
        <5>2. "" \in Tags
          BY StorageAssumption
        <5>3. pc[p] = "symlink" /\ job[p].tag = "" /\ job[p].build = b
          <6>1. \A t \in Tags : links[t][c] # b /\ links'[t][c] = b =>
                   pc[p] = "symlink" /\ job[p].tag = t /\ job[p].build = b
            BY <2>2, <2>5, LinkChange
          <6> QED
            BY <4>1, <5>1, <5>2, <6>1
        <5> QED
          BY <4>1, <5>3 DEF Publishing, SetTagSteps
      <4>3. ~Publishing(p, b)'
        <5>1. SUFFICES ASSUME pc'[p] \in SetTagSteps, job'[p].tag = "",
                              job'[p].build = b
                       PROVE  FALSE
          BY DEF Publishing
        <5>2. job'[p].op \in PublishOps
          BY <5>1 DEF PublishedIsKept
        <5>3. \/ pc[p] \in SetTagSteps /\ job[p].tag = "" /\ job[p].build = b
              \/ Publish(p) /\ Completed(b)
          BY <2>5, <5>1, <5>2, PublishingEnters
        <5> QED
          BY <3>3, <4>1, <5>3 DEF Publishing
      <4> QED
        BY <3>1, <4>1, <4>2, <4>3 DEF Publishing
    <3> QED
      BY <3>2, <3>3
  <2> QED
    BY <2>1, <2>2, <2>4, <2>5
<1> QED
  BY <1>1, <1>2

\* In an orderly behaviour in which published builds are kept, a build that is
\* not completed has no link of "", and none is being set to it: publish() looks
\* whether a build has been pulled, and what it has seen still holds.
THEOREM PublicationInvariant ==
    Spec /\ []Orderly /\ []PublishedIsKept => []PublicationInv
<1>1. Init => PublicationInv
  <2>1. SUFFICES ASSUME Init PROVE PublicationInv
    OBVIOUS
  <2>2. "" \in Tags /\ Nil \notin Builds
    BY StorageAssumption, TypesAssumption
  <2>3. \A c \in Content : links[""][c] = Nil
    BY <2>1, <2>2 DEF Init, StorageInit
  <2> QED
    BY <2>1, <2>2, <2>3 DEF Init, PublicationInv, Publishing, SetTagSteps
<1>2. Inv /\ Orderly /\ Orderly' /\ PublicationInv /\ PublishedIsKept
        /\ PublishedIsKept' /\ [Next]_vars => PublicationInv'
  BY PublicationNextPreserves
<1> QED
  BY <1>1, <1>2, OrderlyInvariant, PTL DEF Spec

\* So what a machine is given is a completed build with all of its trees.
THEOREM KeptPublishedIsComplete ==
    Spec /\ []Orderly /\ []PublishedIsKept => []PublishedIsComplete
<1>1. PublicationInv /\ CompletedIsWhole => PublishedIsComplete
  <2>1. 1 \in Content
    BY ContentBounds
  <2> QED
    BY <2>1 DEF PublicationInv, CompletedIsWhole, PublishedIsComplete,
                Published, CheckSymlinks
<1> QED
  BY <1>1, PublicationInvariant, OrderlyCompletedIsWhole, PTL

\* Where a pull can fail, and where every job that sets or removes tags can.
RaisingSteps ==
    {"download", "extract", "copy_path", "rmtree", "copy", "copytree",
     "metadata", "gbp.json", "remove link"} \cup SetTagSteps

\* A job comes to BuildPublisher.delete() from the delete command's loop over
\* the tags, or by an exception while a build is pulled.
LEMMA EntersDelete ==
    ASSUME TypeOK, NEW p \in Procs, Step(p), pc'[p] = "delete"
    PROVE  \/ job[p].op \in Commands
           \/ /\ Handler(job[p]) = "delete" /\ UNCHANGED records
              /\ pc[p] \in RaisingSteps
              /\ pc[p] = "gbp.json" =>
                   \/ "gbp.json" \in Faults
                   \/ \E c \in Content : dirs[job[p].build][c] # "whole"
<1> DEFINE j == job[p]
           Else(next) == next # "delete"
<1>1. JobsTypeOK /\ pc[p] # "idle"
  BY StepKeepsRequest DEF TypeOK
<1>2. /\ \A next, local : Else(next) => ~Continue(p, next, local)
      /\ \A next : Else(next) => ~Goto(p, next)
  <2>1. ASSUME NEW next, NEW local, Continue(p, next, local)
        PROVE  next = "delete"
    BY <1>1, <2>1, ContinueValue
  <2> QED
    BY <2>1 DEF Goto
<1>3. \A body, after : Else(body) /\ Else(after) => ~NextItem(p, body, after)
  BY <1>2 DEF NextItem
<1>4. /\ Else("idle") /\ Else("submit") /\ Else("download") /\ Else("extract")
      /\ Else("copy_path") /\ Else("rmtree") /\ Else("copy")
      /\ Else("copytree") /\ Else("tags") /\ Else("tag") /\ Else("islink")
      /\ Else("unlink") /\ Else("symlink") /\ Else("metadata")
      /\ Else("complete") /\ Else("gbp.json") /\ Else("publish")
      /\ Else("pull") /\ Else("untag") /\ Else("is_symlink")
      /\ Else("remove link") /\ Else("delete tree") /\ Else("delete rmtree")
      /\ Else("save")
  OBVIOUS
<1>5. Else(AfterPull(j)) /\ Else(AfterTag(j))
  BY DEF AfterPull, AfterTag
<1>6. Raise(p) => Handler(j) = "delete"
  BY <1>2 DEF Raise
<1> HIDE DEF Else
<1>7. /\ ~Pull(p) /\ ~Submit(p) /\ ~NextTag(p) /\ ~Complete(p) /\ ~IsLink(p)
      /\ ~CheckTags(p) /\ ~Delete(p) /\ ~Edit(p) /\ ~Save(p)
  BY <1>2, <1>4, <1>5
     DEF Pull, Submit, NextTag, Complete, IsLink, CheckTags, Delete, Edit, Save
<1>8. ~IsSymlink(p) /\ ~DeleteTree(p) /\ ~DeleteRmtree(p)
  BY <1>2, <1>3, <1>4 DEF IsSymlink, DeleteTree, DeleteRmtree
<1>9. ~Publish(p)
  <2>1. Else(IF Published(j.build) THEN "idle"
             ELSE IF Pulled(j.build) THEN "tag" ELSE "pull")
    BY <1>4
  <2> QED
    BY <1>2, <2>1 DEF Publish
<1>10. Untag(p) => j.op \in Commands
  <2>1. \A tag : Else(IF Resolves(tag) THEN "is_symlink" ELSE "untag")
    BY <1>4
  <2>2. j.op \notin Commands => Else(IF j.op \in Commands THEN "delete" ELSE "idle")
    BY <1>4
  <2> QED
    BY <1>2, <2>1, <2>2 DEF Untag
<1>11. \/ Download(p) \/ Extract(p) \/ CopyPath(p) \/ RemoveTree(p) \/ Copy(p)
       \/ CopyTree(p) \/ Metadata(p) \/ Tag(p) \/ Unlink(p) \/ Symlink(p)
       \/ RemoveLink(p)
       => /\ Raise(p) /\ UNCHANGED records /\ pc[p] # "gbp.json"
          /\ pc[p] \in RaisingSteps
  BY <1>2, <1>3, <1>4, <1>5
     DEF Download, Extract, CopyPath, RemoveTree, Copy, CopyTree, Metadata, Tag,
         Unlink, Symlink, RemoveLink, RaisingSteps, SetTagSteps
<1>12. GbpJson(p) =>
         /\ Raise(p) /\ UNCHANGED records /\ pc[p] \in RaisingSteps
         /\ \/ "gbp.json" \in Faults
            \/ \E c \in Content : dirs[j.build][c] # "whole"
  BY <1>2, <1>5 DEF GbpJson, RaisingSteps
<1> QED
  BY <1>6, <1>7, <1>8, <1>9, <1>10, <1>11, <1>12 DEF Step

\* In a deployment that never withdraws a build, what is deleted is not
\* completed: the build of a pull that has failed before its last save.
LEMMA OnlyFailuresPreserved ==
    ASSUME NeverWithdraws, Inv, Orderly, RequestInv, AsUsed,
           OnlyFailuresDeleted, [Next]_vars
    PROVE  OnlyFailuresDeleted'
<1>1. SUFFICES ASSUME NEW q \in Procs, pc'[q] = "delete",
                      Completed(job[q].build)'
               PROVE  FALSE
  BY DEF OnlyFailuresDeleted
<1>2. ~(records' = records /\ pc' = pc /\ job' = job)
  <2>1. SUFFICES ASSUME records' = records, pc' = pc, job' = job PROVE FALSE
    OBVIOUS
  <2>2. Completed(job[q].build)
    BY <1>1, <2>1 DEF Completed
  <2> QED
    BY <1>1, <2>1, <2>2 DEF OnlyFailuresDeleted
<1>3. PICK p \in Procs : Start(p) \/ Step(p) \/ Crash(p)
  BY <1>2 DEF Next, vars
<1>4. TypeOK /\ ~Crash(p)
  <2>1. crashes = 0 /\ MaxCrashes = 0 /\ TypeOK
    BY DEF NeverWithdraws, WritersApart, Orderly, Inv
  <2> QED
    BY <2>1 DEF Crash
<1>5. /\ Ops[p] \cap Commands = {} /\ "delete_build" \notin Ops[p]
      /\ "gbp.json" \notin Faults
  BY DEF NeverWithdraws
<1>6. ~Start(p)
  <2>1. SUFFICES ASSUME Start(p) PROVE FALSE
    OBVIOUS
  <2>2. UNCHANGED records
    BY <2>1
       DEF Start, PullBuild, PublishBuild, DeleteBuild, PublishMutation,
           CreateBuildTag, RemoveBuildTag, KeepBuild, ReleaseBuild,
           CreateNote, DeleteCommand, Begin
  <2>3. p = q
    BY <1>1, <1>4, <2>1, <2>2, StartAsUsed DEF OnlyFailuresDeleted, Completed
  <2> QED
    BY <1>1, <1>4, <1>5, <2>1, <2>3, FirstSteps, StartAsUsed
<1>7. Step(p)
  BY <1>3, <1>4, <1>6
<1>8. p # q
  <2>1. SUFFICES ASSUME p = q PROVE FALSE
    OBVIOUS
  <2> DEFINE j == job[p]
  <2>2. pc[p] # "idle" /\ job'[p].build = j.build
    BY <1>1, <1>4, <1>7, <2>1, StepKeepsRequest
  <2>3. j.op \notin Commands
    BY <1>5, <2>2 DEF AsUsed
  <2>4. /\ Handler(j) = "delete" /\ Completed(j.build)
        /\ pc[p] \in RaisingSteps
        /\ pc[p] = "gbp.json" =>
              \E c \in Content : dirs[j.build][c] # "whole"
    BY <1>1, <1>4, <1>5, <1>7, <2>1, <2>2, <2>3, EntersDelete DEF Completed
  <2>5. j.op \in {"pull_build", "publish_build"} /\ ~j.publishing
    BY <2>4 DEF Handler
  <2>6. j.op \notin TagOps /\ j.op \in Tasks
    BY <2>5 DEF TagOps, Tasks
  <2>7. Shape(pc[p], j, p, dirs[j.build], records[j.build])
    BY <2>2, <2>6 DEF Inv, InShape
  <2>8. pc[p] \in SetTagSteps => j.op = "pull_build"
    BY <2>2, <2>5 DEF RequestInv, TagsFit
  <2>9. CASE pc[p] \in SetTagSteps
    BY <2>4, <2>7, <2>8, <2>9 DEF Shape, Pulling, Completed, IsCompleted
  <2>10. CASE pc[p] = "remove link"
    BY <2>6, <2>7, <2>10 DEF Shape, UntagSteps
  <2>11. CASE pc[p] = "gbp.json"
    BY <2>4, <2>7, <2>11 DEF Shape, Whole
  <2>12. CASE pc[p] \in RaisingSteps \ (SetTagSteps \cup {"remove link", "gbp.json"})
    BY <2>4, <2>7, <2>12
       DEF Shape, RaisingSteps, SetTagSteps, Pulling, Completed, IsCompleted
  <2> QED
    BY <2>4, <2>9, <2>10, <2>11, <2>12
<1>9. pc[q] = "delete" /\ job'[q] = job[q] /\ ~Completed(job[q].build)
  BY <1>1, <1>4, <1>7, <1>8, StepKeepsRequest DEF OnlyFailuresDeleted
<1>10. job[q].op \notin TagOps /\ job[q].build \in Builds
  BY <1>4, <1>9, JobFields
     DEF Inv, InShape, TagOpSteps, SetTagSteps, UntagSteps, TypeOK, JobsTypeOK
<1>11. records'[job[q].build] # records[job[q].build]
  BY <1>1, <1>9 DEF Completed
<1>12. \/ Submit(p) \/ CopyPath(p) \/ RemoveTree(p) \/ Copy(p)
       \/ CopyTree(p) \/ Complete(p) \/ Delete(p) \/ DeleteTree(p)
       \/ DeleteRmtree(p) \/ Save(p)
  BY <1>4, <1>7, <1>11, ChangesOwnBuild
<1>13. job[p].build = job[q].build
  BY <1>4, <1>7, <1>10, <1>11, ChangesOwnBuild
<1>14. job[p].op \notin TagOps /\ pc[p] # "idle"
  BY <1>12 DEF Inv, InShape, TagOpSteps, SetTagSteps, UntagSteps, Submit,
               CopyPath, RemoveTree, Copy, CopyTree, Complete, Delete,
               DeleteTree, DeleteRmtree, Save
<1> QED
  BY <1>8, <1>9, <1>10, <1>13, <1>14 DEF Orderly, WorksOn

\* In such a deployment, the publish mutation finds the build that it has
\* looked at: nothing takes a completed build away.
LEMMA NeverWithdrawsFound ==
    ASSUME NeverWithdraws, Inv, AsUsed, Found, OnlyFailuresDeleted, [Next]_vars
    PROVE  Found'
<1>1. SUFFICES ASSUME NEW p \in Procs, pc'[p] = "publish",
                      job'[p].op = "publish", ~Pulled(job[p].build)'
               PROVE  FALSE
  BY DEF Found
<1>2. crashes = MaxCrashes
  BY WritersApartExclusive DEF Inv, Exclusive, WritersApart, NeverWithdraws
<1>3. PICK q \in Procs \ {p} :
        /\ pc[p] = "publish" /\ job[p].op = "publish"
        /\ job[p].build \in Builds /\ job'[p].build = job[p].build
        /\ Step(q)
  BY <1>1, <1>2, FoundIsLost
<1> DEFINE b == job[p].build
<1>4. Pulled(b) /\ Completed(b)
  BY <1>3 DEF Found, Pulled, RecordOf, RecordExists, Completed, IsCompleted,
              EmptyRecord
<1>5. dirs'[b] = dirs[b]
  BY <1>3, <1>4, CompletedStaysStill DEF Completed
<1>6. Completed(b)'
  <2>1. SUFFICES ASSUME ~Completed(b)' PROVE FALSE
    OBVIOUS
  <2>2. Delete(q) /\ job[q].build = b
    BY <1>3, <1>4, <2>1, OnlyDeleteUncompletes
  <2> QED
    BY <1>4, <2>2 DEF Delete, OnlyFailuresDeleted
<1> QED
  BY <1>1, <1>3, <1>4, <1>5, <1>6
     DEF Pulled, StoragePulled, Exists, RecordOf, RecordExists, Completed,
         IsCompleted

\* A deployment with one writer for every build that deletes nothing on request
\* is orderly, and pull_build()'s handler deletes no completed build.
THEOREM OnlyFailuresAreDeleted ==
    NeverWithdraws => (Spec => []Orderly /\ []OnlyFailuresDeleted)
<1> SUFFICES ASSUME NeverWithdraws PROVE Spec => []Orderly /\ []OnlyFailuresDeleted
  OBVIOUS
<1>1. Init => Inv /\ Found /\ OnlyFailuresDeleted
  BY InitInv DEF Init, Found, OnlyFailuresDeleted
<1>2. TypeOK /\ AsUsed => Exclusive
  BY WritersApartExclusive DEF NeverWithdraws
<1>3. Exclusive /\ Found => Orderly
  BY DEF Orderly, Exclusive, Found
<1>4. Inv /\ AsUsed /\ Found /\ OnlyFailuresDeleted /\ [Next]_vars => Found'
  BY NeverWithdrawsFound
<1>5. Inv /\ Orderly /\ RequestInv /\ AsUsed /\ OnlyFailuresDeleted
        /\ [Next]_vars => OnlyFailuresDeleted'
  BY OnlyFailuresPreserved
<1>6. Inv /\ Orderly /\ Orderly' /\ TypeOK' /\ [Next]_vars => Inv'
  BY NextPreserves
<1> QED
  BY <1>1, <1>2, <1>3, <1>4, <1>5, <1>6, AsUsedInvariant, RequestInvariant,
     TypeCorrect, PTL DEF Spec

\* If "" is not given to builds as a tag either, whatever a machine is given in
\* such a deployment is a completed build with all of its trees, whoever
\* publishes what at the same time.
THEOREM NeverWithdrawnIsComplete ==
    NeverWithdraws => (Spec => []PublishedIsComplete)
<1> SUFFICES ASSUME NeverWithdraws PROVE Spec => []PublishedIsComplete
  OBVIOUS
<1>1. RequestInv /\ OnlyFailuresDeleted => PublishedIsKept
  <2>1. SUFFICES ASSUME RequestInv, OnlyFailuresDeleted,
                        NEW p \in Procs, pc[p] \in SetTagSteps,
                        job[p].tag = "", job[p].op \notin PublishOps
                 PROVE  FALSE
    BY DEF PublishedIsKept, OnlyFailuresDeleted
  <2>2. /\ job[p].op \in {"pull_build", "createBuildTag"}
        /\ job[p].op \in Ops[p] /\ "" \in TagsGiven(job[p].op, p)
    BY <2>1 DEF RequestInv, TagsFit, SetTagSteps
  <2>3. "" \in TagsUsed[p]
    BY <2>2, TagsGivenValue
  <2> QED
    BY <2>2, <2>3 DEF NeverWithdraws
<1> QED
  BY <1>1, OnlyFailuresAreDeleted, RequestInvariant, KeptPublishedIsComplete, PTL

(***************************************************************************)
(* Requests advance                                                        *)
(***************************************************************************)

\* No step that a job has before its cleanup is in the phase of the cleanup.
LEMMA CleanupIsLast ==
    ASSUME NEW op
    PROVE  \A s \in Steps \ {"delete", "delete tree", "delete rmtree"} :
              Phase("delete", op) > Phase(s, op)
<1>1. /\ \A s \in {"check tags", "untag", "is_symlink", "remove link", "pull",
                   "edit", "submit", "save", "download", "extract"} :
             Phase("delete", op) > Phase(s, op)
      /\ \A s \in {"copy_path", "rmtree", "copy", "copytree", "tags", "metadata",
                   "complete", "gbp.json", "publish"} :
             Phase("delete", op) > Phase(s, op)
      /\ \A s \in SetTagSteps : Phase("delete", op) > Phase(s, op)
  BY DEF Phase, SetTagSteps
<1> QED
  BY <1>1 DEF Steps, SetTagSteps

\* A job that is begun has not entered publish() yet.
LEMMA StartsUnpublished ==
    ASSUME TypeOK, NEW p \in Procs, Start(p)
    PROVE  ~job'[p].publishing
<1> DEFINE Goal == ~job'[p].publishing
           Fresh(local) == ~local.publishing
<1>1. PICK b \in BuildsUsed[p] :
         \/ PullBuild(p, b) \/ PublishBuild(p, b) \/ DeleteBuild(p, b)
         \/ PublishMutation(p, b) \/ CreateBuildTag(p, b)
         \/ RemoveBuildTag(p, b) \/ KeepBuild(p, b) \/ ReleaseBuild(p, b)
         \/ CreateNote(p, b) \/ DeleteCommand(p, b)
  BY DEF Start
<1>2. ASSUME NEW op, NEW step, NEW local, Begin(p, op, b, step, local),
             step # "idle", Fresh(local)
      PROVE  Goal
  BY <1>2, ContinueValue DEF Begin, TypeOK
<1>3. ASSUME NEW op
      PROVE  /\ Fresh(NewJob(op, b))
             /\ \A note : Fresh([NewJob(op, b) EXCEPT !.note = note])
             /\ \A tag : Fresh([NewJob(op, b) EXCEPT !.tag = tag])
             /\ \A tags : Fresh([NewJob(op, b) EXCEPT !.tags = tags])
             /\ \A note, tags :
                   Fresh([NewJob(op, b) EXCEPT !.note = note, !.tags = tags])
  BY DEF NewJob
<1> HIDE DEF Goal, Fresh
<1>4. ASSUME PullBuild(p, b) PROVE Goal
  BY <1>2, <1>3, <1>4 DEF PullBuild
<1>5. ASSUME CreateBuildTag(p, b) PROVE Goal
  BY <1>2, <1>3, <1>5 DEF CreateBuildTag
<1>6. ASSUME RemoveBuildTag(p, b) PROVE Goal
  BY <1>2, <1>3, <1>6 DEF RemoveBuildTag
<1>7. ASSUME CreateNote(p, b) PROVE Goal
  BY <1>2, <1>3, <1>7 DEF CreateNote
<1>8. ASSUME \/ PublishBuild(p, b) \/ DeleteBuild(p, b) \/ PublishMutation(p, b)
             \/ KeepBuild(p, b) \/ ReleaseBuild(p, b) \/ DeleteCommand(p, b)
      PROVE  Goal
  BY <1>2, <1>3, <1>8
     DEF PublishBuild, DeleteBuild, PublishMutation, KeepBuild, ReleaseBuild,
         DeleteCommand
<1>9. Goal
  BY <1>1, <1>4, <1>5, <1>6, <1>7, <1>8
<1> QED
  BY <1>9 DEF Goal

\* Whoever is about to enter publish() has not entered it before.
EntersOnce == \A p \in Procs : pc[p] = "publish" => ~job[p].publishing

\* It stays so: a job comes to publish() from the pull of publish_build only.
LEMMA EntersOnceNext ==
    ASSUME EntersOnce, TypeOK, [Next]_vars
    PROVE  EntersOnce'
<1>1. CASE UNCHANGED vars
  BY <1>1 DEF vars, EntersOnce
<1>2. CASE Next
  <2>1. PICK p \in Procs : Start(p) \/ Step(p) \/ Crash(p)
    BY <1>2 DEF Next
  <2>2. CASE Start(p)
    BY <2>2, StartsUnpublished, StartAsUsed DEF EntersOnce
  <2>3. CASE Step(p)
    <3>1. \A q \in Procs \ {p} : pc'[q] = pc[q] /\ job'[q] = job[q]
      BY <2>3, StepKeepsRequest
    <3>2. pc'[p] = "publish" => ~job'[p].publishing
      BY <2>3, StepEntersPublish
    <3> QED
      BY <3>1, <3>2 DEF EntersOnce
  <2>4. CASE Crash(p)
    BY <2>4, ControlValue DEF Crash, TypeOK, EntersOnce
  <2> QED
    BY <2>1, <2>2, <2>3, <2>4
<1> QED
  BY <1>1, <1>2

\* In every behaviour, a job enters publish() once at most.
LEMMA EntersOnceInvariant == Spec => []EntersOnce
<1>1. Init => EntersOnce
  BY DEF Init, EntersOnce
<1>2. EntersOnce /\ TypeOK /\ [Next]_vars => EntersOnce'
  BY EntersOnceNext
<1> QED
  BY <1>1, <1>2, TypeCorrect, PTL DEF Spec

\* A step of p leads its job on: into the next step of a loop, on to the next
\* content or tag, into a later phase, or into publish() for the first time.
LEMMA StepAdvances ==
    ASSUME TypeOK, NEW p \in Procs, Step(p),
           TagsFit(pc[p], job[p], p), pc[p] = "publish" => ~job[p].publishing
    PROVE  pc'[p] = "idle" \/ Beyond(pc'[p], job'[p], pc[p], job[p])
<1> SUFFICES ASSUME NEW j, j = job[p], NEW step, step = pc[p],
                    NEW Goal, Goal <=> \/ pc'[p] = "idle"
                                       \/ Beyond(pc'[p], job'[p], step, j)
             PROVE  Goal
  OBVIOUS
<1>1. JobsTypeOK /\ step # "idle" /\ j \in Job /\ TagsFit(step, j, p)
  BY StepKeepsRequest DEF TypeOK, JobsTypeOK
<1>2. ASSUME NEW next, NEW local, Continue(p, next, local),
             next = "idle" \/ Beyond(next, local, step, j)
      PROVE  Goal
  BY <1>1, <1>2, ContinueValue
<1> DEFINE Same(local) == local.op = j.op /\ local.publishing = j.publishing
<1>3. /\ Same(j)
      /\ \A i : LET local == [j EXCEPT !.item = i]
                IN Same(local) /\ local.tags = j.tags /\ local.item = i
      /\ \A r : Same([j EXCEPT !.record = r])
      /\ \A d : Same([j EXCEPT !.link_dest = d])
      /\ \A tags : Same([j EXCEPT !.tags = tags])
      /\ j.item \in Nat
  BY <1>1 DEF Job, Content
\* The ways to advance.
<1>4. ASSUME NEW next, NEW local, Same(local), Phase(next, j.op) > Phase(step, j.op)
      PROVE  Beyond(next, local, step, j)
  BY <1>4 DEF Beyond
<1>5. ASSUME NEW next, NEW local, Same(local), Phase(next, j.op) = Phase(step, j.op),
             local.tags \subseteq j.tags, local.tags # j.tags
      PROVE  Beyond(next, local, step, j)
  BY <1>5 DEF Beyond
<1>6. ASSUME NEW next, NEW local, Same(local), Phase(next, j.op) = Phase(step, j.op),
             local.tags = j.tags, Turn(next) > Turn(step)
      PROVE  Beyond(next, local, step, j)
  BY <1>6 DEF Beyond
<1>7. ASSUME NEW next, NEW local, Same(local), Phase(next, j.op) = Phase(step, j.op),
             local.tags = j.tags, Turn(next) = Turn(step),
             \/ local.item > j.item
             \/ local.item = j.item /\ Rank(next) > Rank(step)
      PROVE  Beyond(next, local, step, j)
  BY <1>7 DEF Beyond
<1>8. ASSUME Raise(p), step \notin {"delete", "delete tree", "delete rmtree"}
      PROVE  Goal
  <2>1. Continue(p, Handler(j), [j EXCEPT !.item = 1])
    BY <1>8 DEF Raise
  <2>2. CASE Handler(j) = "idle"
    BY <1>2, <2>1, <2>2
  <2>3. CASE Handler(j) = "delete"
    <3>1. step \in Steps
      BY <1>1 DEF JobsTypeOK
    <3>2. Phase("delete", j.op) > Phase(step, j.op)
      BY <1>8, <3>1, CleanupIsLast
    <3> QED
      BY <1>2, <1>3, <1>4, <2>1, <2>3, <3>2
  <2> QED
    BY <2>2, <2>3 DEF Handler
<1>9. ASSUME NEW next, Goto(p, next),
             \/ next = "idle"
             \/ Phase(next, j.op) > Phase(step, j.op)
             \/ /\ Phase(next, j.op) = Phase(step, j.op)
                /\ \/ Turn(next) > Turn(step)
                   \/ Turn(next) = Turn(step) /\ Rank(next) > Rank(step)
      PROVE  Goal
  <2>1. Continue(p, next, j)
    BY <1>9 DEF Goto
  <2>2. next = "idle" \/ Beyond(next, j, step, j)
    BY <1>3, <1>4, <1>6, <1>7, <1>9
  <2> QED
    BY <1>2, <2>1, <2>2
<1>10. ASSUME NEW body, NEW after, NextItem(p, body, after),
              Phase(body, j.op) = Phase(step, j.op), Turn(body) = Turn(step),
              \/ after = "idle"
              \/ Phase(after, j.op) > Phase(step, j.op)
              \/ /\ Phase(after, j.op) = Phase(step, j.op)
                 /\ Turn(after) > Turn(step)
       PROVE  Goal
  <2>1. CASE j.item < N
    <3>1. Continue(p, body, [j EXCEPT !.item = j.item + 1])
      BY <1>10, <2>1 DEF NextItem
    <3>2. j.item + 1 > j.item
      BY <1>3
    <3>3. Beyond(body, [j EXCEPT !.item = j.item + 1], step, j)
      BY <1>3, <1>7, <1>10, <3>2
    <3> QED
      BY <1>2, <3>1, <3>3
  <2>2. CASE ~(j.item < N)
    <3>1. Continue(p, after, [j EXCEPT !.item = 1])
      BY <1>10, <2>2 DEF NextItem
    <3>2. after = "idle" \/ Beyond(after, [j EXCEPT !.item = 1], step, j)
      BY <1>3, <1>4, <1>6, <1>10
    <3> QED
      BY <1>2, <3>1, <3>2
  <2> QED
    BY <2>1, <2>2
<1> HIDE DEF Same
\* The steps of pull().
<1>11. ASSUME Pull(p) PROVE Goal
  <2>1. step = "pull"
    BY <1>11 DEF Pull
  <2>2. ASSUME Goto(p, AfterPull(j)) PROVE Goal
    <3>1. j.publishing => j.op # "pull_build"
      BY <1>1 DEF TagsFit, PublishOps
    <3>2. \/ AfterPull(j) = "idle"
          \/ Phase(AfterPull(j), j.op) > Phase("pull", j.op)
      BY <3>1 DEF AfterPull, Phase, SetTagSteps
    <3> QED
      BY <1>9, <2>1, <2>2, <3>2
  <2>3. ASSUME Continue(p, "submit", [j EXCEPT !.record = RecordOf(j.build)])
        PROVE  Goal
    <3>1. Phase("submit", j.op) > Phase("pull", j.op)
      BY DEF Phase, SetTagSteps
    <3> QED
      BY <1>2, <1>3, <1>4, <2>1, <2>3, <3>1
  <2> QED
    BY <1>11, <2>2, <2>3 DEF Pull
<1>12. ASSUME Submit(p) PROVE Goal
  <2>1. step = "submit" /\ Phase("download", j.op) > Phase("submit", j.op)
    BY <1>12 DEF Submit, Phase, SetTagSteps
  <2>2. PICK r : Continue(p, "download", [j EXCEPT !.record = r])
    BY <1>12 DEF Submit
  <2> QED
    BY <1>2, <1>3, <1>4, <2>1, <2>2
<1>13. ASSUME Download(p) PROVE Goal
  <2>1. step = "download" /\ Phase("extract", j.op) > Phase("download", j.op)
    BY <1>13 DEF Download, Phase, SetTagSteps
  <2>2. \/ \E d : Continue(p, "extract", [j EXCEPT !.link_dest = d])
        \/ Raise(p)
    BY <1>13 DEF Download
  <2>3. ASSUME NEW d, Continue(p, "extract", [j EXCEPT !.link_dest = d])
        PROVE  Goal
    BY <1>2, <1>3, <1>4, <2>1, <2>3
  <2> QED
    BY <1>8, <2>1, <2>2, <2>3
<1>14. ASSUME Extract(p) PROVE Goal
  <2>1. /\ step = "extract"
        /\ Phase("tags", j.op) > Phase("extract", j.op)
        /\ Phase("copy_path", j.op) > Phase("extract", j.op)
    BY <1>14 DEF Extract, Phase, SetTagSteps
  <2> QED
    BY <1>8, <1>9, <1>14, <2>1 DEF Extract
<1>15. /\ \A s, t \in {"copy_path", "rmtree", "copy", "copytree"} :
             Phase(s, j.op) = Phase(t, j.op) /\ Turn(s) = Turn(t)
       /\ \A s \in {"copy_path", "rmtree", "copy", "copytree"} :
             Phase("tags", j.op) > Phase(s, j.op)
       /\ Rank("rmtree") > Rank("copy_path") /\ Rank("copy") > Rank("copy_path")
       /\ Rank("copy") > Rank("rmtree") /\ Rank("copytree") > Rank("copy")
  BY DEF Phase, Turn, Rank, SetTagSteps
<1>16. ASSUME CopyPath(p) PROVE Goal
  BY <1>9, <1>15, <1>16 DEF CopyPath
<1>17. ASSUME RemoveTree(p) PROVE Goal
  BY <1>8, <1>9, <1>15, <1>17 DEF RemoveTree
<1>18. ASSUME Copy(p) PROVE Goal
  BY <1>8, <1>9, <1>10, <1>15, <1>18 DEF Copy
<1>19. ASSUME CopyTree(p) PROVE Goal
  BY <1>8, <1>10, <1>15, <1>19 DEF CopyTree
<1>20. ASSUME NextTag(p) PROVE Goal
  <2>1. step = "tags"
    BY <1>20 DEF NextTag
  <2>2. ASSUME j.tags = {} PROVE Goal
    <3>1. Goto(p, "metadata")
      BY <1>20, <2>2 DEF NextTag
    <3>2. Phase("metadata", j.op) > Phase("tags", j.op)
      BY DEF Phase, SetTagSteps
    <3> QED
      BY <1>9, <2>1, <3>1, <3>2
  <2>3. ASSUME j.tags # {} PROVE Goal
    <3>1. PICK tag \in j.tags :
            Continue(p, "tag", [j EXCEPT !.tag = tag, !.tags = @ \ {tag}])
      BY <1>20, <2>3 DEF NextTag
    <3>2. SUFFICES ASSUME NEW local, local = [j EXCEPT !.tag = tag, !.tags = @ \ {tag}]
                   PROVE  Goal
      OBVIOUS
    <3>3. Same(local) /\ local.tags \subseteq j.tags /\ local.tags # j.tags
      BY <1>1, <3>1, <3>2 DEF Job, Same
    <3>4. j.op = "pull_build"
      BY <1>1, <2>1, <2>3 DEF TagsFit, PullSteps
    <3>5. Phase("tag", j.op) = Phase("tags", j.op)
      BY <3>4 DEF Phase, SetTagSteps
    <3> QED
      BY <1>2, <1>5, <2>1, <3>1, <3>2, <3>3, <3>5
  <2> QED
    BY <2>2, <2>3
<1>21. ASSUME Metadata(p) PROVE Goal
  <2>1. step = "metadata" /\ Phase("complete", j.op) > Phase("metadata", j.op)
    BY <1>21 DEF Metadata, Phase, SetTagSteps
  <2> QED
    BY <1>8, <1>9, <1>21, <2>1 DEF Metadata
<1>22. ASSUME Complete(p) PROVE Goal
  <2>1. step = "complete" /\ Phase("gbp.json", j.op) > Phase("complete", j.op)
    BY <1>22 DEF Complete, Phase, SetTagSteps
  <2> QED
    BY <1>9, <1>22, <2>1 DEF Complete
<1>23. ASSUME GbpJson(p) PROVE Goal
  <2>1. step = "gbp.json"
    BY <1>23 DEF GbpJson
  <2>2. ASSUME Goto(p, AfterPull(j)) PROVE Goal
    <3>1. j.publishing => j.op # "pull_build"
      BY <1>1 DEF TagsFit, PublishOps
    <3>2. \/ AfterPull(j) = "idle"
          \/ Phase(AfterPull(j), j.op) > Phase("gbp.json", j.op)
      BY <3>1 DEF AfterPull, Phase, SetTagSteps
    <3> QED
      BY <1>9, <2>1, <2>2, <3>2
  <2> QED
    BY <1>8, <1>23, <2>1, <2>2 DEF GbpJson
\* The steps of publish() and tag().
<1>24. ASSUME Publish(p) PROVE Goal
  <2>1. step = "publish" /\ ~j.publishing
    BY <1>24 DEF Publish
  <2>2. SUFFICES ASSUME NEW local, local = [j EXCEPT !.publishing = TRUE]
                 PROVE  Goal
    OBVIOUS
  <2>3. PICK next : Continue(p, next, local)
    BY <1>24, <2>2 DEF Publish
  <2>4. local.publishing
    BY <1>1, <2>2 DEF Job
  <2>5. Beyond(next, local, step, j)
    BY <2>1, <2>4 DEF Beyond
  <2> QED
    BY <1>2, <2>3, <2>5
<1>25. /\ \A s, t \in SetTagSteps : Phase(s, j.op) = Phase(t, j.op)
       /\ Turn("islink") > Turn("tag")
       /\ \A s, t \in {"islink", "unlink", "symlink"} : Turn(s) = Turn(t)
       /\ Rank("unlink") > Rank("islink") /\ Rank("symlink") > Rank("islink")
       /\ Rank("symlink") > Rank("unlink")
  BY DEF Phase, Turn, Rank, SetTagSteps
<1>26. ASSUME Tag(p) PROVE Goal
  <2>1. step = "tag"
    BY <1>26 DEF Tag
  <2>2. Goto(p, "islink") => Goal
    BY <1>9, <1>25, <2>1 DEF SetTagSteps
  <2> QED
    BY <1>8, <1>26, <2>1, <2>2 DEF Tag
<1>27. ASSUME IsLink(p) PROVE Goal
  <2>1. step = "islink"
    BY <1>27 DEF IsLink
  <2>2. Goto(p, "unlink") \/ Goto(p, "symlink") => Goal
    BY <1>9, <1>25, <2>1 DEF SetTagSteps
  <2> QED
    BY <1>27, <2>2 DEF IsLink
<1>28. ASSUME Unlink(p) PROVE Goal
  <2>1. step = "unlink"
    BY <1>28 DEF Unlink
  <2>2. Goto(p, "symlink") => Goal
    BY <1>9, <1>25, <2>1 DEF SetTagSteps
  <2> QED
    BY <1>8, <1>28, <2>1, <2>2 DEF Unlink
<1>29. ASSUME Symlink(p) PROVE Goal
  <2>1. step = "symlink"
    BY <1>29 DEF Symlink
  <2>2. ASSUME NextItem(p, "islink", AfterTag(j)) PROVE Goal
    <3>1. \/ AfterTag(j) = "idle"
          \/ /\ Phase(AfterTag(j), j.op) = Phase("symlink", j.op)
             /\ Turn(AfterTag(j)) > Turn("symlink")
      BY DEF AfterTag, Phase, Turn, SetTagSteps
    <3>2. /\ Phase("islink", j.op) = Phase("symlink", j.op)
          /\ Turn("islink") = Turn("symlink")
      BY <1>25 DEF SetTagSteps
    <3> QED
      BY <1>10, <2>1, <2>2, <3>1, <3>2
  <2>3. NextItem(p, "islink", AfterTag(j)) \/ Raise(p)
    BY <1>29 DEF Symlink
  <2>4. step \notin {"delete", "delete tree", "delete rmtree"}
    BY <2>1
  <2> QED
    BY <1>8, <2>2, <2>3, <2>4
\* The steps of untag(), delete() and the edits of a record.
<1>30. ASSUME CheckTags(p) PROVE Goal
  <2>1. step = "check tags"
    BY <1>30 DEF CheckTags
  <2>2. Phase("untag", j.op) > Phase("check tags", j.op)
    BY DEF Phase, SetTagSteps
  <2>3. \/ Goto(p, "idle")
        \/ Continue(p, "untag", [j EXCEPT !.tags = TagsOf(j.build)])
    BY <1>30 DEF CheckTags
  <2> QED
    BY <1>2, <1>3, <1>4, <1>9, <2>1, <2>2, <2>3
<1>31. ASSUME Untag(p) PROVE Goal
  <2>1. step = "untag"
    BY <1>31 DEF Untag
  <2>2. ASSUME j.tags = {} PROVE Goal
    <3>1. PICK next \in {"delete", "idle"} : Goto(p, next)
      BY <1>31, <2>2 DEF Untag
    <3>2. Phase("delete", j.op) > Phase("untag", j.op)
      BY DEF Phase, SetTagSteps
    <3> QED
      BY <1>9, <2>1, <3>1, <3>2
  <2>3. ASSUME j.tags # {} PROVE Goal
    <3>1. PICK tag \in j.tags, next \in {"is_symlink", "untag"} :
            Continue(p, next, [j EXCEPT !.tag = tag, !.tags = @ \ {tag}])
      BY <1>31, <2>3 DEF Untag
    <3>2. SUFFICES ASSUME NEW local, local = [j EXCEPT !.tag = tag, !.tags = @ \ {tag}]
                   PROVE  Goal
      OBVIOUS
    <3>3. Same(local) /\ local.tags \subseteq j.tags /\ local.tags # j.tags
      BY <1>1, <3>1, <3>2 DEF Job, Same
    <3>4. Phase(next, j.op) = Phase("untag", j.op)
      BY <3>1 DEF Phase, SetTagSteps
    <3> QED
      BY <1>2, <1>5, <2>1, <3>1, <3>2, <3>3, <3>4
  <2> QED
    BY <2>2, <2>3
<1>32. /\ \A s, t \in {"untag", "is_symlink", "remove link"} :
             Phase(s, j.op) = Phase(t, j.op)
       /\ Turn("is_symlink") = Turn("remove link")
       /\ Turn("untag") > Turn("is_symlink")
       /\ Rank("remove link") > Rank("is_symlink")
  BY DEF Phase, Turn, Rank, SetTagSteps
<1>33. ASSUME IsSymlink(p) PROVE Goal
  BY <1>9, <1>10, <1>32, <1>33 DEF IsSymlink
<1>34. ASSUME RemoveLink(p) PROVE Goal
  BY <1>8, <1>10, <1>32, <1>34 DEF RemoveLink
<1>35. /\ Phase("delete tree", j.op) > Phase("delete", j.op)
       /\ Phase("delete tree", j.op) = Phase("delete rmtree", j.op)
       /\ Turn("delete tree") = Turn("delete rmtree")
       /\ Rank("delete rmtree") > Rank("delete tree")
       /\ Phase("save", j.op) > Phase("edit", j.op)
  BY DEF Phase, Turn, Rank, SetTagSteps
<1>36. ASSUME Delete(p) PROVE Goal
  BY <1>9, <1>35, <1>36 DEF Delete
<1>37. ASSUME DeleteTree(p) \/ DeleteRmtree(p) PROVE Goal
  BY <1>9, <1>10, <1>35, <1>37 DEF DeleteTree, DeleteRmtree
<1>38. ASSUME Edit(p) PROVE Goal
  <2>1. \/ Goto(p, "idle")
        \/ \E r : Continue(p, "save", [j EXCEPT !.record = r])
    BY <1>38 DEF Edit
  <2>2. step = "edit"
    BY <1>38 DEF Edit
  <2> QED
    BY <1>2, <1>3, <1>4, <1>9, <1>35, <2>1, <2>2
<1>39. ASSUME Save(p) PROVE Goal
  BY <1>9, <1>39 DEF Save
<1> QED
  BY <1>11, <1>12, <1>13, <1>14, <1>16, <1>17, <1>18, <1>19, <1>20, <1>21,
     <1>22, <1>23, <1>24, <1>26, <1>27, <1>28, <1>29, <1>30, <1>31, <1>33,
     <1>34, <1>36, <1>37, <1>38, <1>39 DEF Step

\* Whatever the other processes do, and however many of them die: a request
\* never comes back to a step that it has done, and so it takes no more steps
\* than the contents and its tags, of which there are finitely many, allow.
THEOREM RequestsAdvance == Spec => NoStepBack
<1>1. TypeOK /\ RequestInv /\ EntersOnce /\ [Next]_vars =>
        [\A p \in Procs : Step(p) =>
            pc'[p] = "idle" \/ Beyond(pc'[p], job'[p], pc[p], job[p])]_vars
  <2>1. ASSUME TypeOK, RequestInv, EntersOnce, NEW p \in Procs, Step(p)
        PROVE  pc'[p] = "idle" \/ Beyond(pc'[p], job'[p], pc[p], job[p])
    <3>1. pc[p] # "idle"
      BY <2>1, StepKeepsRequest
    <3> QED
      BY <2>1, <3>1, StepAdvances DEF RequestInv, EntersOnce
  <2> QED
    BY <2>1
<1> QED
  BY <1>1, TypeCorrect, RequestInvariant, EntersOnceInvariant, PTL
     DEF Spec, NoStepBack
=============================================================================
