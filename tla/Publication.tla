----------------------------- MODULE Publication -----------------------------
(***************************************************************************)
(* What tags, and the tag "" that publishes a build, promise although a    *)
(* tag is one symlink per content type and no two of them change together. *)
(* TagInv says how far the links of a tag have got at each step of the     *)
(* process that sets or removes them; PublicationInv, that whatever the    *)
(* links of "" name, or are about to name, is a completed build.           *)
(* NoStepBack is about how requests get on with that and all else.         *)
(***************************************************************************)
EXTENDS Consistency

(***************************************************************************)
(* Tags settle                                                             *)
(***************************************************************************)

\* Nobody dies, and no two processes are at the links of the same tag.
TagsApart ==
    /\ crashes = 0
    /\ \A p, q \in Procs : /\ pc[p] \in TagSteps /\ pc[q] \in TagSteps
                           /\ job[p].tag = job[q].tag
                           => p = q

\* The operations that publish, which is to set the tag "".
PublishOps == {"publish", "publish_build"}

\* The tags that an operation of p sets or removes: those of the request, ""
\* to publish, and for the delete command every tag that its build has.
TagsGiven(op, p) ==
    CASE op \in {"pull_build", "createBuildTag", "removeBuildTag"} -> TagsUsed[p]
      [] op \in PublishOps -> {""}
      [] op \in Commands   -> Tags
      [] OTHER             -> {}

MayTag(p) == UNION {TagsGiven(op, p) : op \in Ops[p]}

\* A deployment that keeps tags apart: no tag is up to two processes.
OwnTags ==
    /\ MaxCrashes = 0
    /\ \A p, q \in Procs : p # q => MayTag(p) \cap MayTag(q) = {}

\* Job j of p sets and removes only tags that it has been given: publish()
\* sets "", and all others come from the request or from the delete command.
TagsFit(step, j, p) ==
    /\ j.op \in Ops[p] /\ j.tags \subseteq TagsGiven(j.op, p)
    /\ j.op \in PublishOps => j.tag = "" /\ j.tags = {}
    /\ step = "publish" \/ j.publishing => j.op \in PublishOps
    /\ step = "check tags" => j.op \in Commands
    /\ step \in PullSteps => j.op \in {"pull_build"} \cup PublishOps
    /\ step \in SetTagSteps =>
          /\ j.op \in {"pull_build", "createBuildTag"} \cup PublishOps
          /\ j.op = "publish_build" => j.publishing
          /\ j.tag \in TagsGiven(j.op, p)
    /\ step \in {"is_symlink", "remove link"} => j.tag \in TagsGiven(j.op, p)

RequestInv == \A p \in Procs : pc[p] # "idle" => TagsFit(pc[p], job[p], p)

\* The links of a tag while job j, which sets or removes it, is at a step:
\* done before item, as they were after it.
LinkShape(step, j, target) ==
    \E old \in Builds \cup {Nil} :
        /\ Split(target, j.item, IF step \in SetTagSteps THEN j.build ELSE Nil, old)
        /\ step # "symlink" => target[j.item] = old
        /\ step = "symlink" => target[j.item] = Nil
        /\ step \in {"unlink", "remove link"} => old # Nil

\* The inductive invariant for TagsSettle.
TagInv ==
    /\ TypeOK
    /\ TagsSettle
    /\ \A p \in Procs :
          /\ pc[p] \in TagSteps =>
                LinkShape(pc[p], job[p], links[job[p].tag])
          /\ pc[p] \notin LoopSteps \cup {"idle"} => job[p].item = 1

(***************************************************************************)
(* Published builds are complete                                           *)
(***************************************************************************)

\* q is setting the links of the tag "" to build b.
Publishing(q, b) ==
    pc[q] \in SetTagSteps /\ job[q].tag = "" /\ job[q].build = b

\* The tag "" is set by publishing only, and a completed build is not
\* deleted while a link of "" names it or will name it.
PublishedIsKept ==
    /\ \A p \in Procs : pc[p] \in SetTagSteps /\ job[p].tag = "" =>
          job[p].op \in PublishOps
    /\ \A p \in Procs : pc[p] = "delete" /\ Completed(job[p].build) =>
          /\ \A c \in Content : links[""][c] # job[p].build
          /\ \A q \in Procs : ~Publishing(q, job[p].build)

\* A deployment of that kind: builds are pulled, published and edited but not
\* deleted, nobody tags a build as "", and gbp.json, which is written after
\* the record is completed, can always be written.
NeverWithdraws ==
    /\ WritersApart
    /\ "gbp.json" \notin Faults
    /\ \A p \in Procs :
          /\ Ops[p] \cap (Commands \cup {"delete_build"}) = {}
          /\ Ops[p] \cap {"pull_build", "createBuildTag"} # {} =>
                "" \notin TagsUsed[p]

\* The builds that such a deployment deletes: those whose pull has failed.
OnlyFailuresDeleted ==
    \A p \in Procs : pc[p] = "delete" => ~Completed(job[p].build)

\* With Inv, the inductive invariant for PublishedIsComplete.
PublicationInv ==
    \A b \in Builds :
        \/ Completed(b)
        \/ /\ \A c \in Content : links[""][c] # b
           /\ \A q \in Procs : ~Publishing(q, b)

(***************************************************************************)
(* Requests advance                                                        *)
(***************************************************************************)

\* The phases of a request, in the order in which it goes through them: what
\* pull_build tags, it tags before the build is complete.
Phase(step, op) ==
    CASE step = "check tags" -> 0
      [] step \in {"untag", "is_symlink", "remove link"} -> 1
      [] step \in {"pull", "edit"} -> 2
      [] step \in {"submit", "save"} -> 3
      [] step = "download" -> 4
      [] step = "extract" -> 5
      [] step \in {"copy_path", "rmtree", "copy", "copytree"} -> 6
      [] step = "tags" \/ (step \in SetTagSteps /\ op = "pull_build") -> 7
      [] step = "metadata" -> 8
      [] step = "complete" -> 9
      [] step = "gbp.json" -> 10
      [] step = "publish" -> 11
      [] step \in SetTagSteps /\ op # "pull_build" -> 12
      [] step = "delete" -> 13
      [] step \in {"delete tree", "delete rmtree"} -> 14

\* For each tag, what comes before its loop over the contents, and after it.
Turn(step) == CASE step = "tag" -> 0 [] step \in {"tags", "untag"} -> 2 [] OTHER -> 1

\* The steps within a loop over the contents.
Rank(step) ==
    CASE step \in {"rmtree", "unlink", "remove link", "delete rmtree"} -> 1
      [] step \in {"copy", "symlink"} -> 2
      [] step = "copytree" -> 3
      [] OTHER -> 0

\* Local state j at a step is beyond local state i at another one: what counts
\* first is whether publish() was entered, then the phase, the tags that are
\* left to be done, and how far the loop over the contents is.
Beyond(step, j, other, i) ==
    \/ j.publishing /\ ~i.publishing
    \/ /\ j.publishing = i.publishing
       /\ \/ Phase(step, j.op) > Phase(other, i.op)
          \/ /\ Phase(step, j.op) = Phase(other, i.op)
             /\ \/ j.tags \subseteq i.tags /\ j.tags # i.tags
                \/ j.tags = i.tags /\ Turn(step) > Turn(other)
                \/ /\ j.tags = i.tags /\ Turn(step) = Turn(other)
                   /\ \/ j.item > i.item
                      \/ j.item = i.item /\ Rank(step) > Rank(other)

\* A request never comes back to a step that it has done, whatever the other
\* processes do: nothing is tried again, and no loop starts over.
NoStepBack ==
    [][\A p \in Procs : Step(p) =>
            pc'[p] = "idle" \/ Beyond(pc'[p], job'[p], pc[p], job[p])]_vars
=============================================================================
