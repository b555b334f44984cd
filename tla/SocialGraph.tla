------------------------------ MODULE SocialGraph ------------------------------
(***************************************************************************)
(* The social graph of yma-social (MemorySocialGraphStore).  Followers,    *)
(* blocks and users are behind a tokio RwLock each, and every lock is      *)
(* given back before the next one is asked for: follow looks at the blocks *)
(* and then writes the followers, block writes the followers twice and     *)
(* then the blocks.  Each critical section is an action of its own.        *)
(***************************************************************************)
EXTENDS Naturals, Sequences, SequencesExt, FiniteSets, FiniteSetsExt, Lists

CONSTANTS
  SocialUsers,
  SocialCalls,            (* the tasks that call the store concurrently    *)
  MaxPageSize             (* bound on the page sizes the views are read at *)

ASSUME SocialBounds == IsFiniteSet(SocialUsers) /\ MaxPageSize \in Nat

VARIABLES
  followers,              (* followers[u]: whom u follows                  *)
  blocks,                 (* blocks[u]: whom u blocks                      *)
  users,                  (* the registered users                          *)
  socialCall,             (* socialCall[c]: the call c is in the middle of *)
  crossed                 (* history: <<u, t>> when u's follow of t and    *)
                          (* t's block of u were under way together        *)

socialVars == <<followers, blocks, users, socialCall, crossed>>

NoSocialCall == [at |-> "none"]
SocialCall == [at : {"following", "unfollowing", "blocking"},
               user : SocialUsers, target : SocialUsers]

SocialInit ==
  /\ followers = [u \in SocialUsers |-> {}]
  /\ blocks = [u \in SocialUsers |-> {}]
  /\ users = {}
  /\ socialCall = [c \in SocialCalls |-> NoSocialCall]
  /\ crossed = {}

RegisterUser(u) ==
  /\ users' = users \cup {u}
  /\ UNCHANGED <<followers, blocks, socialCall, crossed>>

-----------------------------------------------------------------------------
Blocking(u, t) == \E c \in SocialCalls :
  socialCall[c] \in [at : {"unfollowing", "blocking"}, user : {u}, target : {t}]

Following(u, t) == \E c \in SocialCalls :
  socialCall[c] = [at |-> "following", user |-> u, target |-> t]

(***************************************************************************)
(* follow: u is told of t's block, or goes on to write.  Whom u blocks is  *)
(* not looked at.                                                          *)
(***************************************************************************)
MayFollow(u, t) == u # t /\ u \notin blocks[t]

FollowBegin(c, u, t) ==
  /\ socialCall[c] = NoSocialCall
  /\ MayFollow(u, t)
  /\ socialCall' = [socialCall EXCEPT ![c] =
                      [at |-> "following", user |-> u, target |-> t]]
  /\ crossed' = IF Blocking(t, u) THEN crossed \cup {<<u, t>>} ELSE crossed
  /\ UNCHANGED <<followers, blocks, users>>

FollowFinish(c) ==
  /\ socialCall[c].at = "following"
  /\ followers' = [followers EXCEPT ![socialCall[c].user] =
                                      @ \cup {socialCall[c].target}]
  /\ socialCall' = [socialCall EXCEPT ![c] = NoSocialCall]
  /\ UNCHANGED <<blocks, users, crossed>>

Without(u, t) == [followers EXCEPT ![u] = @ \ {t}]

Unfollow(c, u, t) ==
  /\ socialCall[c] = NoSocialCall
  /\ followers' = Without(u, t)
  /\ UNCHANGED <<blocks, users, socialCall, crossed>>

(***************************************************************************)
(* block: u stops following t, t stops following u, then the block.        *)
(***************************************************************************)
BlockBegin(c, u, t) ==
  /\ socialCall[c] = NoSocialCall
  /\ u # t
  /\ followers' = Without(u, t)
  /\ socialCall' = [socialCall EXCEPT ![c] =
                      [at |-> "unfollowing", user |-> u, target |-> t]]
  /\ crossed' = IF Following(t, u) THEN crossed \cup {<<t, u>>} ELSE crossed
  /\ UNCHANGED <<blocks, users>>

\* Mutant of BlockUnfollowed: the blocked user goes on following.
BlockUnfollowedOneWay(c) ==
  /\ socialCall[c].at = "unfollowing"
  /\ followers' = Without(socialCall[c].user, socialCall[c].target)
  /\ socialCall' = [socialCall EXCEPT ![c].at = "blocking"]
  /\ UNCHANGED <<blocks, users, crossed>>

BlockUnfollowed(c) ==
  /\ socialCall[c].at = "unfollowing"
  /\ followers' = Without(socialCall[c].target, socialCall[c].user)
  /\ socialCall' = [socialCall EXCEPT ![c].at = "blocking"]
  /\ UNCHANGED <<blocks, users, crossed>>

BlockFinish(c) ==
  /\ socialCall[c].at = "blocking"
  /\ blocks' = [blocks EXCEPT ![socialCall[c].user] =
                                @ \cup {socialCall[c].target}]
  /\ socialCall' = [socialCall EXCEPT ![c] = NoSocialCall]
  /\ UNCHANGED <<followers, users, crossed>>

Unblock(c, u, t) ==
  /\ socialCall[c] = NoSocialCall
  /\ blocks' = [blocks EXCEPT ![u] = @ \ {t}]
  /\ UNCHANGED <<followers, users, socialCall, crossed>>

SocialNext ==
  \/ \E u \in SocialUsers : RegisterUser(u)
  \/ \E c \in SocialCalls :
       \/ FollowFinish(c)
       \/ BlockUnfollowed(c)
       \/ BlockFinish(c)
       \/ \E u, t \in SocialUsers : \/ FollowBegin(c, u, t)
                                    \/ Unfollow(c, u, t)
                                    \/ BlockBegin(c, u, t)
                                    \/ Unblock(c, u, t)

SocialSpec == SocialInit /\ [][SocialNext]_socialVars

-----------------------------------------------------------------------------
(***************************************************************************)
(* What the store answers.  get_relation reads the blocks and then the     *)
(* followers; here both are read in one state.                             *)
(***************************************************************************)
Relation(u, t) ==
  IF t \in blocks[u] THEN "Block"
  ELSE IF u \in blocks[t] THEN "BlockedBy"
  ELSE CASE t \in followers[u] /\ u \in followers[t] -> "Friend"
         [] t \in followers[u] /\ u \notin followers[t] -> "Follow"
         [] t \notin followers[u] /\ u \in followers[t] -> "FollowedBy"
         [] OTHER -> "None"

PageNumber(page) == IF page = 0 THEN 1 ELSE page

\* A page of the ids, in the order the hash table yields them; the users who
\* are not registered are left out of the page, not of the count.
PageOf(ids, page, size) ==
  LET first == (PageNumber(page) - 1) * size
      last  == Min({first + size, Len(ids)})
      taken == SubSeq(ids, first + 1, last)
  IN  Retain(taken, {i \in DOMAIN taken : taken[i] \in users})

GetFollowing(u, page, size) == PageOf(SetToSeq(followers[u]), page, size)

FollowersOf(u) == {f \in SocialUsers : u \in followers[f]}

GetFollowers(u, page, size) == PageOf(SetToSeq(FollowersOf(u)), page, size)

GetFriends(u) == {t \in followers[u] \cap users : u \in followers[t]}

FollowingCount(u) == Cardinality(followers[u])

FollowersCount(u) == Cardinality(FollowersOf(u))

-----------------------------------------------------------------------------
SocialTypeOK ==
  /\ followers \in [SocialUsers -> SUBSET SocialUsers]
  /\ blocks \in [SocialUsers -> SUBSET SocialUsers]
  /\ users \subseteq SocialUsers
  /\ socialCall \in [SocialCalls -> SocialCall \cup {NoSocialCall}]
  /\ crossed \subseteq SocialUsers \X SocialUsers

\* A user who is blocked does not follow the one who blocks: only a follow
\* that ran at the same time as the block can leave the two standing together.
BlockSeversFollowing ==
  \A u, t \in SocialUsers :
    t \in followers[u] /\ u \in blocks[t] => <<u, t>> \in crossed

(***************************************************************************)
(* What the proof in ServiceProofs needs besides: a follow and a block of  *)
(* the same pair that are under way together are noted as crossed.         *)
(***************************************************************************)
UnderWay(c, at, u, t) == socialCall[c] = [at |-> at, user |-> u, target |-> t]

FollowsChecked ==
  \A c \in SocialCalls, u, t \in SocialUsers :
    UnderWay(c, "following", u, t) /\ u \in blocks[t] => <<u, t>> \in crossed

BlocksSever ==
  \A c \in SocialCalls, u, t \in SocialUsers :
    UnderWay(c, "blocking", t, u) /\ t \in followers[u] => <<u, t>> \in crossed

CrossingsNoted ==
  \A u, t \in SocialUsers : Following(u, t) /\ Blocking(t, u) => <<u, t>> \in crossed

SocialInv ==
  /\ SocialTypeOK
  /\ BlockSeversFollowing
  /\ FollowsChecked
  /\ BlocksSever
  /\ CrossingsNoted

\* The pages hold these users, and each of them once.
EachOnce(pages, shown) ==
  /\ UNION {ToSet(pages[p]) : p \in DOMAIN pages} = shown
  /\ \A p, q \in DOMAIN pages :
       \A i \in DOMAIN pages[p], j \in DOMAIN pages[q] :
         pages[p][i] = pages[q][j] => p = q /\ i = j

\* The two ends of a relation tell the same story, and the lists agree with
\* the counts: the pages of a list, as many as the count needs, hold the
\* registered users and each of them once, and every friend is on both lists.
SocialViewsAgree ==
  \A u, t \in SocialUsers :
    /\ Relation(u, t) = "Friend" <=> Relation(t, u) = "Friend"
    /\ Relation(u, t) = "Follow" <=> Relation(t, u) = "FollowedBy"
    /\ Relation(u, t) = "BlockedBy" => Relation(t, u) = "Block"
    /\ \A size \in 1..MaxPageSize :
         LET pages == [p \in 1..FollowersCount(u) |-> GetFollowers(u, p, size)]
         IN  /\ EachOnce(pages, FollowersOf(u) \cap users)
             /\ GetFollowers(u, 0, size) = GetFollowers(u, 1, size)
    /\ t \in GetFriends(u) => t \in ToSet(GetFollowing(u, 1, FollowingCount(u)))
=============================================================================
