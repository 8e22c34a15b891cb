---------------------------- MODULE SearchIndex ----------------------------
(***************************************************************************)
(* The index of search-svc (services/search-svc/search/index.py, management/ *)
(* commands/consume.py): a copy of the profiles of user-svc, which are made   *)
(* on the first request of a user (users/provisioning.py) and told best      *)
(* effort, and of the posts of post-svc, which its outbox tells.             *)
(***************************************************************************)
EXTENDS Naturals, Sequences

CONSTANTS
    Users, Posts,
    MaxActs     \* bound: what is asked of the services

VARIABLES catalog, index

Names == {"none", "first", "second"}
Topics == {"user.created", "post.created", "post.deleted"}

\* provisioning: the profile is made and not yet told.  lost, and crossed
\* (posts deleted before the index had heard of them), are history.
TypeOK ==
    /\ catalog \in [
        name : [Users -> Names], provisioning : SUBSET Users,
        live : SUBSET Posts, used : SUBSET Posts, bus : [Topics -> Seq(Users \union Posts)],
        lost : SUBSET (Users \union Posts), crossed : SUBSET Posts, acts : 0..MaxActs]
    /\ index \in [name : [Users -> Names], posts : SUBSET Posts]

Nobody == [u \in Users |-> "none"]

Init ==
    /\ catalog = [name |-> Nobody, provisioning |-> {}, live |-> {}, used |-> {},
                  bus |-> [t \in Topics |-> <<>>], lost |-> {}, crossed |-> {}, acts |-> 0]
    /\ index = [name |-> Nobody, posts |-> {}]

Act == catalog.acts < MaxActs
Acted == [catalog EXCEPT !.acts = @ + 1]
Emit(c, topic, what) == [c EXCEPT !.bus[topic] = Append(@, what)]
-----------------------------------------------------------------------------
\* get_or_create_profile: of several first requests one makes the profile.
Provision(u) ==
    /\ Act /\ catalog.name[u] = "none"
    /\ catalog' = [Acted EXCEPT !.name[u] = "first", !.provisioning = @ \union {u}]
    /\ UNCHANGED index

PublishUser(u) ==
    /\ u \in catalog.provisioning
    /\ LET told == [catalog EXCEPT !.provisioning = @ \ {u}] IN
       catalog' \in {Emit(told, "user.created", u), [told EXCEPT !.lost = @ \union {u}]}
    /\ UNCHANGED index

\* Me.patch tells nobody.
Rename(u) ==
    /\ Act /\ catalog.name[u] = "first"
    /\ catalog' = [Acted EXCEPT !.name[u] = "second"]
    /\ UNCHANGED index

\* A post and its event are written together (Outbox).
CreatePost(p) ==
    /\ Act /\ p \notin catalog.used
    /\ catalog' = Emit([Acted EXCEPT !.live = @ \union {p}, !.used = @ \union {p}],
                       "post.created", p)
    /\ UNCHANGED index

DeletePost(p) ==
    /\ Act /\ p \in catalog.live
    /\ LET unheard == \E i \in DOMAIN catalog.bus["post.created"] :
                         catalog.bus["post.created"][i] = p
           gone == [Acted EXCEPT !.live = @ \ {p},
                      !.crossed = IF unheard THEN @ \union {p} ELSE @] IN
       catalog' = Emit(gone, "post.deleted", p)
    /\ UNCHANGED index

\* Mutant: post.deleted is not handled.
IndexedForGood(topic, what) ==
    CASE topic = "user.created" -> [index EXCEPT !.name[what] = "first"]
      [] topic = "post.created" -> [index EXCEPT !.posts = @ \union {what}]
      [] topic = "post.deleted" -> index

\* _dispatch: index_user, index_post, remove_post, each by id, so that it may
\* be repeated; the event of a user carries the first name.
Indexed(topic, what) ==
    CASE topic = "user.created" -> [index EXCEPT !.name[what] = "first"]
      [] topic = "post.created" -> [index EXCEPT !.posts = @ \union {what}]
      [] topic = "post.deleted" -> [index EXCEPT !.posts = @ \ {what}]

Consume(topic) ==
    /\ catalog.bus[topic] # <<>>
    /\ index' = Indexed(topic, Head(catalog.bus[topic]))
    /\ catalog' \in {catalog, [catalog EXCEPT !.bus[topic] = Tail(@)]}

\* The index is out of reach three times, the event is parked.
Park(topic) ==
    /\ catalog.bus[topic] # <<>>
    /\ catalog' = [catalog EXCEPT !.bus[topic] = Tail(@),
                     !.lost = @ \union {Head(catalog.bus[topic])}]
    /\ UNCHANGED index
-----------------------------------------------------------------------------
Next ==
    \/ \E u \in Users : Provision(u) \/ PublishUser(u) \/ Rename(u)
    \/ \E p \in Posts : CreatePost(p) \/ DeletePost(p)
    \/ \E topic \in Topics : Consume(topic) \/ Park(topic)

Spec == Init /\ [][Next]_<<catalog, index>>
-----------------------------------------------------------------------------
\* When all news has come, the index has the posts that live, but for posts
\* whose news was lost or that were deleted before it had heard of them; and
\* users are found by their name, but for those who were renamed since.
IndexAgrees ==
    catalog.provisioning = {} /\ (\A t \in Topics : catalog.bus[t] = <<>>) =>
        /\ \A p \in Posts \ (catalog.lost \union catalog.crossed) :
              p \in index.posts <=> p \in catalog.live
        /\ \A u \in Users \ catalog.lost :
              catalog.name[u] # "second" => index.name[u] = catalog.name[u]
=============================================================================
