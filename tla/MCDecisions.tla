---------------------------- MODULE MCDecisions ----------------------------
(***************************************************************************)
(* Inputs of Decisions for TLC.                                            *)
(***************************************************************************)
EXTENDS Decisions, TLC
LOCAL INSTANCE FiniteSetsExt

(* Up to three pull requests.  The second or the third may have the head of another
   one, and the first a branch of the name of the main branch, as a fork may; a parent
   may be declared that is not open, 4. *)
PullRequests(n) ==
  [number : {n}, head : {"a", CASE n = 1 -> "main" [] n = 2 -> "b" [] OTHER -> "c"},
   base : {"main", "a", "b", "c"}, parent : {NoParent, 1, 2, 3, 4} \ {n}]
MCOpenSets ==
  {{p} : p \in PullRequests(1)} \union {{p, q} : p \in PullRequests(1), q \in PullRequests(2)}
    \union {{p, q, r} : p \in PullRequests(1), q \in PullRequests(2), r \in PullRequests(3)}

-----------------------------------------------------------------------------
(* Files of up to three lines, so that the last line of two may or may not end.  One
   hunk of up to two lines, anywhere, with a header that may be wrong; or two hunks of
   which the second has at most one line. *)
Text == {Blank, "x"}
Files == UNION {[1..n -> Text] : n \in 1..3}
UpTo(n) == UNION {[1..k -> HunkLine(Text)] : k \in 0..n}
Header(lines, start) == [start |-> start, old |-> Len(Old([lines |-> lines])),
                         new |-> Len(New([lines |-> lines])), lines |-> lines]
Long == {Header(lines, start) : lines \in UpTo(2), start \in 0..4}
Short == {Header(lines, start) : lines \in UpTo(1), start \in 0..4}
Wrong == {[h EXCEPT !.old = @ + 1] : h \in Short}
MCPatches ==
  [file : Files, hunks : {<<>>} \union {<<h>> : h \in Long \union Wrong}
                            \union {<<h, k>> : h \in Long, k \in Short}]
MCInlines ==
  [file : Files, first : 0..4, last : 1..4, fence : UNION {[1..k -> Text] : k \in 0..2}]

-----------------------------------------------------------------------------
(* The read set of a pull request that is ready, changed in one respect at a time:
   its flags, its checks, its reviews, its comments. *)
Good ==
  [draft |-> FALSE, mergeable |-> "yes", current |-> TRUE, mergeState |-> "clean",
   protection |-> [contexts |-> {}, checks |-> <<>>, approvals |-> 0, lastPush |-> FALSE,
                   codeOwners |-> FALSE],
   statuses |-> {}, runs |-> {}, reviews |-> {}, comments |-> {}]
Easy == [checks |-> {}, actors |-> {"bot"}, approval |-> FALSE, current |-> TRUE]
Set(data, policy, eligible) == [data |-> data, policy |-> policy, eligible |-> eligible]

Flags ==
  {Set([Good EXCEPT !.draft = draft, !.mergeable = mergeable, !.current = current,
                    !.mergeState = state, !.protection.codeOwners = owners],
       [Easy EXCEPT !.current = strict], {}) :
     draft, current, strict, owners \in BOOLEAN, mergeable \in {"yes", "no", "unknown"},
     state \in {"clean", "blocked", "none"}}

Statuses == [id : {1, 2}, name : {"build"}, state : {"success", "failure", "pending"}]
Runs == [id : {3, 4}, name : {"build"}, app : {1, 2}, status : {"completed"},
         conclusion : {"success", "failure", "skipped"}]
          \union [id : {3, 4}, name : {"build"}, app : {1}, status : {"in_progress"},
                  conclusion : {"none"}]
DifferentIds(items) == \A x, y \in items : x.id = y.id => x = y
SomeOf(items) == {s \in {{}} \union {{x, y} : x, y \in items} : DifferentIds(s)}
Checks ==
  {Set([Good EXCEPT !.statuses = statuses, !.runs = runs, !.protection.checks = checks,
                    !.protection.contexts = contexts],
       [Easy EXCEPT !.checks = policy], {}) :
     statuses \in SomeOf(Statuses), runs \in SomeOf(Runs),
     checks \in {<<>>, <<[name |-> "build", app |-> NoApp]>>, <<[name |-> "build", app |-> 1]>>,
                 <<[name |-> "build", app |-> 2], [name |-> "build", app |-> 1]>>},
     contexts \in {{}, {"build"}}, policy \in {{}, {"build"}, {"lint"}}}

Review(id, user) == [id : {id}, user : {user}, at : {1, 2}, body : BOOLEAN,
                     state : {"APPROVED", "CHANGES_REQUESTED", "DISMISSED", "COMMENTED"},
                     commit : {"none", "head", "old"}]
Reviews ==
  {Set([Good EXCEPT !.reviews = {r, s}, !.protection.approvals = approvals,
                    !.protection.lastPush = last],
       [Easy EXCEPT !.approval = approval], {}) :
     r \in Review(1, "bot"), s \in Review(2, "bot") \union Review(2, "bob"),
     approvals \in 0..2, last \in BOOLEAN, approval \in BOOLEAN}

Comments ==
  {Set([Good EXCEPT !.comments = {[id |-> 1, user |-> user], [id |-> 2, user |-> other]}],
       Easy, eligible) :
     user, other \in {"bot", "bob"}, eligible \in SUBSET {<<"comment", 1>>, <<"comment", 2>>}}

MCReadSets == {Flags, Checks, Reviews, Comments}

-----------------------------------------------------------------------------
(* "a" and "secret" exist; "b" and the ignored "out" may be made.  One or two patches,
   with headers as declared or not, and with up to two files changed by each. *)
File(mode, text) == [mode |-> mode, text |-> text]
HeadTree == [p \in {"a", "b", "secret", "out"} |->
               IF p \in {"a", "secret"} THEN File("100644", IF p = "a" THEN 1 ELSE 2) ELSE Absent]
OneChange ==
  {"a" :> f : f \in {File("100644", 3), File("100755", 3), File("120000", 3), Absent}}
    \union {"b" :> f : f \in {File("100644", 0), File("100644", 1), File("100755", 0)}}
    \union {"secret" :> f : f \in {File("100755", 2), Absent}}
    \union {"out" :> File("100644", 0)}
PatchOf == [path : {"a", "b", "secret"}, headers : {<<"a">>, <<"b">>, <<"a", "secret">>, <<>>},
            changes : OneChange \union {c @@ d : c, d \in OneChange}]
Fitting == {p \in PatchOf : p.path \in DOMAIN p.changes}
MCRepairs ==
  [head : {HeadTree}, ignored : {{"out"}}, allowed : {{"a", "b"}, {"a"}},
   patches : {<<>>} \union {<<p>> : p \in PatchOf} \union
             {<<p, q>> : p, q \in {f \in Fitting : f.headers = <<f.path>>}},
   valid : BOOLEAN]

=============================================================================
