---------------------------- MODULE UserActivity ----------------------------
(***************************************************************************)
(* One user's generation rows as the web client pages, rates and downloads *)
(* them (App.vue, routes/api.py, services/mysql_service.py).               *)
(*                                                                         *)
(* The handlers run on the event loop without awaiting, each in one step.  *)
(* What interleaves is the client: a tab asks, the server answers, the tab *)
(* shows the answer, and other tabs act in between.                        *)
(***************************************************************************)
EXTENDS Naturals, Sequences, FiniteSets

CONSTANTS
  Tabs,        \* browser tabs of the user
  MaxOld,      \* bound on rows of earlier versions
  MaxRow,      \* bound on rows of generation_logs
  Page,        \* history_limit
  MaxShown,    \* bound on the rows a tab has loaded before it asks for more
  Retries,     \* max_retries of execute_query
  MaxClicks,   \* bound on ratings and downloads
  MaxFailures, \* bound on failed or unacknowledged statements
  MaxRestarts  \* bound on restarts of the process

ASSUME UserActivityAssumption ==
  /\ MaxRow \in Nat /\ MaxOld \in 0..MaxRow /\ MaxShown \in Nat
  /\ Page \in Nat \ {0} /\ Retries \in Nat
  /\ MaxClicks \in Nat /\ MaxFailures \in Nat /\ MaxRestarts \in Nat

VARIABLES
  rows,     \* the user's rows of generation_logs, in the order of timestamp
  view,     \* history and historyHasMore of each tab
  load,     \* loadHistory in flight
  product,  \* generateContent, result and userRating of each tab
  mark,     \* rateImage or downloadImage in flight
  clicks,   \* observer: ratings and downloads sent
  failures, \* failed or unacknowledged statements so far
  restarts  \* restarts so far

activityVars == <<rows, view, load, product, mark, clicks, failures, restarts>>

(* A row: whether its prompt is the bare name of the cultural source (the    *)
(* legacy endpoint) or "type: name" (V2, agent), and whether the reader      *)
(* skips it as malformed.                                                    *)
Row == [prompt : {"name", "type:name"}, malformed : BOOLEAN, rating : BOOLEAN, downloads : Nat]
NewRow(prompt) == [prompt |-> prompt, malformed |-> FALSE, rating |-> FALSE, downloads |-> 0]

(* The rows shown, as a set and with their number, repeated ones included.   *)
(* `mysql`, `counted` and `known` are observers: every row shown came from   *)
(* MySQL, the last page came with a count, and the first page was read when  *)
(* there were so many rows.                                                  *)
NoView == [shown |-> {}, size |-> 0, more |-> FALSE, loaded |-> FALSE,
           mysql |-> TRUE, counted |-> TRUE, known |-> 0]
NoLoad == [at |-> "idle", append |-> FALSE, offset |-> 0, rows |-> {}, more |-> FALSE,
           mysql |-> TRUE, counted |-> TRUE, known |-> 0]
NoProduct == [at |-> "idle", made |-> 0, result |-> 0, rated |-> FALSE]

ActivityInit ==
  /\ \E n \in 0..MaxOld :
       rows \in [1..n -> {[NewRow("name") EXCEPT !.malformed = m] : m \in BOOLEAN}]
  /\ view = [t \in Tabs |-> NoView]
  /\ load = [t \in Tabs |-> NoLoad]
  /\ product = [t \in Tabs |-> NoProduct]
  /\ mark = [t \in Tabs |-> "none"]
  /\ clicks = 0 /\ failures = 0 /\ restarts = 0

---------------------------------------------------------------------------
(* History *)

\* loadHistory: refused while one is in flight; the offset is the number of rows shown.
Ask(t, append) ==
  [NoLoad EXCEPT !.at = "asked", !.append = append,
                 !.offset = IF append THEN view[t].size ELSE 0]

LoadHistory(t) ==
  /\ load[t].at = "idle"
  /\ \E append \in BOOLEAN :
       /\ append => view[t].more /\ view[t].size < MaxShown
       /\ load' = [load EXCEPT ![t] = Ask(t, append)]
  /\ UNCHANGED <<rows, view, product, mark, clicks, failures, restarts>>

Visible == {i \in DOMAIN rows : ~rows[i].malformed}

\* Mutant of FetchPage: rows are counted from one.
FetchPageFromOne(offset) ==
  {i \in Visible :
     Len(rows) - i \in (IF offset = 0 THEN 0 ELSE offset + 1) .. offset + Page - 1}

\* ORDER BY timestamp DESC LIMIT Page OFFSET offset, less the malformed rows.
FetchPage(offset) == {i \in Visible : Len(rows) - i \in offset .. offset + Page - 1}

ServeHistory(t) ==
  /\ load[t].at = "asked"
  /\ LET page == FetchPage(load[t].offset)
         end  == load[t].offset + Cardinality(page)
     IN \E counted \in BOOLEAN :
          \* get_user_history_count: one that fails makes the page the last one
          /\ counted \/ failures < MaxFailures
          /\ failures' = IF counted THEN failures ELSE failures + 1
          /\ load' = [load EXCEPT ![t] = [@ EXCEPT !.at = "answered", !.rows = page,
                        !.more = counted /\ end < Len(rows), !.counted = counted,
                        !.known = Len(rows)]]
  /\ UNCHANGED <<rows, view, product, mark, clicks, restarts>>

(* The page query fails: Hive answers, whatever the offset, with rows of its *)
(* own table, which nothing keeps level with MySQL, or with none.            *)
ServeFromHive(t) ==
  /\ load[t].at = "asked" /\ failures < MaxFailures
  /\ failures' = failures + 1
  /\ \E page \in {FetchPage(0), {}} :
       load' = [load EXCEPT ![t] = [@ EXCEPT !.at = "answered", !.rows = page,
                  !.more = FALSE, !.mysql = FALSE]]
  /\ UNCHANGED <<rows, view, product, mark, clicks, restarts>>

\* 401 once the token has expired, 503 when both stores fail: the tab keeps
\* what it shows.
RefuseHistory(t) ==
  /\ load[t].at = "asked"
  /\ load' = [load EXCEPT ![t] = NoLoad]
  /\ UNCHANGED <<rows, view, product, mark, clicks, failures, restarts>>

\* The history of a tab with the answer it has got.
Answered(t) ==
  LET l == load[t]
      v == view[t]
  IN [shown   |-> l.rows \cup (IF l.append THEN v.shown ELSE {}),
      size    |-> Cardinality(l.rows) + (IF l.append THEN v.size ELSE 0),
      more    |-> l.more, loaded |-> TRUE,
      mysql   |-> l.mysql /\ (l.append => v.mysql),
      counted |-> l.counted,
      known   |-> IF l.append THEN v.known ELSE l.known]

ShowHistory(t) ==
  /\ load[t].at = "answered"
  /\ view' = [view EXCEPT ![t] = Answered(t)]
  /\ load' = [load EXCEPT ![t] = NoLoad]
  /\ UNCHANGED <<rows, product, mark, clicks, failures, restarts>>

---------------------------------------------------------------------------
(* The product on screen: generation, rating, download *)

Generate(t) ==
  /\ product[t].at = "idle" /\ Len(rows) < MaxRow
  /\ product' = [product EXCEPT ![t] = [NoProduct EXCEPT !.at = "asked"]]
  /\ UNCHANGED <<rows, view, load, mark, clicks, failures, restarts>>

\* The V2 endpoint writes its row, or answers an error (GenerationAttempt).
ServeGenerate(t) ==
  /\ product[t].at = "asked"
  /\ \/ /\ Len(rows) < MaxRow
        /\ rows' = Append(rows, NewRow("type:name"))
        /\ product' = [product EXCEPT ![t].at = "answered", ![t].made = Len(rows) + 1]
     \/ /\ product' = [product EXCEPT ![t].at = "idle"]
        /\ UNCHANGED rows
  /\ UNCHANGED <<view, load, mark, clicks, failures, restarts>>

\* An agent's image, or another process, writes a row of the user.
WriteElsewhere ==
  /\ Len(rows) < MaxRow
  /\ rows' = Append(rows, NewRow("type:name"))
  /\ UNCHANGED <<view, load, product, mark, clicks, failures, restarts>>

\* The result is shown and the history reloaded, unless a load is in flight.
ShowResult(t) ==
  /\ product[t].at = "answered"
  /\ product' = [product EXCEPT ![t] = [@ EXCEPT !.at = "idle", !.made = 0,
                                       !.result = product[t].made]]
  /\ load' = [load EXCEPT ![t] = IF @.at = "idle" THEN Ask(t, FALSE) ELSE @]
  /\ UNCHANGED <<rows, view, mark, clicks, failures, restarts>>

Mark(t) ==
  /\ product[t].result > 0 /\ mark[t] = "none" /\ clicks < MaxClicks
  /\ \E kind \in {"rating", "download"} : mark' = [mark EXCEPT ![t] = kind]
  /\ clicks' = clicks + 1
  /\ UNCHANGED <<rows, view, load, product, failures, restarts>>

\* Mutant of Target: no LIMIT.
TargetAll == {i \in DOMAIN rows : rows[i].prompt = "name"}

\* UPDATE ... WHERE user_id, prompt, style ORDER BY timestamp DESC LIMIT 1: the
\* client sends the bare name, and no log_id is looked at.
Named  == {i \in DOMAIN rows : rows[i].prompt = "name"}
Target == {i \in Named : \A j \in Named : j <= i}

Updated(kind, target, times) ==
  [i \in 1..Len(rows) |->
     IF i \notin target \/ times = 0 THEN rows[i]
     ELSE IF kind = "rating" THEN [rows[i] EXCEPT !.rating = TRUE]
     ELSE [rows[i] EXCEPT !.downloads = @ + times]]

\* connect: the pool has no connection that answers SELECT 1.
ConnectFails == failures < MaxFailures /\ failures' = failures + 1

\* execute_query: how often a statement may have run when so many tries of it
\* failed, each before or after it ran, and one more succeeded if any was left.
Executions(failed) ==
  {ran + (IF failed <= Retries THEN 1 ELSE 0) : ran \in 0..failed}

(* submit_rating, record_download.  The answer is success in every case.     *)
ServeMark(t) ==
  /\ mark[t] \in {"rating", "download"}
  /\ \/ ConnectFails /\ UNCHANGED rows
     \/ \E failed \in 0..Retries + 1 :
          /\ failures + failed <= MaxFailures /\ failures' = failures + failed
          /\ \E times \in Executions(failed) : rows' = Updated(mark[t], Target, times)
  /\ mark' = [mark EXCEPT ![t] = IF @ = "rating" THEN "rated" ELSE "none"]
  /\ UNCHANGED <<view, load, product, clicks, restarts>>

\* 401.
RefuseMark(t) ==
  /\ mark[t] \in {"rating", "download"}
  /\ mark' = [mark EXCEPT ![t] = "none"]
  /\ UNCHANGED <<rows, view, load, product, clicks, failures, restarts>>

\* userRating is set whatever result is on screen by now.
ShowRating(t) ==
  /\ mark[t] = "rated"
  /\ mark' = [mark EXCEPT ![t] = "none"]
  /\ product' = [product EXCEPT ![t].rated = TRUE]
  /\ UNCHANGED <<rows, view, load, clicks, failures, restarts>>

---------------------------------------------------------------------------
\* The process restarts: the requests it had not answered fail.
Restart ==
  /\ restarts < MaxRestarts /\ restarts' = restarts + 1
  /\ load' = [t \in Tabs |-> IF load[t].at = "asked" THEN NoLoad ELSE load[t]]
  /\ product' = [t \in Tabs |->
       IF product[t].at = "asked" THEN [product[t] EXCEPT !.at = "idle"] ELSE product[t]]
  /\ mark' = [t \in Tabs |-> IF mark[t] = "rated" THEN "rated" ELSE "none"]
  /\ UNCHANGED <<rows, view, clicks, failures>>

ServerStep(t) ==
  \/ ServeHistory(t) \/ ServeFromHive(t) \/ RefuseHistory(t)
  \/ ServeGenerate(t) \/ ServeMark(t) \/ RefuseMark(t)

AnswerShown(t) == ShowHistory(t) \/ ShowResult(t) \/ ShowRating(t)

ActivityNext ==
  \/ Restart \/ WriteElsewhere
  \/ \E t \in Tabs : \/ ServerStep(t) \/ AnswerShown(t)
                     \/ LoadHistory(t) \/ Generate(t) \/ Mark(t)

ActivitySpec == ActivityInit /\ [][ActivityNext]_activityVars

---------------------------------------------------------------------------
Views == [shown : SUBSET (1..MaxRow), size : Nat, more : BOOLEAN, loaded : BOOLEAN,
          mysql : BOOLEAN, counted : BOOLEAN, known : 0..MaxRow]
Loads == [at : {"idle", "asked", "answered"}, append : BOOLEAN, offset : Nat,
          rows : SUBSET (1..MaxRow), more : BOOLEAN, mysql : BOOLEAN, counted : BOOLEAN,
          known : 0..MaxRow]
Products == [at : {"idle", "asked", "answered"}, made : 0..MaxRow, result : 0..MaxRow,
             rated : BOOLEAN]

\* Types; the bounds hold.
ActivityTypes ==
  /\ rows \in Seq(Row) /\ Len(rows) <= MaxRow
  /\ view \in [Tabs -> Views] /\ load \in [Tabs -> Loads] /\ product \in [Tabs -> Products]
  /\ mark \in [Tabs -> {"none", "rating", "download", "rated"}]
  /\ clicks \in 0..MaxClicks /\ failures \in 0..MaxFailures /\ restarts \in 0..MaxRestarts

NoMore(t) == view[t].counted /\ ~view[t].more

(* The history shown has no hole, and none of its older rows is missing     *)
(* once the client says there is no more: rows written while the user pages  *)
(* shift the offsets, malformed rows make pages short, and still none of the *)
(* rows that were there when the first page was read is passed over between  *)
(* two pages, or left out at the end when has_more is false and the server   *)
(* could count (loadHistory, get_user_history), as long as Hive has not      *)
(* answered for MySQL.  Rows that came later show after a refresh.           *)
HistoryGapless ==
  \A t \in Tabs : view[t].mysql =>
    \A i \in Visible \cap (1..view[t].known) :
      (NoMore(t) \/ \E j \in view[t].shown : j < i) => i \in view[t].shown

(* One download adds one to one row; only a statement retried after a lost   *)
(* acknowledgement adds more (record_download, execute_query).               *)
Downloads == UNION {{i} \X (1..rows[i].downloads) : i \in DOMAIN rows}

DownloadsCounted == Cardinality(Downloads) <= clicks + failures
=============================================================================
