-------------------------- MODULE OverlayRegions --------------------------
(***************************************************************************)
(* What of the overlay's window takes the mouse.  The page measures what   *)
(* it draws and reports it when it changed; the reports are commands the   *)
(* shell handles in any order.  A page asks for an epoch with its first    *)
(* report and counts its reports: the core drops a report that comes after *)
(* one sent later, and one of a page that was reloaded since.              *)
(***************************************************************************)
EXTENDS Naturals, FiniteSets

CONSTANTS Drawings, Nothing,  \* what a page may draw, and an empty page
          Refused,            \* drawings whose report the core does not accept
          MaxReports, MaxReloads,  \* bounds
          None

VARIABLES drawn,    \* what the page shows
          page,     \* its number, epoch, count of reports, reporter and last report
          asks,     \* pages whose epoch is asked for
          flight,   \* reports on their way
          core,     \* RegionSet: the report in force, its stamp, the epochs handed out
          sent, latest  \* history: reports so far; the last good one that went out

vars == <<drawn, page, asks, flight, core, sent, latest>>

NewPage(n) == [n |-> n, epoch |-> None, seq |-> 0, reporter |-> 0, last |-> None]

Init ==
  /\ drawn \in Drawings
  /\ page = NewPage(0)
  /\ asks = {} /\ flight = {}
  /\ core = [regions |-> Nothing, epoch |-> 0, seq |-> 0, no |-> 0, epochs |-> 0]
  /\ sent = 0 /\ latest = 0

(* ------------------------------- the page ------------------------------ *)
(* send: counted at once, and out as soon as the page has its epoch.       *)
Send(regions, reporter, last) ==
  /\ sent < MaxReports /\ sent' = sent + 1
  /\ LET report == [page |-> page.n, epoch |-> page.epoch, seq |-> page.seq + 1,
                    reporter |-> page.reporter, no |-> sent + 1, regions |-> regions]
     IN  /\ flight' = flight \cup {report}
         /\ latest' = IF page.epoch # None /\ regions \notin Refused THEN report.no ELSE latest
  /\ page' = [page EXCEPT !.seq = @ + 1, !.reporter = reporter, !.last = last]
  /\ asks' = IF page.epoch = None THEN asks \cup {page.n} ELSE asks
  /\ UNCHANGED <<drawn, core>>

Draw ==
  /\ drawn' \in Drawings \ {drawn}
  /\ UNCHANGED <<page, asks, flight, core, sent, latest>>

(* What was reported last is not reported again.                           *)
Measure == drawn # page.last /\ Send(drawn, page.reporter, drawn)

(* The reporter stops: nothing drawn, nothing to click.  The next reporter *)
(* of the page has reported nothing yet, and counts on.                    *)
Remount == page.last \notin {None, Nothing} /\ Send(Nothing, page.reporter + 1, None)

(* A report that has no epoch yet goes with its page; the others come late.*)
Reload ==
  /\ page.n < MaxReloads
  /\ page' = NewPage(page.n + 1)
  /\ flight' = {r \in flight : r.epoch # None}
  /\ UNCHANGED <<drawn, asks, core, sent, latest>>

(* ------------------------------- the core ------------------------------ *)
Mut_NewEpoch == core.epochs
(* new_epoch: later than every page before it.                             *)
NewEpoch == core.epochs + 1

(* The epoch is handed out; if its page is still there its reports go out. *)
RegionsEpoch(n) ==
  /\ n \in asks /\ asks' = asks \ {n}
  /\ core' = [core EXCEPT !.epochs = NewEpoch]
  /\ IF n = page.n
     THEN /\ page' = [page EXCEPT !.epoch = NewEpoch]
          /\ flight' = {IF r.page = n THEN [r EXCEPT !.epoch = NewEpoch] ELSE r : r \in flight}
          /\ LET good == {r \in flight : r.page = n /\ r.regions \notin Refused}
             IN  latest' = IF good = {} THEN latest
                           ELSE (CHOOSE r \in good : \A o \in good : o.no <= r.no).no
     ELSE UNCHANGED <<page, flight, latest>>
  /\ UNCHANGED <<drawn, sent>>

Mut_Late(r) == r.epoch = core.epoch /\ r.seq = core.seq
(* Stamps compare by epoch, then by count.                                 *)
Late(r) == r.epoch < core.epoch \/ (r.epoch = core.epoch /\ r.seq <= core.seq)

UnknownEpoch(r) == r.epoch = 0 \/ r.epoch > core.epochs

Mut_Reject(r) == core' = [core EXCEPT !.epoch = r.epoch, !.seq = r.seq]
(* A report that is rejected leaves the order as it was.                   *)
Reject(r) == core' = core

Apply(r) ==
  core' = [core EXCEPT !.regions = r.regions, !.epoch = r.epoch, !.seq = r.seq, !.no = r.no]

(* The page hears of an error: its next measure reports again.             *)
SetRegions(r) ==
  /\ r \in flight /\ r.epoch # None
  /\ flight' = flight \ {r}
  /\ IF UnknownEpoch(r) \/ (~Late(r) /\ r.regions \in Refused)
     THEN /\ Reject(r)
          /\ page' = IF r.page = page.n /\ r.reporter = page.reporter
                     THEN [page EXCEPT !.last = None] ELSE page
     ELSE /\ IF Late(r) THEN core' = core ELSE Apply(r)
          /\ page' = page
  /\ UNCHANGED <<drawn, asks, sent, latest>>

Next ==
  \/ Draw \/ Measure \/ Remount \/ Reload
  \/ \E n \in asks : RegionsEpoch(n)
  \/ \E r \in flight : SetRegions(r)

Spec == Init /\ [][Next]_vars

(* ------------------------------ properties ----------------------------- *)
(* Types: the stamp in force is of an epoch that was handed out, and no    *)
(* page holds one of another.                                              *)
RegionsTypeOK ==
  /\ core.epoch <= core.epochs
  /\ page.epoch # None => page.epoch \in 1..core.epochs /\ core.epoch <= page.epoch
  /\ \A r, o \in flight : r.epoch # None /\ o.epoch # None /\ r.page < o.page => r.epoch < o.epoch

(* A report is never replaced by one that was sent before it, in whatever  *)
(* order the two are handled and whichever page sent them.                 *)
NeverGoesBack == [][core'.no >= core.no]_vars

(* With nothing on its way, the last good report that went out is in       *)
(* force: an older one, a refused one or a reload does not keep it out.    *)
LatestInForce ==
  (\A r \in flight : r.epoch = None) => core.no = latest

(* The regions in force are the latest good report's.                      *)
RegionsInv ==
  /\ RegionsTypeOK
  /\ LatestInForce
=============================================================================
