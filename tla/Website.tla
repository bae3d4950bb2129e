------------------------------- MODULE Website -------------------------------
(***************************************************************************)
(* The website of main.go: one process answers requests from the files of  *)
(* its working directory while a deploy may replace them one by one.  The  *)
(* handler only reads, so one request in flight stands for any number.     *)
(***************************************************************************)
EXTENDS Naturals

CONSTANTS
    Versions,   (* versions of the site: its binary and its files            *)
    Pages,      (* cleaned file names, without what the handler adds to them *)
    Dirs,       (* those of them that are directories where they exist       *)
    Hosts,      (* Host headers: records with a name and a port              *)
    Paths,      (* r.URL.Path                                                *)
    PageOf,     (* the page of a path below each of the two roots            *)
    Redirects,  (* redirectMap of each version: some paths to their new path *)
    Tree        (* the files of each version                                 *)

(* A file is a page as it is, with ".html", or its "index.html".             *)
Files == Pages \X {"plain", "html", "index"}

WebsiteAssumption ==
    /\ Versions \subseteq Nat \ {0} /\ 1 \in Versions
    /\ Dirs \subseteq Pages
    /\ PageOf \in [{"website", "algo"} \X Paths -> Pages]
    /\ \A v \in Versions : Tree[v] \subseteq Files
    /\ \A v \in Versions : \A p \in DOMAIN Redirects[v] : Redirects[v][p] \in Paths
    (* an index is in a directory                                            *)
    /\ \A v \in Versions, p \in Pages :
         <<p, "index">> \in Tree[v] => p \in Dirs /\ <<p, "plain">> \in Tree[v]

ASSUME WebsiteAssumption

VARIABLES
    disk,       (* the version of every file, 0 where there is none          *)
    pc,         (* where the handler is                                      *)
    req,        (* the request, and the binary that handles it               *)
    location,   (* the new path that http.Redirect wrote                     *)
    fd,         (* the open file: its name and its version                   *)
    length,     (* Content-Length: that of a file and a version              *)
    answer,     (* the response                                              *)
    (* history, since the request came                                       *)
    could,      (* the answers the directory gave at some moment             *)
    excused     (* a system call failed though the file was there, or a      *)
                (* deploy put the page's .html beside the page               *)

rqVars == <<pc, req, location, fd, length, answer>>
webVars == <<disk, rqVars, could, excused>>

None == <<>>
InFlight == pc \notin {"idle", "done"}

(* The router's choice of the directory.  A host that ends in a digit and    *)
(* does not split into a name and a port goes to the website.                *)
Root(h) == IF h.port # "bad" /\ h.name = "algo" THEN "algo" ELSE "website"

(* http.Redirect comes first and is not followed by a return: its headers    *)
(* are gone when the file handler sets a status and a length, and the file   *)
(* follows the body of the redirect.                                         *)
NewPath(b, p) == IF p \in DOMAIN Redirects[b] THEN <<Redirects[b][p]>> ELSE None
Locations == {<<p>> : p \in Paths} \cup {None}
FirstStatus(to, status) == IF to = None THEN status ELSE 301
FirstLength(to, data) == IF to = None THEN data ELSE None

(* What a response with the file data, or without one, says.                 *)
Reply(to, data) ==
    [status |-> FirstStatus(to, IF data = None THEN 404 ELSE 200),
     location |-> to, length |-> FirstLength(to, data), body |-> data]

(* The answer of a directory that does not change while it is looked at.     *)
Data(d, f) == IF d[f] = 0 THEN None ELSE <<f, d[f]>>
Found(d, page) ==
    IF d[<<page, "plain">>] = 0 THEN <<page, "html">>
    ELSE <<page, IF page \in Dirs THEN "index" ELSE "plain">>
Lookup(d, b, h, p) == Reply(NewPath(b, p), Data(d, Found(d, PageOf[<<Root(h), p>>])))

Contents == (Files \X Versions) \cup {None}
Answer == [status : {200, 301, 404, 500}, location : Locations,
           length : Contents, body : Contents]
Request == [host : Hosts, path : Paths, bin : Versions]
Page == PageOf[<<Root(req.host), req.path>>]

WebTypeOK ==
    /\ disk \in [Files -> Versions \cup {0}]
    /\ \A p \in Pages : disk[<<p, "index">>] # 0 => disk[<<p, "plain">>] # 0
    /\ could \subseteq Answer
    /\ pc \in {"idle", "route", "open", "openHtml", "stat", "openIndex", "head", "copy",
               "done"}
    /\ pc # "idle" => req \in Request
    /\ location \in Locations
    /\ fd \in Contents /\ length \in Contents
    /\ pc \in {"stat", "head", "copy"} => fd # None
    /\ pc \in {"head", "copy"} => ~(fd[1][2] = "plain" /\ Page \in Dirs)
    /\ pc = "done" => answer \in Answer
    /\ excused \in BOOLEAN

WebInit ==
    /\ disk = [f \in Files |-> IF f \in Tree[1] THEN 1 ELSE 0]
    /\ pc = "idle" /\ req = None
    /\ location = None /\ fd = None /\ length = None /\ answer = None
    /\ could = {} /\ excused = FALSE

(* rsync writes a new file next to the old one and renames it.               *)
Put(f, v) ==
    LET d == [disk EXCEPT ![f] = v] IN
    /\ disk' = d
    /\ could' = IF InFlight
                THEN could \cup {Lookup(d, req.bin, req.host, req.path)} ELSE could
    /\ excused' = (excused \/ (InFlight /\ f = <<Page, "html">> /\ disk[<<Page, "plain">>] # 0))
    /\ UNCHANGED rqVars

(* The request ends without a complete response.                             *)
Drop ==
    /\ pc' = "idle" /\ req' = None
    /\ location' = None /\ fd' = None /\ length' = None /\ answer' = None
    /\ could' = {} /\ excused' = FALSE

(* The process ends: its request is cut.                                     *)
Cut == IF InFlight THEN Drop ELSE UNCHANGED <<rqVars, could, excused>>

-----------------------------------------------------------------------------
Arrive(b, h, p) ==
    /\ ~InFlight
    /\ pc' = "route" /\ req' = [host |-> h, path |-> p, bin |-> b]
    /\ could' = {Lookup(disk, b, h, p)} /\ excused' = FALSE
    /\ location' = None /\ fd' = None /\ length' = None /\ answer' = None
    /\ UNCHANGED disk

Route ==
    /\ pc = "route" /\ pc' = "open"
    /\ req.host.name # ""
    /\ location' = NewPath(req.bin, req.path)
    /\ UNCHANGED <<req, fd, length, answer, excused>>

(* host[len(host)-1] of a request without a Host panics.                     *)
RoutePanics == pc = "route" /\ req.host.name = "" /\ Drop /\ UNCHANGED disk

Opened(kind) == disk[<<Page, kind>>] # 0

(* os.Open; the descriptor stays with the file it was opened on.             *)
Opens(kind) ==
    /\ fd' = <<<<Page, kind>>, disk[<<Page, kind>>]>>
    /\ UNCHANGED <<length, answer, excused>>

(* It fails: nothing is there, or the process has no descriptor left, ...    *)
OpenFails(kind) == excused' = (excused \/ Opened(kind))

Finish(status, announced, body) ==
    /\ answer' = [status |-> FirstStatus(location, status), location |-> location,
                  length |-> FirstLength(location, announced), body |-> body]
    /\ pc' = "done" /\ fd' = None /\ length' = None

Open ==
    /\ pc = "open"
    /\ \/ Opened("plain") /\ pc' = "stat" /\ Opens("plain")
       \/ OpenFails("plain") /\ pc' = "openHtml" /\ UNCHANGED <<fd, length, answer>>
    /\ UNCHANGED <<req, location>>

OpenHtml ==
    /\ pc = "openHtml"
    /\ \/ Opened("html") /\ pc' = "stat" /\ Opens("html")
       \/ OpenFails("html") /\ Finish(404, None, None)
    /\ UNCHANGED <<req, location>>

(* Mutant: a directory is not looked at again.                               *)
MutantIsDir == FALSE

IsDir == fd[1][2] = "plain" /\ Page \in Dirs

Stat ==
    /\ pc = "stat" /\ pc' = IF IsDir THEN "openIndex" ELSE "head"
    /\ UNCHANGED <<req, location, fd, length, answer, excused>>

StatFails ==
    /\ pc = "stat"
    /\ Finish(500, None, None)
    /\ excused' = TRUE
    /\ UNCHANGED <<req, location>>

OpenIndex ==
    /\ pc = "openIndex"
    /\ \/ Opened("index") /\ pc' = "stat" /\ Opens("index")
       \/ OpenFails("index") /\ Finish(404, None, None)
    /\ UNCHANGED <<req, location>>

(* Mutant: the length of the file that has the name now, os.Stat(file).      *)
MutantLength == <<fd[1], disk[fd[1]]>>

(* The length is that of the open file, which a rename leaves alone.         *)
Length == fd

Head ==
    /\ pc = "head" /\ pc' = "copy"
    /\ length' = Length
    /\ UNCHANGED <<req, location, fd, answer, excused>>

Copy ==
    /\ pc = "copy"
    /\ Finish(200, length, fd)
    /\ UNCHANGED <<req, location, excused>>

(* io.Copy fails: the client went away, or the disk did.                     *)
CopyFails == pc = "copy" /\ Drop /\ UNCHANGED disk

Handle ==
    \/ /\ \/ Route \/ Open \/ OpenHtml \/ Stat \/ StatFails
          \/ OpenIndex \/ Head \/ Copy
       /\ UNCHANGED <<disk, could>>
    \/ RoutePanics \/ CopyFails

-----------------------------------------------------------------------------
(* A complete answer, its status, its length and its body, is the one that   *)
(* the directory gave at some moment while the request was handled, however  *)
(* rsync replaced and added files between the opens, the stat and the copy;  *)
(* an address that moved is always answered with 301.  After a failed system *)
(* call, or when a deploy put the page's .html beside it, the answer is an   *)
(* error without a file or the whole of that .html.                          *)
Excusable(a) ==
    /\ a.location = NewPath(req.bin, req.path)
    /\ \/ a.status # 200 /\ a.length = None /\ a.body = None
       \/ \E v \in Versions : a = Reply(a.location, <<<<Page, "html">>, v>>)

AnswersOfAMoment ==
    pc = "done" => answer \in could \/ (excused /\ Excusable(answer))
=============================================================================
