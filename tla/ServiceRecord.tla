---------------------------- MODULE ServiceRecord ----------------------------
(***************************************************************************)
(* The services of one package (server/ServiceRecord.cpp), the requests of *)
(* ActivityManagerService.cpp that start, bind, unbind and stop them, and  *)
(* their client side (app/ApplicationThread.cpp, ServiceClientRecord.cpp,  *)
(* Service.cpp, Application.cpp).                                          *)
(*                                                                         *)
(* `sm' is the whole state, one record; the methods are operators from     *)
(* state to state.  Records and processes are numbered as they are made.   *)
(* The calls to a process are oneway: they wait in `sent' until its loop   *)
(* takes them.  Its answers (reportServiceStatus, publishService) are      *)
(* synchronous: a message, the callbacks it leads to and their reports are *)
(* one step.  A dereference of null sets `sm.undefined'.                   *)
(***************************************************************************)
EXTENDS Integers, FiniteSets, SequencesExt

CONSTANTS
    Name,           \* the services of the package
    Conn,           \* the connections of all callers
    NoConn,         \* null, in place of a connection
    HasBinder,      \* the services whose onBind() returns a binder
    Manners,        \* how callers may be: see `careful' below
    MaxRecords, MaxProcs, MaxRequests       \* bounds

ASSUME ConnAssumption == NoConn \notin Conn
ASSUME BinderAssumption == HasBinder \subseteq Name
ASSUME MannersAssumption == Manners \subseteq BOOLEAN
ASSUME BoundsAssumption == {MaxRecords, MaxProcs, MaxRequests} \subseteq Nat

VARIABLES
    sm,
    careful,        \* callers wait until what they asked of a service is done
    requests        \* requests so far

vars == <<sm, careful, requests>>

CREATING   == 0
CREATED    == 1
STARTED    == 3
BINDED     == 5
UNBINDED   == 7
DESTROYING == 8
DESTROYED  == 9

Record == 1..MaxRecords
Proc == 1..MaxProcs
Flags == {"STARTED", "BINDED"}

NoClient == [exists |-> FALSE, mStatus |-> CREATING, binded |-> FALSE, mIsBinded |-> FALSE]

NoRecord ==
    [name |-> "none", proc |-> 0, listed |-> FALSE,     \* listed: in mServices
     mStatus |-> CREATING, mStartFlag |-> {}, mServiceBinder |-> FALSE,
     mConnectRecord |-> {},
     asked |-> FALSE,       \* stop() has been called
     client |-> NoClient]   \* its ServiceClientRecord and Service

NoProc ==
    [mStatus |-> "NONE",
     attach |-> <<>>,       \* AppAttachTasks: the services to start or bind
     mExistService |-> <<>>,
     sent |-> <<>>,
     terminated |-> FALSE]  \* the client has handled terminateApplication()

Init ==
    /\ sm = [rec |-> [r \in Record |-> NoRecord], records |-> 0,
             proc |-> [p \in Proc |-> NoProc], procs |-> 0,
             told |-> [c \in Conn |-> "nothing"], undefined |-> FALSE]
    /\ careful \in Manners
    /\ requests = 0

-----------------------------------------------------------------------------
(* A loop over records, oldest first.                                      *)
ForEach(Op(_, _), s, S) ==
    LET after[n \in 0..MaxRecords] ==
            IF n = 0 THEN s
            ELSE LET before == after[n - 1]
                 IN IF n \in S THEN Op(before, n) ELSE before
    IN after[MaxRecords]

(* The server's records.                                                   *)

(* mApp.lock(): the AppRecord lives from its attachment to SIGCHLD.        *)
HasApp(s, r) == s.rec[r].proc # 0 /\ s.proc[s.rec[r].proc].mStatus \in {"RUNNING", "STOPPING"}

Sent(s, r, op, conn) ==
    [s EXCEPT !.proc[s.rec[r].proc].sent = Append(@, [op |-> op, r |-> r, conn |-> conn])]

Tell(s, S, what) == [s EXCEPT !.told = [c \in Conn |-> IF c \in S THEN what ELSE @[c]]]

AddService(s, r) == [s EXCEPT !.proc[s.rec[r].proc].mExistService = Append(@, r)]

(* The first entry of the service is replaced by the last one.             *)
SwappedOut(exist, r) ==
    LET places == {i \in DOMAIN exist : exist[i] = r}
    IN IF places = {} THEN exist ELSE Front([exist EXCEPT ![Min(places)] = Last(exist)])

DeleteService(s, r) == [s EXCEPT !.proc[s.rec[r].proc].mExistService = SwappedOut(@, r)]

Start(s, r) ==
    IF ~HasApp(s, r) THEN s
    ELSE Sent(AddService([s EXCEPT !.rec[r].mStartFlag = @ \union {"STARTED"}], r), r, "START", NoConn)

\* (Faulty: the connections are not told.)
StopQuietly(s, r) ==
    IF ~HasApp(s, r) THEN s
    ELSE Sent(DeleteService([s EXCEPT !.rec[r].asked = TRUE], r), r, "STOP", NoConn)

Stop(s, r) ==
    LET told == Tell([s EXCEPT !.rec[r].asked = TRUE], s.rec[r].mConnectRecord, "disconnected")
    IN IF ~HasApp(s, r) THEN told ELSE Sent(DeleteService(told, r), r, "STOP", NoConn)

\* (Faulty: a service that is only bound is not counted.)
BindUncounted(s, r, conn) ==
    IF ~HasApp(s, r) THEN s
    ELSE LET bound == [s EXCEPT !.rec[r].mStartFlag = @ \union {"BINDED"},
                                !.rec[r].mConnectRecord = @ \union {conn}]
         IN IF s.rec[r].mServiceBinder THEN Tell(bound, {conn}, "connected")
            ELSE Sent(bound, r, "BIND", conn)

\* (Faulty: a service is counted with each connection.)
BindCounted(s, r, conn) ==
    IF ~HasApp(s, r) THEN s
    ELSE LET bound == [AddService(s, r) EXCEPT !.rec[r].mStartFlag = @ \union {"BINDED"},
                                               !.rec[r].mConnectRecord = @ \union {conn}]
         IN IF s.rec[r].mServiceBinder THEN Tell(bound, {conn}, "connected")
            ELSE Sent(bound, r, "BIND", conn)

Bind(s, r, conn) ==
    IF ~HasApp(s, r) THEN s
    ELSE LET counted == IF s.rec[r].mStartFlag = {} THEN AddService(s, r) ELSE s
             bound == [counted EXCEPT !.rec[r].mStartFlag = @ \union {"BINDED"},
                                      !.rec[r].mConnectRecord = @ \union {conn}]
         IN IF s.rec[r].mServiceBinder THEN Tell(bound, {conn}, "connected")
            ELSE Sent(bound, r, "BIND", conn)

\* (Faulty: the flag is left when the last connection goes.)
UnbindKeepsFlag(s, r, conn) ==
    IF "BINDED" \notin s.rec[r].mStartFlag THEN s
    ELSE LET told == Tell([s EXCEPT !.rec[r].mConnectRecord = @ \ {conn}], {conn}, "disconnected")
             left == s.rec[r].mConnectRecord \ {conn}
         IN IF ~HasApp(s, r) \/ left # {} THEN told ELSE Sent(told, r, "UNBIND", NoConn)

(* The connection is told and, if it was the last one, so is the client,   *)
(* whether or not the connection was to this service.                      *)
Unbind(s, r, conn) ==
    IF "BINDED" \notin s.rec[r].mStartFlag THEN s
    ELSE LET told == Tell([s EXCEPT !.rec[r].mConnectRecord = @ \ {conn}], {conn}, "disconnected")
             left == s.rec[r].mConnectRecord \ {conn}
             flag == IF left = {} THEN s.rec[r].mStartFlag \ {"BINDED"} ELSE s.rec[r].mStartFlag
             sent == IF left = {}
                     THEN Sent([told EXCEPT !.rec[r].mStartFlag = flag], r, "UNBIND", NoConn)
                     ELSE told
         IN IF ~HasApp(s, r) THEN told
            ELSE IF flag = {} THEN DeleteService(sent, r) ELSE sent

AbnormalExit(s, r) == Tell(s, s.rec[r].mConnectRecord, "disconnected")

(* ServiceList::findService(): the service by its name, in a process whose *)
(* AppRecord still exists.                                                 *)
Found(s, name) == {r \in Record : s.rec[r].listed /\ s.rec[r].name = name /\ HasApp(s, r)}

StopApplication(s, p) ==
    IF s.proc[p].mStatus # "RUNNING" THEN s
    ELSE [s EXCEPT !.proc[p].mStatus = "STOPPING",
                   !.proc[p].sent = Append(@, [op |-> "TERMINATE", r |-> 0, conn |-> NoConn])]

-----------------------------------------------------------------------------
(* Reports of the clients.                                                 *)

(* The process of the last service is stopped (it has no activities here). *)
Destroyed(s, r) ==
    LET out == [s EXCEPT !.rec[r].listed = FALSE]
        p == s.rec[r].proc
    IN IF s.proc[p].mExistService = <<>> THEN StopApplication(out, p) ELSE out

\* (Faulty: a service that nobody is bound to any more goes on.)
ReportLeavesUnbound(s, r, status) ==
    IF ~s.rec[r].listed THEN s
    ELSE LET done == IF status = DESTROYED THEN Destroyed(s, r) ELSE s
         IN [done EXCEPT !.rec[r].mStatus = status]

ReportServiceStatus(s, r, status) ==
    IF ~s.rec[r].listed THEN s
    ELSE LET done == IF status = UNBINDED /\ s.rec[r].mStartFlag = {} THEN Stop(s, r)
                     ELSE IF status = DESTROYED THEN Destroyed(s, r)
                     ELSE s
         IN [done EXCEPT !.rec[r].mStatus = status]

PublishService(s, r) ==
    IF s.rec[r].listed THEN [s EXCEPT !.rec[r].mServiceBinder = s.rec[r].name \in HasBinder] ELSE s

Report(s, r, status) ==
    ReportServiceStatus([s EXCEPT !.rec[r].client.mStatus = status], r, status)

-----------------------------------------------------------------------------
(* The client: findService() or createService(), and the callbacks.        *)

Created(s, r) ==
    LET made == IF s.rec[r].client.exists THEN s
                ELSE [s EXCEPT !.rec[r].client = [NoClient EXCEPT !.exists = TRUE]]
    IN IF made.rec[r].client.mStatus = CREATING THEN Report(made, r, CREATED) ELSE made

OnStart(s, r) == Report(Created(s, r), r, STARTED)

(* Service::bind(): onBind() is asked once, every connection is told.      *)
OnBind(s, r, conn) ==
    LET created == Created(s, r)
        bound == IF created.rec[r].client.mIsBinded THEN created
                 ELSE [PublishService(created, r) EXCEPT !.rec[r].client.mIsBinded = TRUE]
        told == IF s.rec[r].name \in HasBinder THEN Tell(bound, {conn}, "connected") ELSE bound
    IN Report([told EXCEPT !.rec[r].client.binded = TRUE], r, BINDED)

OnUnbind(s, r) ==
    IF ~s.rec[r].client.binded THEN s
    ELSE Report([s EXCEPT !.rec[r].client.mIsBinded = FALSE], r, UNBINDED)

\* (Faulty: the service is left in mExistServices.)
OnDestroyKept(s, r) == IF ~s.rec[r].client.exists THEN s ELSE Report(s, r, DESTROYED)

OnDestroy(s, r) ==
    IF ~s.rec[r].client.exists THEN s
    ELSE [Report(s, r, DESTROYED) EXCEPT !.rec[r].client = NoClient]

Clients(s, p) == {r \in Record : s.rec[r].proc = p /\ s.rec[r].client.exists}

Handled(s, p, m) ==
    CASE m.op = "START"     -> OnStart(s, m.r)
      [] m.op = "BIND"      -> OnBind(s, m.r, m.conn)
      [] m.op = "UNBIND"    -> OnUnbind(s, m.r)
      [] m.op = "STOP"      -> OnDestroy(s, m.r)
      [] m.op = "TERMINATE" -> [ForEach(OnDestroy, s, Clients(s, p)) EXCEPT !.proc[p].terminated = TRUE]

-----------------------------------------------------------------------------
(* Requests.  `conn' is NoConn to start the service, else it is bound.     *)

Serve(s, r, conn) == IF conn = NoConn THEN Start(s, r) ELSE Bind(s, r, conn)

NewService(s, name, p, conn) ==
    LET r == s.records + 1
    IN Serve([s EXCEPT !.records = r,
                       !.rec[r] = [NoRecord EXCEPT !.name = name, !.proc = p, !.listed = TRUE]],
             r, conn)

In(s, status) == {p \in Proc : s.proc[p].mStatus = status}

(* submitAppStartupTask(): a task for the process that is already waited   *)
(* for, or for a new one.                                                  *)
SubmitAppStartupTask(s, name, conn) ==
    LET task == [name |-> name, conn |-> conn]
    IN IF In(s, "ATTACHING") # {}
       THEN {[s EXCEPT !.proc[p].attach = Append(@, task)] : p \in In(s, "ATTACHING")}
       ELSE IF s.procs = MaxProcs THEN {}
       ELSE {[s EXCEPT !.procs = @ + 1,
                       !.proc[s.procs + 1] = [NoProc EXCEPT !.mStatus = "ATTACHING",
                                                            !.attach = <<task>>]]}

(* startServiceReal(): what may follow (findService() takes the first of   *)
(* several records).                                                       *)
StartServiceReal(s, name, conn) ==
    IF Found(s, name) # {} THEN {Serve(s, r, conn) : r \in Found(s, name)}
    ELSE IF In(s, "RUNNING") # {}
    THEN {NewService(s, name, p, conn) : p \in {q \in In(s, "RUNNING") : s.records < MaxRecords}}
    ELSE SubmitAppStartupTask(s, name, conn)

StopServiceReal(s, r) == IF s.rec[r].mStatus < DESTROYING THEN Stop(s, r) ELSE s

UnbindConnection(s, conn) ==
    ForEach(LAMBDA t, r : Unbind(t, r, conn), s, {r \in Record : s.rec[r].listed})

(* AppAttachTask: every task of the process makes a record of its own.     *)
Attached(s, p) ==
    LET tasks == s.proc[p].attach
        after[n \in 0..Len(tasks)] ==
            IF n = 0 THEN [s EXCEPT !.proc[p].mStatus = "RUNNING", !.proc[p].attach = <<>>]
            ELSE NewService(after[n - 1], tasks[n].name, p, tasks[n].conn)
    IN after[Len(tasks)]

(* procAppTerminated(): the services it still holds are told and removed.  *)
ProcAppTerminated(s, p) ==
    LET entries == {r \in ToSet(s.proc[p].mExistService) : s.rec[r].listed}
        told == ForEach(AbnormalExit, s, entries)
    IN [told EXCEPT !.rec = [r \in Record |-> [told.rec[r] EXCEPT !.listed = @ /\ r \notin entries]],
                    !.proc[p].mExistService = <<>>]

(* AppRecord::checkService(): the whole target is compared with the names  *)
(* of the services, which have no package, so every entry is dereferenced, *)
(* also those whose record has been deleted.                               *)
CheckService(s, p) ==
    [s EXCEPT !.undefined = \E r \in ToSet(s.proc[p].mExistService) : ~s.rec[r].listed]

-----------------------------------------------------------------------------
(* Careful callers start a service only while it is neither started nor    *)
(* bound, use a connection for one service, and leave a service alone that *)
(* is launched, bound, unbound or stopped until that is done.              *)
Launching(name) ==
    \E p \in Proc : \E i \in DOMAIN sm.proc[p].attach : sm.proc[p].attach[i].name = name

OnItsWay(r, ops) ==
    \E p \in Proc : \E i \in DOMAIN sm.proc[p].sent :
        sm.proc[p].sent[i].r = r /\ sm.proc[p].sent[i].op \in ops

Settled(r) == ~sm.rec[r].asked /\ ~OnItsWay(r, {"BIND", "UNBIND", "STOP"})

MayAsk(name) == careful =>
    ~Launching(name) /\ \A r \in Found(sm, name) : Settled(r)

Used(conn) == \/ \E r \in Record : sm.rec[r].listed /\ conn \in sm.rec[r].mConnectRecord
              \/ \E p \in Proc : \E i \in DOMAIN sm.proc[p].attach : sm.proc[p].attach[i].conn = conn

Request == requests < MaxRequests /\ requests' = requests + 1 /\ UNCHANGED careful

StartService(name) ==
    /\ Request
    /\ MayAsk(name)
    /\ careful => \A r \in Found(sm, name) : sm.rec[r].mStartFlag = {}
    /\ sm' \in StartServiceReal(sm, name, NoConn)

BindService(name, conn) ==
    /\ Request
    /\ MayAsk(name)
    /\ careful => ~Used(conn)
    /\ sm' \in StartServiceReal(sm, name, conn)

UnbindService(conn) ==
    /\ Request
    /\ careful => \A r \in Record : conn \in sm.rec[r].mConnectRecord => Settled(r)
    /\ sm' = UnbindConnection(sm, conn)

StopService(name) ==
    /\ Request
    /\ MayAsk(name)
    /\ \E r \in Found(sm, name) : sm' = StopServiceReal(sm, r)

(* A service stops itself.                                                 *)
StopServiceByToken(r) ==
    /\ Request
    /\ sm.rec[r].client.exists /\ sm.rec[r].listed
    /\ careful => Settled(r)
    /\ sm' = StopServiceReal(sm, r)

PostIntent ==
    /\ Request
    /\ \E p \in In(sm, "RUNNING") : sm' = CheckService(sm, p)

(* The low memory killer, stopApplication(), or the user stop the process. *)
StopProcess(p) ==
    /\ Request
    /\ sm.proc[p].mStatus = "RUNNING"
    /\ sm' = StopApplication(sm, p)

Attach(p) ==
    /\ sm.proc[p].mStatus = "ATTACHING"
    /\ sm.records + Len(sm.proc[p].attach) <= MaxRecords
    /\ sm' = Attached(sm, p)
    /\ UNCHANGED <<careful, requests>>

(* The client's loop takes the next message.                               *)
Handle(p) ==
    /\ sm.proc[p].sent # <<>>
    /\ sm' = Handled([sm EXCEPT !.proc[p].sent = Tail(@)], p, Head(sm.proc[p].sent))
    /\ UNCHANGED <<careful, requests>>

(* The process ends, by itself or after it was asked to: SIGCHLD.          *)
Exit(p) ==
    /\ sm.proc[p].mStatus \in {"ATTACHING", "RUNNING", "STOPPING"}
    /\ LET done == ProcAppTerminated(sm, p)
       IN sm' = [done EXCEPT !.proc[p] = [@ EXCEPT !.mStatus = "GONE", !.attach = <<>>, !.sent = <<>>],
                             !.rec = [r \in Record |->
                                        IF @[r].proc = p THEN [@[r] EXCEPT !.client = NoClient] ELSE @[r]]]
    /\ UNCHANGED <<careful, requests>>

Next ==
    /\ ~sm.undefined
    /\ \/ \E name \in Name : StartService(name) \/ StopService(name)
       \/ PostIntent
       \/ \E name \in Name, conn \in Conn : BindService(name, conn)
       \/ \E conn \in Conn : UnbindService(conn)
       \/ \E r \in Record : StopServiceByToken(r)
       \/ \E p \in Proc : StopProcess(p) \/ Attach(p) \/ Handle(p) \/ Exit(p)

Spec == Init /\ [][Next]_vars

-----------------------------------------------------------------------------
TypeOK ==
    /\ sm \in [rec : [Record -> [name : Name \union {"none"}, proc : 0..MaxProcs, listed : BOOLEAN,
                                 mStatus : CREATING..DESTROYED, mStartFlag : SUBSET Flags,
                                 mServiceBinder : BOOLEAN, mConnectRecord : SUBSET Conn,
                                 asked : BOOLEAN,
                                 client : [exists : BOOLEAN, mStatus : CREATING..DESTROYED,
                                           binded : BOOLEAN, mIsBinded : BOOLEAN]]],
               records : 0..MaxRecords, procs : 0..MaxProcs,
               proc : [Proc -> [mStatus : {"NONE", "ATTACHING", "RUNNING", "STOPPING", "GONE"},
                                attach : Seq([name : Name, conn : Conn \union {NoConn}]),
                                mExistService : Seq(Record),
                                sent : Seq([op : {"START", "BIND", "UNBIND", "STOP", "TERMINATE"},
                                            r : 0..MaxRecords, conn : Conn \union {NoConn}]),
                                terminated : BOOLEAN]],
               told : [Conn -> {"nothing", "connected", "disconnected"}],
               undefined : BOOLEAN]
    /\ \A p \in Proc : sm.proc[p].mStatus \notin {"RUNNING", "STOPPING"} =>
          /\ sm.proc[p].mExistService = <<>>
          /\ \A r \in Record : sm.rec[r].proc = p => ~sm.rec[r].client.exists
    /\ careful \in Manners
    /\ requests \in 0..MaxRequests

(* Whatever callers do, in whatever order the answers come: a service that *)
(* is started or bound and has not been stopped is in its process's        *)
(* mExistService, so that the end of another service does not stop the     *)
(* process under it.                                                       *)
LiveIsCounted == \A r \in Record :
    sm.rec[r].listed /\ HasApp(sm, r) /\ sm.rec[r].mStartFlag # {} /\ ~sm.rec[r].asked
        => r \in ToSet(sm.proc[sm.rec[r].proc].mExistService)

(* A service is marked as bound exactly while it has connections, and of   *)
(* the services of a process that has ended only those that were being     *)
(* stopped are left in mServices.                                          *)
RecordsAreSound == TypeOK /\ \A r \in Record : sm.rec[r].listed =>
    /\ HasApp(sm, r) => ("BINDED" \in sm.rec[r].mStartFlag <=> sm.rec[r].mConnectRecord # {})
    /\ HasApp(sm, r) \/ sm.rec[r].asked \/ sm.rec[r].mStartFlag = {}

NeverUndefined == ~sm.undefined

Quiet == \A p \in Proc : sm.proc[p].sent = <<>> /\ sm.proc[p].attach = <<>>

(* What careful callers may rely on.                                       *)

(* No request crashes the service manager.                                 *)
CarefulIsSafe == careful => NeverUndefined

(* Until it is told to terminate, a service of a client is one that the    *)
(* server knows, and there is one of each name.                            *)
ClientAgrees == careful =>
    /\ \A r \in Record : sm.rec[r].client.exists /\ ~sm.proc[sm.rec[r].proc].terminated
          => sm.rec[r].listed
    /\ \A r, q \in Record : /\ sm.rec[r].client.exists /\ sm.rec[q].client.exists
                            /\ sm.rec[r].proc = sm.rec[q].proc /\ sm.rec[r].name = sm.rec[q].name
                            => r = q

Connected(c, r) == c \in sm.rec[r].mConnectRecord /\ sm.rec[r].name \in HasBinder

(* When nothing is under way, the connections that believe in a service    *)
(* are those of the services that exist, except for the connections to a   *)
(* process that has been asked to terminate: these are never told, the     *)
(* reports of clearActivityAndService() delete the records that            *)
(* procAppTerminated() would have told.                                    *)
ConnectionsAgree == careful /\ Quiet => \A c \in Conn :
    /\ (\E r \in Record : sm.rec[r].listed /\ HasApp(sm, r) /\ Connected(c, r))
         => sm.told[c] = "connected"
    /\ sm.told[c] = "connected" =>
         \E r \in Record : Connected(c, r) /\ (sm.rec[r].listed \/ sm.proc[sm.rec[r].proc].terminated)

(* When nothing is under way, a process that runs has a service that is    *)
(* started or bound: no process and no service is left behind.             *)
QuietProcessIsUsed == careful /\ Quiet => \A p \in In(sm, "RUNNING") :
    /\ sm.proc[p].mExistService # <<>>
    /\ \A r \in ToSet(sm.proc[p].mExistService) : sm.rec[r].listed /\ sm.rec[r].mStartFlag # {}
=============================================================================
