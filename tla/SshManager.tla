----------------------------- MODULE SshManager -----------------------------
(* The manager of the embedded SSH server                                  *)
(* (src/backend/internal/sshd/manager.go, with Start and Close of          *)
(* server.go). Main starts the server with the daemon and stops it at the  *)
(* end; a handler saves new settings, closes the server that runs and      *)
(* starts a new one. The settings have a lock of their own, the manager's  *)
(* lock is let go between closing and starting, and closing waits, with    *)
(* the lock held, until everybody who is connected has left.               *)
(*                                                                         *)
(* A port stands for the server that listens on it: two never listen on    *)
(* one. The keys that may log in are left out.                             *)
EXTENDS Naturals

CONSTANTS
  Handlers,       \* requests that may be under way together
  Main,           \* AppMain, which calls Start and Stop
  Ports,
  Clients,        \* connections to the servers
  NoServer,
  MaxRequests     \* bound: requests in all

Callers == Handlers \cup {Main}

SshSettings == [enabled : BOOLEAN, port : Ports]

ASSUME SshAssumption ==
  /\ Main \notin Handlers /\ NoServer \notin Ports \cup Callers \cup SshSettings
  /\ MaxRequests \in Nat

VARIABLES
  ssh,          \* the SSH part of the configuration, in memory
  onDisk,       \* the same in the file
  place,        \* where each caller is
  want,         \* the settings it asks for, or NoServer
  holder,       \* who closes a server, with the manager's lock
  server,       \* m.server
  listening,    \* the ports on which servers of ours listen
  lastErr,      \* m.lastErr is not empty
  sessions,     \* for each client the server it is connected to
  requests,
  refused,      \* history: settings were changed in memory and not saved
  crossed       \* history: two calls were under way together

sshConfig == <<ssh, onDisk>>
calls     == <<place, want, requests>>
servers   == <<server, listening, lastErr>>
sshVars   == <<sshConfig, calls, holder, servers, sessions, refused, crossed>>

SshTypeOK ==
  /\ ssh \in SshSettings /\ onDisk \in SshSettings
  /\ place \in [Callers -> {"out", "update", "reload", "closing", "start", "over"}]
  /\ want \in [Callers -> SshSettings \cup {NoServer}]
  /\ holder \in Callers \cup {NoServer}
  /\ server \in Ports \cup {NoServer} /\ listening \subseteq Ports
  /\ lastErr \in BOOLEAN
  /\ sessions \in [Clients -> Ports \cup {NoServer}]
  /\ requests \in 0..MaxRequests
  /\ refused \in BOOLEAN /\ crossed \in BOOLEAN

(* The daemon has read its configuration and is about to start the server. *)
Starting ==
  [c \in Callers |-> IF c = Main THEN "start" ELSE "out"]

SshInit ==
  /\ ssh \in SshSettings /\ onDisk = ssh
  /\ place = Starting /\ want = [c \in Callers |-> NoServer]
  /\ holder = NoServer /\ server = NoServer /\ listening = {} /\ lastErr = FALSE
  /\ sessions = [c \in Clients |-> NoServer]
  /\ requests = 0 /\ refused = FALSE /\ crossed = FALSE

-----------------------------------------------------------------------------
Busy == \E c \in Callers : place[c] \notin {"out", "over"}

At(c, p)    == place[c] = p
Moves(c, p) == place' = [place EXCEPT ![c] = p] /\ UNCHANGED <<want, requests>>

(* A request with new settings: requests are served once Main has started  *)
(* the server.                                                             *)
Ask(c) ==
  /\ At(c, "out") /\ c # Main /\ ~At(Main, "start")
  /\ requests < MaxRequests /\ requests' = requests + 1
  /\ place' = [place EXCEPT ![c] = "update"]
  /\ \E s \in SshSettings : want' = [want EXCEPT ![c] = s]
  /\ crossed' = (crossed \/ Busy)
  /\ UNCHANGED <<sshConfig, holder, servers, sessions, refused>>

(* The Stop of Main: what is still under way then goes on.                 *)
AskStop ==
  /\ At(Main, "out") /\ Moves(Main, "reload") /\ crossed' = TRUE
  /\ UNCHANGED <<sshConfig, holder, servers, sessions, refused>>

(* cfgMgr.Update; when the file cannot be written the new settings stay in *)
(* memory and the request ends.                                            *)
UpdateConfig(c) ==
  /\ At(c, "update") /\ ssh' = want[c]
  /\ \/ onDisk' = ssh' /\ Moves(c, "reload") /\ UNCHANGED refused
     \/ UNCHANGED onDisk /\ Moves(c, "out") /\ refused' = TRUE
  /\ UNCHANGED <<holder, servers, sessions, crossed>>

(* The caller goes on to Start only if it asked for that.                  *)
GoesOn(c) ==
  Moves(c, IF c = Main THEN "over" ELSE IF want[c].enabled THEN "start" ELSE "out")

NothingToClose(c) ==
  /\ At(c, "reload") /\ holder = NoServer /\ server = NoServer
  /\ GoesOn(c)
  /\ UNCHANGED <<sshConfig, holder, servers, sessions, refused, crossed>>

CloseListener(c) ==
  /\ At(c, "reload") /\ holder = NoServer /\ server # NoServer
  /\ Moves(c, "closing") /\ holder' = c /\ listening' = listening \ {server}
  /\ UNCHANGED <<sshConfig, server, lastErr, sessions, refused, crossed>>

(* Server.Close waits for the connections it has accepted.                 *)
Closed(c) ==
  /\ At(c, "closing") /\ \A s \in Clients : sessions[s] # server
  /\ server' = NoServer /\ holder' = NoServer /\ GoesOn(c)
  /\ UNCHANGED <<sshConfig, listening, lastErr, sessions, refused, crossed>>

(* Start has the lock from its first line to its last and reads the        *)
(* settings again. It does not look at m.server; it fails on a port where  *)
(* somebody listens, another server of ours too, or without a host key.    *)
StartServerAsAsked(c) ==
  /\ At(c, "start") /\ holder = NoServer /\ Moves(c, "out")
  /\ LET s == IF c = Main THEN ssh ELSE want[c]
     IN  \/ /\ s.enabled /\ s.port \notin listening
            /\ server' = s.port /\ listening' = listening \cup {s.port} /\ lastErr' = FALSE
         \/ s.enabled /\ lastErr' = TRUE /\ UNCHANGED <<server, listening>>
         \/ ~s.enabled /\ UNCHANGED servers
  /\ UNCHANGED <<sshConfig, holder, sessions, refused, crossed>>

StartServer(c) ==
  /\ At(c, "start") /\ holder = NoServer /\ Moves(c, "out")
  /\ \/ /\ ssh.enabled /\ ssh.port \notin listening
        /\ server' = ssh.port /\ listening' = listening \cup {ssh.port} /\ lastErr' = FALSE
     \/ ssh.enabled /\ lastErr' = TRUE /\ UNCHANGED <<server, listening>>
     \/ ~ssh.enabled /\ UNCHANGED servers
  /\ UNCHANGED <<sshConfig, holder, sessions, refused, crossed>>

Connect(s) ==
  /\ sessions[s] = NoServer /\ \E p \in listening : sessions' = [sessions EXCEPT ![s] = p]
  /\ UNCHANGED <<sshConfig, calls, holder, servers, refused, crossed>>

Leave(s) ==
  /\ sessions[s] # NoServer /\ sessions' = [sessions EXCEPT ![s] = NoServer]
  /\ UNCHANGED <<sshConfig, calls, holder, servers, refused, crossed>>

(* Every other handler that saves settings writes the whole configuration. *)
SaveOthers ==
  /\ onDisk' = ssh
  /\ UNCHANGED <<ssh, calls, holder, servers, sessions, refused, crossed>>

(* The process ends, at the end of Main or at any point, and starts again. *)
Restart ==
  /\ ssh' = onDisk /\ place' = Starting /\ want' = [c \in Callers |-> NoServer]
  /\ holder' = NoServer /\ server' = NoServer /\ listening' = {} /\ lastErr' = FALSE
  /\ sessions' = [c \in Clients |-> NoServer]
  /\ refused' = FALSE /\ crossed' = FALSE
  /\ UNCHANGED <<onDisk, requests>>

SshNext ==
  \/ \E c \in Callers :
       \/ Ask(c) \/ UpdateConfig(c)
       \/ NothingToClose(c) \/ CloseListener(c) \/ Closed(c) \/ StartServer(c)
  \/ \E s \in Clients : Connect(s) \/ Leave(s)
  \/ AskStop \/ SaveOthers \/ Restart

SshSpec == SshInit /\ [][SshNext]_sshVars

-----------------------------------------------------------------------------
(* Once no call is under way, the manager's server (ApplySettings and      *)
(* Start, manager.go:142) is on the port of the present configuration and  *)
(* is enabled there, in whatever order requests, their updates, restarts   *)
(* of the server and connections came; after calls one at a time it is     *)
(* also the only listener, and it runs unless an error is recorded.        *)
ServerFollowsConfig ==
  ~Busy /\ ~refused =>
    /\ server # NoServer => ssh.enabled /\ server = ssh.port
    /\ ~crossed => /\ listening = {server} \ {NoServer}
                   /\ ssh.enabled /\ ~lastErr => server # NoServer
=============================================================================
