------------------------------ MODULE AcceptLoop ------------------------------
(***************************************************************************)
(* The listening processes of the TCP server: the start of a SocketWrapper *)
(* (wrappers/socketw/socket_wrapper.py), its accept loop, the thread of    *)
(* each accepted connection, the TLS handshake with the SNI callback       *)
(* (sni.py, certificator.py, creator.py, exception_wrapper.py) and the     *)
(* certificates kept in files (certauthw/certauth.py).                     *)
(*                                                                         *)
(* Two things are shared without a lock: the attribute `message` of the    *)
(* decorated wrap function, by the threads of a process, and the files of  *)
(* the certificates, by every thread of every process: the lock of         *)
(* FileCache belongs to one object, and each connection makes its own.     *)
(* A file is "absent", "empty" (opened for writing) or the CA key, named   *)
(* for its maker, that signed it; reads of an empty file give b''.         *)
(***************************************************************************)
EXTENDS FiniteSets

CONSTANTS Listeners,    \* processes, one per listening address
          Clients,      \* connections
          ListenerOf,   \* the process a connection comes to
          HostOf,       \* the name a client asks for
          CertModes     \* subset of {"default", "domain", "custom"}

Hosts == {HostOf[c] : c \in Clients}
CertFiles == Hosts \cup {"default"}
Actors == Listeners \cup Clients
Keys == Actors \cup {"old"}

ASSUME AcceptAssumption ==
    /\ ListenerOf \in [Clients -> Listeners]
    /\ CertModes \subseteq {"default", "domain", "custom"}
    /\ {"old", "absent", "empty", "none", "custom"} \cap Actors = {}

VARIABLES certMode,   \* which of the three certificate settings is on
          procPc,     \* where the start of a process is
          accPc,      \* where the thread of a connection is
          accTls,     \* does the client speak TLS
          accSsl,     \* ssl_client_socket is not None
          accContext, \* the CA of the certificate in the context, or "none"
          accError,   \* accept_error_message, read from the attribute
          accMessage, \* wrap_socket_with_ssl_context_server.message: whose error
          domainList, \* default_certificate_domain_list
          caFile,     \* the file of the CA certificate
          crtFile,    \* its copy for installation, made from the file
          certFiles,  \* the files of the server certificates
          caOf,       \* the CA an actor has loaded
          statistics, \* connections with a row of write_accept_error
          exceptions  \* actors that wrote to the exceptions logger

accThreads == <<accPc, accTls, accSsl, accContext, accError>>
accShared == <<accMessage, domainList>>
accDisk == <<caFile, crtFile, certFiles>>
accLogs == <<statistics, exceptions>>
accVars == <<certMode, procPc, accThreads, accShared, accDisk, caOf, accLogs>>

Readable(f) == f \notin {"absent", "empty"}
-----------------------------------------------------------------------------
(* A first start has no CA; the file may have been removed by hand, and    *)
(* then certificates of the old CA are still in the directory.             *)
AccInit ==
    /\ certMode \in CertModes
    /\ procPc = [p \in Listeners |-> "test_config"]
    /\ accPc = [c \in Clients |-> "none"]
    /\ accTls \in [Clients -> BOOLEAN]
    /\ accSsl = [c \in Clients |-> FALSE]
    /\ accContext = [c \in Clients |-> "none"]
    /\ accError = [c \in Clients |-> {}]
    /\ accMessage = [p \in Listeners |-> {}]
    /\ domainList = [p \in Listeners |-> {}]
    /\ caFile \in {"absent", "old"}
    /\ crtFile = caFile
    /\ certFiles \in {[f \in CertFiles |-> "absent"], [f \in CertFiles |-> "old"]}
    /\ caOf = [a \in Actors |-> "none"]
    /\ statistics = {}
    /\ exceptions = {}

(* test_config: an inconsistent setting or a used port raises; a missing   *)
(* file of a custom certificate returns 1, which __init__ does not look at.*)
wrapper_test_config(p) ==
    /\ procPc[p] = "test_config"
    /\ \E outcome \in {"raised", IF caFile = "absent" THEN "ca" ELSE "listening"} :
          procPc' = [procPc EXCEPT ![p] = outcome]
    /\ UNCHANGED <<certMode, accThreads, accShared, accDisk, caOf, accLogs>>

(* CertificateAuthority.load_root_ca_cert: what is not there, or reads as  *)
(* empty, is generated and written over whatever is there by then.         *)
LoadRootCa(a, ready, missing) ==
    IF Readable(caFile)
    THEN caOf' = [caOf EXCEPT ![a] = caFile] /\ ready
    ELSE caOf' = [caOf EXCEPT ![a] = a] /\ missing

(* creating the CA at start-up *)
process_load_ca(p) ==
    /\ procPc[p] = "ca"
    /\ LoadRootCa(p, procPc' = [procPc EXCEPT ![p] = "crt"],
                     procPc' = [procPc EXCEPT ![p] = "caOpen"])
    /\ UNCHANGED <<certMode, accThreads, accShared, accDisk, accLogs>>
process_open_ca(p) ==
    /\ procPc[p] = "caOpen"
    /\ caFile' = "empty"
    /\ procPc' = [procPc EXCEPT ![p] = "caWrite"]
    /\ UNCHANGED <<certMode, accThreads, accShared, crtFile, certFiles, caOf, accLogs>>
process_write_ca(p) ==
    /\ procPc[p] = "caWrite"
    /\ caFile' = caOf[p]
    /\ procPc' = [procPc EXCEPT ![p] = "crt"]
    /\ UNCHANGED <<certMode, accThreads, accShared, crtFile, certFiles, caOf, accLogs>>
process_write_crt(p) ==
    /\ procPc[p] = "crt"
    /\ IF Readable(caFile)
       THEN crtFile' = caFile /\ procPc' = [procPc EXCEPT ![p] = "rmtree"]
       ELSE procPc' = [procPc EXCEPT ![p] = "raised"] /\ UNCHANGED crtFile
    /\ UNCHANGED <<certMode, accThreads, accShared, caFile, certFiles, caOf, accLogs>>

(* A CA made anew: the certificates signed by another one are removed.     *)
Mutant_RemoveCached == UNCHANGED certFiles
RemoveCached ==
    certFiles' = [f \in CertFiles |-> IF f \in Hosts THEN "absent" ELSE certFiles[f]]
process_remove_cached(p) ==
    /\ procPc[p] = "rmtree"
    /\ RemoveCached
    /\ procPc' = [procPc EXCEPT ![p] = "listening"]
    /\ UNCHANGED <<certMode, accThreads, accShared, caFile, crtFile, caOf, accLogs>>
-----------------------------------------------------------------------------
GoesTo(c, pc) == accPc' = [accPc EXCEPT ![c] = pc]
accSettled == <<certMode, procPc, domainList, accTls, caFile, crtFile>>

(* A client connects (the environment). *)
connect(c) ==
    /\ accPc[c] = "none"
    /\ procPc[ListenerOf[c]] = "listening"
    /\ GoesTo(c, "pending")
    /\ UNCHANGED <<accSettled, accSsl, accContext, accError, accMessage, certFiles,
                   caOf, accLogs>>

(* listening_socket_loop: the domain for the address is looked up before   *)
(* accept; a value in on_port_connect that gives no address raises, and    *)
(* the loop finds the same connection readable again.                      *)
lookup_raises(c) ==
    /\ accPc[c] = "pending"
    /\ exceptions' = exceptions \cup {ListenerOf[c]}
    /\ UNCHANGED <<accSettled, accPc, accSsl, accContext, accError, accMessage,
                   certFiles, caOf, statistics>>
accept(c) ==
    /\ accPc[c] = "pending"
    /\ GoesTo(c, "peek")
    /\ UNCHANGED <<accSettled, accSsl, accContext, accError, accMessage, certFiles,
                   caOf, accLogs>>
(* A failed accept() returns None from the decorated function, and taking  *)
(* it apart raises a TypeError: the row of statistics is never written.    *)
accept_fails(c) ==
    /\ accPc[c] = "pending"
    /\ GoesTo(c, "over")
    /\ exceptions' = exceptions \cup {ListenerOf[c]}
    /\ UNCHANGED <<accSettled, accSsl, accContext, accError, accMessage, certFiles,
                   caOf, statistics>>

(* _handle_connection: names are asked for, then three bytes are peeked at. *)
peek(c) ==
    /\ accPc[c] = "peek"
    /\ GoesTo(c, IF accTls[c] THEN "select" ELSE "call")
    /\ UNCHANGED <<accSettled, accSsl, accContext, accError, accMessage, certFiles,
                   caOf, accLogs>>
(* The peek times out, and the socket is closed; or it raises.             *)
peek_fails(c) ==
    /\ accPc[c] = "peek"
    /\ GoesTo(c, "over")
    /\ statistics' = statistics \cup {c}
    /\ UNCHANGED <<accSettled, accSsl, accContext, accError, accMessage, certFiles,
                   caOf, exceptions>>

(* An exception nobody foresaw. *)
Unforeseen(c) ==
    /\ GoesTo(c, "over")
    /\ exceptions' = exceptions \cup {c}
    /\ UNCHANGED statistics
-----------------------------------------------------------------------------
(* Certificates.  select_server_ssl_context_certificate overwrites the     *)
(* default certificate, before the socket is wrapped; the callback of SNI  *)
(* overwrites it again when the name is new, or makes the certificate of   *)
(* the name.  The steps of both are the same: CA, cache, open, write, load.*)
select_certificate(c) ==
    /\ accPc[c] = "select"
    /\ IF certMode = "default" THEN GoesTo(c, "ca")
       ELSE GoesTo(c, "wrap")
    /\ accContext' = IF certMode = "custom" THEN [accContext EXCEPT ![c] = "custom"]
                     ELSE accContext
    /\ UNCHANGED <<accSettled, accSsl, accError, accMessage, certFiles, caOf, accLogs>>

(* The decorator clears the message of the function, for all threads. *)
wrap(c) ==
    /\ accPc[c] = "wrap"
    /\ accMessage' = [accMessage EXCEPT ![ListenerOf[c]] = {}]
    /\ GoesTo(c, "sni")
    /\ UNCHANGED <<accSettled, accSsl, accContext, accError, certFiles, caOf, accLogs>>

(* sni_handle_extended *)
sni_handle(c) ==
    LET p == ListenerOf[c] IN
    /\ accPc[c] = "sni"
    /\ IF certMode = "default" /\ HostOf[c] \notin domainList[p]
       THEN /\ domainList' = [domainList EXCEPT ![p] = @ \cup {HostOf[c]}]
            /\ GoesTo(c, "sniCa")
       ELSE /\ GoesTo(c, IF certMode = "domain" THEN "sniCa" ELSE "handshake")
            /\ UNCHANGED domainList
    /\ UNCHANGED <<certMode, procPc, accTls, caFile, crtFile, accSsl, accContext,
                   accError, accMessage, certFiles, caOf, accLogs>>

CertFile(c) == IF certMode = "default" THEN "default" ELSE HostOf[c]
InSni(c) == accPc[c] \in {"sniCa", "sniCaOpen", "sniCaWrite", "sniGet", "sniOpen",
                          "sniWrite", "sniLoad"}
Step(c, before, inSni) == accPc[c] \in {before, inSni}
Then(c, before, inSni) == GoesTo(c, IF InSni(c) THEN inSni ELSE before)

load_ca(c) ==
    /\ Step(c, "ca", "sniCa")
    /\ LoadRootCa(c, Then(c, "get", "sniGet"), Then(c, "caOpen", "sniCaOpen"))
    /\ UNCHANGED <<accSettled, accSsl, accContext, accError, accMessage, certFiles,
                   accLogs>>
open_ca(c) ==
    /\ Step(c, "caOpen", "sniCaOpen")
    /\ caFile' = "empty"
    /\ Then(c, "caWrite", "sniCaWrite")
    /\ UNCHANGED <<certMode, procPc, domainList, accTls, crtFile, accSsl, accContext,
                   accError, accMessage, certFiles, caOf, accLogs>>
write_ca(c) ==
    /\ Step(c, "caWrite", "sniCaWrite")
    /\ caFile' = caOf[c]
    /\ Then(c, "get", "sniGet")
    /\ UNCHANGED <<certMode, procPc, domainList, accTls, crtFile, accSsl, accContext,
                   accError, accMessage, certFiles, caOf, accLogs>>

(* load_cert: the default certificate is always overwritten. *)
get_cached(c) ==
    /\ Step(c, "get", "sniGet")
    /\ IF certMode # "default" /\ Readable(certFiles[CertFile(c)])
       THEN Then(c, "load", "sniLoad")
       ELSE Then(c, "open", "sniOpen")
    /\ UNCHANGED <<accSettled, accSsl, accContext, accError, accMessage, certFiles,
                   caOf, accLogs>>
open_cert(c) ==
    /\ Step(c, "open", "sniOpen")
    /\ certFiles' = [certFiles EXCEPT ![CertFile(c)] = "empty"]
    /\ Then(c, "write", "sniWrite")
    /\ UNCHANGED <<accSettled, accSsl, accContext, accError, accMessage, caOf, accLogs>>
write_cert(c) ==
    /\ Step(c, "write", "sniWrite")
    /\ certFiles' = [certFiles EXCEPT ![CertFile(c)] = caOf[c]]
    /\ Then(c, "load", "sniLoad")
    /\ UNCHANGED <<accSettled, accSsl, accContext, accError, accMessage, caOf, accLogs>>

(* load_cert_chain reads the file once more: another thread may be writing *)
(* it.  Before the wrap the SSLError is only printed; in the callback the  *)
(* handler of that error raises one itself (print_kwargs is None), it is   *)
(* logged, and the context stays as it was.                                *)
load_chain(c) ==
    /\ Step(c, "load", "sniLoad")
    /\ Then(c, "wrap", "handshake")
    /\ LET file == certFiles[CertFile(c)] IN
       /\ accContext' = IF Readable(file) THEN [accContext EXCEPT ![c] = file]
                        ELSE accContext
       /\ exceptions' = IF InSni(c) /\ ~Readable(file) THEN exceptions \cup {c}
                        ELSE exceptions
    /\ UNCHANGED <<accSettled, accSsl, accError, accMessage, certFiles, caOf, statistics>>

(* create_use_sni_server_certificate_ca_signed may have to fetch the       *)
(* certificate of the service first, and that may raise.                   *)
sni_raises(c) ==
    /\ accPc[c] = "sniCa"
    /\ certMode = "domain"
    /\ exceptions' = exceptions \cup {c}
    /\ GoesTo(c, "handshake")
    /\ UNCHANGED <<accSettled, accSsl, accContext, accError, accMessage, certFiles,
                   caOf, statistics>>
-----------------------------------------------------------------------------
(* The end of the handshake: without a certificate it cannot succeed, with *)
(* one the client may still refuse it.  An error is left in the message.   *)
handshake_succeeds(c) ==
    /\ accPc[c] = "handshake"
    /\ accContext[c] # "none"
    /\ accSsl' = [accSsl EXCEPT ![c] = TRUE]
    /\ GoesTo(c, "readError")
    /\ UNCHANGED <<accSettled, accContext, accError, accMessage, certFiles, caOf, accLogs>>
handshake_fails(c) ==
    /\ accPc[c] = "handshake"
    /\ accMessage' = [accMessage EXCEPT ![ListenerOf[c]] = {c}]
    /\ GoesTo(c, "readError")
    /\ UNCHANGED <<accSettled, accSsl, accContext, accError, certFiles, caOf, accLogs>>

(* error_message = wrap_socket_with_ssl_context_server.message *)
read_error(c) ==
    /\ accPc[c] = "readError"
    /\ accError' = [accError EXCEPT ![c] = accMessage[ListenerOf[c]]]
    /\ GoesTo(c, "wrapped")
    /\ UNCHANGED <<accSettled, accSsl, accContext, accMessage, certFiles, caOf, accLogs>>

(* An error ends the thread with a row; else the version of the TLS socket *)
(* is asked for, and None has none: AttributeError.                        *)
Mutant_after_wrap_no_version(c) ==
    IF accError[c] # {}
    THEN /\ GoesTo(c, "over")
         /\ statistics' = statistics \cup {c} /\ UNCHANGED exceptions
    ELSE GoesTo(c, "call") /\ UNCHANGED accLogs
after_wrap(c) ==
    IF accError[c] # {}
    THEN /\ GoesTo(c, "over")
         /\ statistics' = statistics \cup {c} /\ UNCHANGED exceptions
    ELSE IF ~accSsl[c] THEN Unforeseen(c)
    ELSE GoesTo(c, "call") /\ UNCHANGED accLogs
wrapped(c) ==
    /\ accPc[c] = "wrapped"
    /\ after_wrap(c)
    /\ UNCHANGED <<accSettled, accSsl, accContext, accError, accMessage, certFiles, caOf>>

(* callable_function, the worker of the connection: its exceptions are     *)
(* logged.                                                                 *)
call(c) ==
    /\ accPc[c] = "call"
    /\ GoesTo(c, "served")
    /\ exceptions' \in {exceptions, exceptions \cup {c}}
    /\ UNCHANGED <<accSettled, accSsl, accContext, accError, accMessage, certFiles,
                   caOf, statistics>>
-----------------------------------------------------------------------------
ProcessStep(p) ==
    \/ wrapper_test_config(p) \/ process_load_ca(p) \/ process_open_ca(p)
    \/ process_write_ca(p) \/ process_write_crt(p) \/ process_remove_cached(p)
ConnectionStep(c) ==
    \/ peek(c) \/ peek_fails(c) \/ select_certificate(c) \/ wrap(c) \/ sni_handle(c)
    \/ load_ca(c) \/ open_ca(c) \/ write_ca(c) \/ get_cached(c) \/ open_cert(c)
    \/ write_cert(c) \/ load_chain(c) \/ sni_raises(c)
    \/ handshake_succeeds(c) \/ handshake_fails(c) \/ read_error(c) \/ wrapped(c) \/ call(c)

AccNext ==
    \/ \E p \in Listeners : ProcessStep(p)
    \/ \E c \in Clients : connect(c) \/ lookup_raises(c) \/ accept(c) \/ accept_fails(c)
    \/ \E c \in Clients : ConnectionStep(c)

AccSpec == AccInit /\ [][AccNext]_accVars
-----------------------------------------------------------------------------
AccTypeOK ==
    /\ certMode \in CertModes
    /\ accTls \in [Clients -> BOOLEAN] /\ accSsl \in [Clients -> BOOLEAN]
    /\ accContext \in [Clients -> Keys \cup {"none", "custom"}]
    /\ accMessage \in [Listeners -> SUBSET Clients]
    /\ accError \in [Clients -> SUBSET Clients]
    /\ caFile \in Keys \cup {"absent", "empty"}
    /\ certFiles \in [CertFiles -> Keys \cup {"absent", "empty"}]
    /\ caOf \in [Actors -> Keys \cup {"none"}]

(* A TLS client is handed to the worker only over a finished handshake,    *)
(* although the error it reads may have been cleared by another thread.    *)
ServedOverTls == \A c \in Clients : accPc[c] \in {"call", "served"} /\ accTls[c] => accSsl[c]

(* A certificate that is served was signed by the CA in the file, the one  *)
(* that is installed in the clients, also after the CA was removed by hand *)
(* and made anew.                                                          *)
ServedByTheCa ==
    \A c \in Clients : accSsl[c] /\ certMode # "custom" =>
        accContext[c] = caFile /\ caFile = crtFile

(* 'After you execute the function, you can get the error message if there *)
(* was any with: error_message =                                           *)
(* wrap_socket_with_ssl_context_server.message' (creator.py:241).          *)
ErrorIsItsOwn == \A c \in Clients : accPc[c] = "wrapped" => (accError[c] = {} <=> accSsl[c])
=============================================================================
