---------------------------- MODULE MCStructures ----------------------------
(***************************************************************************)
(* The data structures, parsers and socket helpers that both servers and   *)
(* the clients are built on, side by side.  A behaviour is about one of    *)
(* them; the others stay as they were created.                             *)
(***************************************************************************)
EXTENDS IOBuffer, LinkedList, Cbuffer, BufferChain, HttpSyncSocket, UrlParser, SocketUse

CONSTANT Tried   \* the structures a run looks at

VARIABLE structure

structVars == <<structure, iobVars, listVars, cbVars, chainVars, hlVars, hsVars, urlVars, sockVars>>

StructInit ==
    /\ structure \in Tried
    /\ IobInit /\ ListInit /\ CbInit /\ ChainInit /\ HlInit /\ HsInit /\ UrlInit /\ SockInit
    /\ structure # "sync socket" => syncsock = http_syncsocket_new
    /\ structure # "url" => is_connect = FALSE
    /\ structure # "socket" => tuning = "blocking"

Trying(name, step) == structure = name /\ step /\ UNCHANGED structure

StructNext ==
    \/ /\ Trying("iobuffer", IobNext)
       /\ UNCHANGED <<listVars, cbVars, chainVars, hlVars, hsVars, urlVars, sockVars>>
    \/ /\ Trying("list", ListNext)
       /\ UNCHANGED <<iobVars, cbVars, chainVars, hlVars, hsVars, urlVars, sockVars>>
    \/ /\ Trying("cbuffer", CbNext)
       /\ UNCHANGED <<iobVars, listVars, chainVars, hlVars, hsVars, urlVars, sockVars>>
    \/ /\ Trying("chain", ChainNext)
       /\ UNCHANGED <<iobVars, listVars, cbVars, hlVars, hsVars, urlVars, sockVars>>
    \/ /\ Trying("headers", HlNext)
       /\ UNCHANGED <<iobVars, listVars, cbVars, chainVars, hsVars, urlVars, sockVars>>
    \/ /\ Trying("sync socket", HsNext)
       /\ UNCHANGED <<iobVars, listVars, cbVars, chainVars, hlVars, urlVars, sockVars>>
    \/ /\ Trying("url", UrlNext)
       /\ UNCHANGED <<iobVars, listVars, cbVars, chainVars, hlVars, hsVars, sockVars>>
    \/ /\ Trying("socket", SockNext /\ UNCHANGED tuning)
       /\ UNCHANGED <<iobVars, listVars, cbVars, chainVars, hlVars, hsVars, urlVars>>

StructSpec == StructInit /\ [][StructNext]_structVars
=============================================================================
