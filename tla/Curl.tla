-------------------------------- MODULE Curl --------------------------------
(***************************************************************************)
(* The shell's command curl (cmd_curl in src/shell/shell.c), the only user *)
(* of the TCP client, and the prompt it returns to.  iflag is the          *)
(* interrupt flag of the CPU where the calls leave it:                     *)
(*   - the loops of net.c wait with "sti; hlt; cli", so every turn opens   *)
(*     interrupts and closes them again;                                   *)
(*   - timer_get_ticks and keyboard_getchar end with sti;                  *)
(*   - the prompt waits for a key with a bare hlt.                         *)
(* Keys are one place of a buffer: key says that one is there.  One key    *)
(* stands for a line typed at the prompt; whether it is a curl is open.    *)
(***************************************************************************)
EXTENDS Tcp

VARIABLES at,      \* "prompt", "send", "loop", "close", or in a call of Tcp
          iflag, key

curlvars == <<at, iflag, key>>
allvars == <<vars, curlvars>>

CurlInit == Init /\ at = "prompt" /\ iflag = TRUE /\ key = FALSE

\* The keyboard interrupt while curl runs (the handler of Keyboard.tla, as far
\* as it matters here).
KeyPress == /\ at # "prompt" /\ (iflag \/ at = "call")
            /\ key' = TRUE /\ UNCHANGED <<vars, at, iflag>>

\* shell_run: keyboard_getchar finds a key or waits for one, which needs
\* interrupts; the line may be a curl, whose tcp_connect has its host by number
\* or gets it from dns_resolve.
Prompt == /\ at = "prompt" /\ (key \/ iflag)
          /\ key' = FALSE /\ iflag' = TRUE
          /\ \/ UNCHANGED <<vars, at>>
             \/ ConnectCall /\ at' = "call"

\* The loop of tcp_connect tests the state first: if that has changed, the
\* call returns without timer_get_ticks after the last cli.
FlagAfterConnect == ts.state = "SYN_SENT"
Connected == /\ ConnectReturn
             /\ iflag' = FlagAfterConnect
             /\ at' = IF Succeeded THEN "send" ELSE "prompt"
             /\ UNCHANGED key

SendRequest == /\ at = "send" /\ SendData
               /\ at' = "loop" /\ UNCHANGED <<iflag, key>>

\* if (keyboard_has_key()) { keyboard_getchar(); break; }
Stops_Never == FALSE
Stops == key
StopKey == /\ at = "loop" /\ Stops
           /\ key' = FALSE /\ iflag' = TRUE /\ at' = "close"
           /\ UNCHANGED vars

\* tcp_recv: refused at once it leaves the flag alone; otherwise its loop
\* begins every turn with timer_get_ticks.
Receive == /\ at = "loop" /\ ~Stops
           /\ IF Refused THEN at' = "close" /\ UNCHANGED <<vars, iflag>>
              ELSE RecvCall /\ at' = "call" /\ iflag' = TRUE
           /\ UNCHANGED key
Received == /\ \/ (RecvData \/ RecvTimeout) /\ at' = "loop"
               \/ RecvEnds /\ at' = "close"
            /\ iflag' = TRUE /\ UNCHANGED key

\* tcp_close; its loop ends by the deadline, after timer_get_ticks.
Close == /\ at = "close" /\ CloseCall
         /\ at' = IF pc' = "close" THEN "call" ELSE "prompt"
         /\ UNCHANGED <<iflag, key>>
Closed == /\ CloseReturn
          /\ at' = "prompt" /\ iflag' = TRUE /\ UNCHANGED key

Main == \/ Prompt \/ Connected \/ SendRequest \/ StopKey \/ Receive \/ Received
        \/ Close \/ Closed
        \/ TcpPoll /\ UNCHANGED curlvars

CurlNext == Main \/ KeyPress \/ (Environment /\ UNCHANGED curlvars)

\* Main code runs on, and deadlines pass: every turn of a loop lets the timer in.
CurlSpec == CurlInit /\ [][CurlNext]_allvars /\ WF_allvars(Main)

-----------------------------------------------------------------------------
(***************************************************************************)
(* curl takes a connection for ended, by FIN or RST, only after tcp_recv   *)
(* gave it every byte received on it.                                      *)
(***************************************************************************)
EndAfterData ==
  [][(at \in {"loop", "call"} /\ at' = "close" /\ key' = key) => handed = ts.rx]_allvars

(***************************************************************************)
(* A key pressed while curl runs brings the prompt back, whatever the      *)
(* server does: "press any key to stop" (cmd_curl).                        *)
(***************************************************************************)
KeyStopsCurl == (key /\ at # "prompt") ~> (at = "prompt")

(***************************************************************************)
(* The prompt is interactive: it never halts the CPU with interrupts off,  *)
(* from which no key and no timer would wake it.                           *)
(***************************************************************************)
PromptHearsKeys == ~(at = "prompt" /\ ~key /\ ~iflag)
=============================================================================
