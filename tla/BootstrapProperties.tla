------------------------ MODULE BootstrapProperties -------------------------
(***************************************************************************)
(* What the handles written into the services may be relied upon for.      *)
(***************************************************************************)
EXTENDS Bootstrap

\* The handles each program names in its code, with what they stand for
\* there.  (The key endpoint of the keyboard and terminal services is the
\* subject of KeysHaveAnEndpoint.)
Uses ==
  [ terminal     |-> {<<3, Framebuffer>>},
    keyboard     |-> {<<1, Cap("Interrupt", 1)>>, <<2, Cap("PortIO", 96)>>},
    ata          |-> {<<4, Cap("Interrupt", 14)>>, <<5, Cap("PortIO", 496)>>,
                      <<8, Created("ata_ep")>>, <<10, Created("shm")>>},
    fat16        |-> {<<8, Created("ata_ep")>>, <<9, Created("vfs_ep")>>,
                      <<10, Created("shm")>>},
    storage_test |-> {<<9, Created("vfs_ep")>>, <<10, Created("shm")>>},
    rtl8139      |-> {<<20, NicIrq>>, <<21, NicBar>>, <<22, DmaPool>>,
                      <<11, Created("rtl_ep")>>, <<12, Created("net_ep")>>,
                      <<14, Created("net_shm")>>},
    network      |-> {<<11, Created("rtl_ep")>>, <<12, Created("net_ep")>>,
                      <<13, Created("test_ep")>>, <<14, Created("net_shm")>>},
    network_test |-> {<<12, Created("net_ep")>>, <<13, Created("test_ep")>>,
                      <<14, Created("net_shm")>>} ]

\* A service that got through its start-up holds, at every handle its code
\* names, the very object meant: when a missing framebuffer or a failed
\* allocation has shifted the handles (init.rs), the first sys_map_phys finds
\* something that is not memory, and the service stops.
ServingIsWired ==
  \A s \in Service : status[s] = "serving" =>
    \A use \in Uses[s] : Get(children[s], use[1]) = use[2]

AllocationFailed ==
  \E name \in {"shm", "net_shm"} :
    name \in DOMAIN handle /\ handle[name] = 0

\* A service stops at its start-up only when something is really missing: the
\* framebuffer, a frame, or a network card with port registers.  In
\* particular the order in which init starts the services, and the Process
\* capabilities it collects meanwhile, never cost one of them a handle.
StopsOnlyForCause ==
  \A s \in Service : status[s] = "stopped" =>
    \/ ~machine.framebuffer
    \/ AllocationFailed
    \/ s = "rtl8139" /\ machine.nic # "io"

\* keyboard_service.rs and terminal_service.rs: handle 4 is the endpoint
\* between them.
KeysHaveAnEndpoint ==
  \A s \in {"keyboard", "terminal"} : status[s] = "serving" =>
    Get(children[s], 4) = Created("kbd_ep")
=============================================================================
