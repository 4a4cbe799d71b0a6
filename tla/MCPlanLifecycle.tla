-------------------------- MODULE MCPlanLifecycle --------------------------
(***************************************************************************)
(* An instance of PlanLifecycle: a machine, a smaller one with its own     *)
(* storage, and the first one with less RAM free and another model.        *)
(***************************************************************************)
EXTENDS PlanLifecycle

CONSTANTS big, small, disk, stick, here, llama, other

MCModel(id, peak) ==
    [id |-> id, size |-> 9, executable |-> TRUE, coalescible |-> TRUE, reusable |-> TRUE,
     persistents |-> <<[resident |-> 2, charge |-> 4]>>,
     layers |-> <<[resident |-> 2, peak |-> peak], [resident |-> 3, peak |-> 4]>>,
     reads |-> 8, formats |-> {"Q4K"}, supported |-> {"Q4K"}]

MCMachine(id, cores, available) ==
    [id |-> id, cores |-> cores, total |-> 16, available |-> available, cpu |-> TRUE, gpus |-> {}]

MCStorage(id) == [id |-> id, path |-> here, ready |-> TRUE, size |-> 9]

MCEnvironments ==
    {[machine |-> MCMachine(big, 4, 16), model |-> MCModel(llama, 3), storage |-> MCStorage(disk)],
     [machine |-> MCMachine(small, 1, 16), model |-> MCModel(llama, 3), storage |-> MCStorage(stick)],
     [machine |-> MCMachine(big, 4, 7), model |-> MCModel(other, 3), storage |-> MCStorage(disk)]}

MCUser(ram, mode, level) ==
    [ram |-> ram, mode |-> mode, thread_limit |-> None, gpu |-> "Prefer", level |-> level,
     threads |-> None, cache_enabled |-> None, cache_capacity |-> None, coalescing |-> None,
     reuse |-> None, device |-> None]

MCUsers ==
    {MCUser(12, "Performance", 1),
     [MCUser(7, "Advanced", 0) EXCEPT !.threads = 2, !.cache_capacity = 3, !.coalescing = FALSE]}

\* Sizes in units of 4 KiB or so, times in units of a second.
MCSizes ==
    [memory_floor |-> 4, memory_ceiling |-> 8, read |-> 2, total_time |-> 3, task_time |-> 2,
     samples |-> 2, iterations |-> 4, max_memory |-> 16, max_read |-> 4, max_samples |-> 3,
     max_iterations |-> 8, max_volume |-> 40, metadata |-> 1, cpu_buffer |-> 1, buffer |-> 2,
     least_buffer |-> 1, quantized |-> 2,
     level_work |-> <<<<1, 1>>, <<2, 1>>, <<2, 2>>>>]
=============================================================================
