\* One operation is enough.
CONSTANTS
    Ops = {o1}
    max_refinement_cycles = 2
    Targets = {"garden_planner", "environmental_analysis", "root_system_architect",
               "tree_placement_planner"}
    max_foundation_cycles = 1
SPECIFICATION Spec
INVARIANT ReExecuted
CHECK_DEADLOCK FALSE
