\* Two operations at once.
CONSTANTS
    Ops = {o1, o2}
    max_refinement_cycles = 2
    Targets = {"garden_planner", "environmental_analysis", "root_system_architect",
               "tree_placement_planner"}
    max_foundation_cycles = 1
SPECIFICATION Spec
INVARIANT RecordRight
CHECK_DEADLOCK FALSE
